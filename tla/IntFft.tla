------------------------------- MODULE IntFft -------------------------------
(***************************************************************************)
(* A thread that multiplies with reference/int_fft.hpp: its tables,        *)
(* workspace and the state of one call.  Tables and workspace are thread   *)
(* local and outlive the call, so a session is a sequence of calls.        *)
(*                                                                         *)
(* As in FftCall the transforms are exact, over the field IntFields[M],    *)
(* and a u16 digit is below IntDB; digits of the fixed codecs are one and  *)
(* two bits narrower.  A 64-bit word holds four u16 digits here too, and   *)
(* the 128-bit partials are integers.                                      *)
(***************************************************************************)
EXTENDS Integers, Sequences, FiniteSets

CONSTANTS
  IntFields,     \* M -> [q, circle]
  IntDB,         \* 2^16
  IntSessions,   \* sequences of calls
  Limits,        \* MAX_U16_TRANSFORM_N and the others: [u16, wide, centered, u15, u14]
  Pfa7MinBranch, \* 2048
  Cascade        \* [block, iterMin, cachePairs], see IntFftPasses

VARIABLES
  calls,    \* calls left, the present one first
  at,       \* the part of the present call that comes next
  pl,       \* plan: max_n, pq_omega_br_n, M
  ws,       \* workspace: capacities in points and partials, and the partials
  fs,       \* fft_size of the call
  io,       \* its codec, with the input cache
  data, data2,
  result,   \* rp and one limb behind it; -1: not written
  returned       \* value returned; -1 before

intVars == <<calls, at, pl, ws, fs, io, data, data2, result, returned>>

P(m) == INSTANCE IntFftPasses WITH
          Q <- IntFields[m].q, Circle <- IntFields[m].circle, DB <- IntDB, TwcMinLg <- 31, Tiers <- <<>>,
          Block <- Cascade.block, IterMin <- Cascade.iterMin, CachePairs <- Cascade.cachePairs

(* four u16 digits fill a limb, and no square of a limb leaves TLC's integers *)
ASSUME IntFftAssumption ==
  /\ \A m \in {1, 3, 5, 7} : P(m)!CircleRight
  /\ IntDB = 16 /\ Limits.u16 <= Limits.wide /\ Limits.wide <= Limits.centered

job == calls[1]
squares == job.kind \in {"sqr", "sqr_bits", "sqr_auto"}
second == IF squares THEN job.a ELSE job.b
ResultLimbs == Len(job.a) + Len(second)
Width == P(1)!lg(IntDB)             \* 16
LimbBase == IntDB ^ 4

-----------------------------------------------------------------------------
(* Sizes and codecs. *)

ceil_pow2(x) == CHOOSE p \in {2 ^ k : k \in 0 .. 20} : p >= x /\ (p = 1 \/ p \div 2 < x)
Size(N, n, M) == [N_full |-> N, n_branch |-> n, M |-> M]
choose_fft_size(needed) ==
  LET n(M) == ceil_pow2((needed + M - 1) \div M)
      better(best, M) ==
        IF n(M) >= (IF M = 7 THEN Pfa7MinBranch ELSE 4) /\ M * n(M) >= needed /\ M * n(M) < best.N_full
          THEN Size(M * n(M), n(M), M) ELSE best
  IN  better(better(better(Size(ceil_pow2(needed), ceil_pow2(needed), 1), 3), 5), 7)
digits_for_limbs(limbs, bits) == (4 * Width * limbs + bits - 1) \div bits
max_transform_for_trunk_bits(bits) ==
  CASE bits >= Width -> Limits.u16 [] bits = Width - 1 -> Limits.u15 [] bits = Width - 2 -> Limits.u14 [] OTHER -> 0
SizeFor(bits) ==
  choose_fft_size((digits_for_limbs(Len(job.a), bits) + digits_for_limbs(Len(second), bits) + 1) \div 2)

Codec(kind, bits) == [kind |-> kind, bits |-> bits, cache |-> P(1)!NewCache]
None == [kind |-> "none", bits |-> 0, cache |-> P(1)!NewCache]
choose_trunk_fft_size ==            \* only 14-bit digits are tried
  IF SizeFor(Width - 2).N_full <= max_transform_for_trunk_bits(Width - 2) THEN Codec("fixed", Width - 2) ELSE None
mul_codec == IF SizeFor(Width).N_full <= Limits.u16 THEN Codec("u16", Width) ELSE None
mul_auto_codec ==
  LET N == SizeFor(Width).N_full
  IN  CASE N <= Limits.u16 -> mul_codec
        [] N > Limits.u16 /\ N <= Limits.wide -> Codec("wide", Width)
        [] N > Limits.wide /\ N <= Limits.centered -> Codec("centered", Width)
        [] OTHER -> choose_trunk_fft_size
mul_bits_codec ==
  CASE job.bits = Width -> mul_codec
    [] job.bits = 0 \/ job.bits > Width -> None
    [] OTHER -> IF SizeFor(job.bits).N_full <= max_transform_for_trunk_bits(job.bits) THEN Codec("fixed", job.bits) ELSE None
ChosenCodec ==
  IF job.a = <<>> \/ second = <<>> THEN None
  ELSE CASE job.kind \in {"mul", "sqr"}           -> mul_codec
         [] job.kind \in {"mul_bits", "sqr_bits"} -> mul_bits_codec
         [] OTHER                                 -> mul_auto_codec

-----------------------------------------------------------------------------
(* The plan's tables are built for the largest branch so far; a smaller one  *)
(* uses every so many of their entries, or a prefix of the PQ table.         *)

grow(cap, need) == IF cap >= need THEN cap ELSE need
ensure_plan(p, n, M) ==
  LET max == IF n > p.max_n THEN n ELSE p.max_n
  IN  [max_n |-> max, pq_n |-> IF p.pq_n # max THEN max ELSE p.pq_n, M |-> M]
ensure_ws(w, N) == [w EXCEPT !.data_cap = grow(w.data_cap, N)]

NewPl == [max_n |-> 0, pq_n |-> 0, M |-> 1]
NewWs == [data_cap |-> 0, partial |-> <<>>]
Blank(limbs) == [i \in 1 .. limbs + 1 |-> -1]

IntInit ==
  /\ calls \in IntSessions /\ at = "entry"
  /\ pl = NewPl /\ ws = NewWs /\ fs = Size(0, 0, 1) /\ io = None
  /\ data = <<>> /\ data2 = <<>> /\ result = <<-1>> /\ returned = -1

Refuse ==
  /\ at = "entry" /\ ChosenCodec.kind = "none"
  /\ at' = "done" /\ returned' = 0 /\ result' = Blank(ResultLimbs)
  /\ UNCHANGED <<calls, pl, ws, fs, io, data, data2>>

Prepare ==
  /\ at = "entry"
  /\ \E codec \in {ChosenCodec} :
       /\ codec.kind # "none"
       /\ io' = codec
       /\ \E size \in {SizeFor(codec.bits)} :
            /\ fs' = size
            /\ pl' = ensure_plan(pl, size.n_branch, size.M)
            /\ ws' = ensure_ws(ws, size.N_full)
  /\ at' = "forwardA" /\ result' = Blank(ResultLimbs) /\ returned' = -1
  /\ UNCHANGED <<calls, data, data2>>

ForwardA ==
  /\ at = "forwardA"
  /\ \E v \in {P(pl.M)!fwd(io, job.a, fs.n_branch, pl.M, pl.max_n)} :
       data' = v.data /\ io' = [io EXCEPT !.cache = v.cache]
  /\ at' = IF squares THEN "pointwise" ELSE "forwardB"
  /\ UNCHANGED <<calls, pl, ws, fs, data2, result, returned>>
ForwardB ==
  /\ at = "forwardB"
  /\ \E v \in {P(pl.M)!fwd(io, job.b, fs.n_branch, pl.M, pl.max_n)} :
       data2' = v.data /\ io' = [io EXCEPT !.cache = v.cache]
  /\ at' = "pointwise"
  /\ UNCHANGED <<calls, pl, ws, fs, data, result, returned>>

PointwiseProduct ==
  /\ at = "pointwise"
  /\ data' = IF squares THEN P(pl.M)!pointwise_sqr(data, fs.n_branch, pl.M, pl.pq_n)
             ELSE P(pl.M)!pointwise_mul(data, data2, fs.n_branch, pl.M, pl.pq_n)
  /\ at' = "inverse"
  /\ UNCHANGED <<calls, pl, ws, fs, io, data2, result, returned>>

-----------------------------------------------------------------------------
(* The last inverse pass hands its tiles to a sink as it makes them.         *)

partial_count ==
  IF io.kind = "fixed" THEN LET g == 4 * io.bits IN (4 * Width * ResultLimbs + g - 1) \div g ELSE ResultLimbs
(* grow throws the old contents away; a small size clears what it will use *)
make_recovery(partial, clear) ==
  LET fresh == IF Len(partial) >= partial_count THEN partial ELSE [i \in 1 .. partial_count |-> -1]
  IN  IF clear THEN [i \in 1 .. Len(fresh) |-> IF i <= partial_count THEN 0 ELSE fresh[i]] ELSE fresh

(* Two limbs, or groups of four digits, of a tile.  cv_to_i128x2 pairs the   *)
(* digits in 64 bits.                                                        *)
cv_to_i128x2_wide(x) ==
  LET u(l) == x[l][1] + x[l][2] * IntDB
  IN  <<u(1) + u(2) * IntDB ^ 2, u(3) + u(4) * IntDB ^ 2>>
cv_to_i128x2(x) ==
  LET u(l) == (x[l][1] + x[l][2] * IntDB) % LimbBase
  IN  <<u(1) + u(2) * IntDB ^ 2, u(3) + u(4) * IntDB ^ 2>>
FixedGroups(x, bits) ==
  LET p(l) == x[l][1] + x[l][2] * 2 ^ bits
  IN  <<p(1) + p(2) * 2 ^ (2 * bits), p(3) + p(4) * 2 ^ (2 * bits)>>
emit_tile(x) ==
  CASE io.kind = "u16" -> cv_to_i128x2(x) [] io.kind = "wide" -> cv_to_i128x2_wide(x) [] OTHER -> FixedGroups(x, io.bits)
EmittedAt(tiles, t) == {j \in DOMAIN tiles : tiles[j][1] = t}
LastOf(js) == CHOOSE j \in js : \A k \in js : k <= j
EmitPartials(partial, tiles) ==
  P(1)!Once([k \in 1 .. Len(partial) |->
     LET js == EmittedAt(tiles, (k - 1) \div 2)
     IN  IF k > partial_count \/ js = {} THEN partial[k] ELSE emit_tile(tiles[LastOf(js)][2])[((k - 1) % 2) + 1]])
(* store_raw_i64_tile: a tile rounded in place of its doubles *)
raw_tiles == (ResultLimbs + 1) \div 2
EmitRaw(d, tiles) ==
  P(1)!Once([k \in 1 .. Len(d) |->
     LET t == (k - 1) \div 4
         js == EmittedAt(tiles, t)
         v == tiles[LastOf(js)][2][((k - 1) % 4) + 1]
     IN  IF t >= raw_tiles \/ js = {} THEN d[k] ELSE <<P(pl.M)!Centred(v[1]), P(pl.M)!Centred(v[2])>>])
Tiles == P(pl.M)!inv_emit(data, fs.n_branch, pl.M, pl.max_n)

InversePartials ==                  \* a sink of unsigned partials
  /\ at = "inverse" /\ io.kind # "centered"
  /\ \E tiles \in {Tiles} :
       ws' = [ws EXCEPT !.partial = EmitPartials(make_recovery(ws.partial, pl.M = 1 /\ fs.n_branch < 32), tiles)]
  /\ at' = "finish"
  /\ UNCHANGED <<calls, pl, fs, io, data, data2, result, returned>>
InverseRaw ==                       \* raw signed sums, over the data or beside it
  /\ at = "inverse" /\ io.kind = "centered"
  /\ \E tiles \in {Tiles} :
       IF pl.M = 1 THEN data' = EmitRaw(data, tiles) /\ data2' = data2
       ELSE data' = data /\ data2' = EmitRaw(IF Len(data2) >= Len(data) THEN data2 ELSE data, tiles)
  /\ at' = "finish"
  /\ UNCHANGED <<calls, pl, ws, fs, io, result, returned>>

-----------------------------------------------------------------------------
(* From the sums to limbs. *)

RECURSIVE CarriedThrough(_, _, _)          \* digits to a base, by halves
CarriedThrough(parts, base, carry) ==
  IF Len(parts) = 0 THEN [out |-> <<>>, carry |-> carry]
  ELSE IF Len(parts) = 1 THEN [out |-> <<(carry + parts[1]) % base>>, carry |-> (carry + parts[1]) \div base]
  ELSE LET h == Len(parts) \div 2
           low == CarriedThrough(SubSeq(parts, 1, h), base, carry)
           high == CarriedThrough(SubSeq(parts, h + 1, Len(parts)), base, low.carry)
       IN  [out |-> low.out \o high.out, carry |-> high.carry]
carry_partials(partial) == CarriedThrough(SubSeq(partial, 1, ResultLimbs), LimbBase, 0)

(* Fixed codecs: groups settle to chunks, whole periods of chunks are packed *)
(* without a loop, the rest through an accumulator.                          *)
LimbWidth == 4 * Width
PackedChunks(c, from, bits) ==      \* a period: one limb less than chunks
  LET g == 4 * bits
      gap == LimbWidth - g
  IN  [j \in 1 .. (LimbWidth \div gap) - 1 |->
         ((c[from + j] \div 2 ^ (gap * (j - 1))) + c[from + j + 1] * 2 ^ (g - gap * (j - 1))) % LimbBase]
RECURSIVE PackedRest(_, _, _, _, _)
PackedRest(c, g, acc, fill, out) ==
  IF c = <<>>
    THEN IF fill # 0 /\ Len(out) < ResultLimbs THEN Append(out, acc) ELSE out
    ELSE LET both == (acc + c[1] * 2 ^ fill) % LimbBase
             used == LimbWidth - fill
             next == IF Len(out) < ResultLimbs THEN Append(out, both) ELSE out
         IN  CASE fill = 0 -> PackedRest(Tail(c), g, c[1], g, out)
               [] fill # 0 /\ g < used -> PackedRest(Tail(c), g, both, fill + g, out)
               [] OTHER -> PackedRest(Tail(c), g, c[1] \div 2 ^ used, g - used, next)
partial_to_limbs(partial, bits) ==
  LET g == 4 * bits
      period == LimbWidth \div (LimbWidth - g)
      chunks == CarriedThrough(SubSeq(partial, 1, partial_count), 2 ^ g, 0)
      c == chunks.out
      whole == CHOOSE k \in 0 .. Len(c) : /\ period * k <= Len(c) /\ (period - 1) * k <= ResultLimbs
                                          /\ (period * (k + 1) > Len(c) \/ (period - 1) * (k + 1) > ResultLimbs)
      packed == P(1)!Evenly([k \in 1 .. whole |-> PackedChunks(c, period * (k - 1), bits)], period - 1)
      limbs == PackedRest(SubSeq(c, period * whole + 1, Len(c)), g, 0, 0, packed)
  IN  [out |-> limbs \o [i \in 1 .. ResultLimbs - Len(limbs) |-> 0], carry |-> chunks.carry]

(* Centred digits: the sums lack IntDB / 2 times a window of both operands,  *)
(* kept as it moves along, and have the square of that half too often.       *)
DigitOf(src, k) == IF k \in 0 .. 4 * Len(src) - 1 THEN (src[(k \div 4) + 1] \div IntDB ^ (k % 4)) % IntDB ELSE 0
valid(k, len) == IF k \in 0 .. len - 1 THEN 1 ELSE 0
Window(a, b, S, C, k) ==
  LET na == 4 * Len(a)
      nb == 4 * Len(b)
  IN  [S |-> S + DigitOf(a, k) + DigitOf(b, k) - (DigitOf(a, k - nb) + DigitOf(b, k - na)),
       C |-> C + valid(k, na) - valid(k - nb, na)]
u16_coeffs_to_i128x2(c) ==          \* eight coefficients, two limbs
  LET q(l) == c[2 * l - 1] + c[2 * l] * IntDB
  IN  <<q(1) + q(2) * IntDB ^ 2, q(3) + q(4) * IntDB ^ 2>>
RECURSIVE Windows(_, _, _, _)       \* before digit k and after each of the eight from k on
Windows(run, a, b, k) ==
  IF Len(run) = 9 THEN run
  ELSE P(1)!The({Windows(Append(run, w), a, b, k) :
                   w \in {Window(a, b, run[Len(run)].S, run[Len(run)].C, k + Len(run) - 1)}})
RECURSIVE Corrected(_, _, _, _, _)
Corrected(raw, a, b, w, t) ==       \* the limbs of the tiles from t on
  LET half == IntDB \div 2
      fixed(run, i) == raw[4 * t + ((i + 1) \div 2)][2 - (i % 2)] + (half * run[i + 1].S - half * half * run[i + 1].C)
  IN  IF t >= raw_tiles THEN <<>>
      ELSE P(1)!The({u16_coeffs_to_i128x2(P(1)!Once([i \in 1 .. 8 |-> fixed(run, i)])) \o Corrected(raw, a, b, run[9], t + 1) :
                       run \in {Windows(<<w>>, a, b, 8 * t)}})
centered_u16_raw_to_limbs(raw) ==
  CarriedThrough(SubSeq(Corrected(raw, job.a, second, [S |-> 0, C |-> 0], 0), 1, ResultLimbs), LimbBase, 0)

Recovered ==
  CASE io.kind = "centered" -> centered_u16_raw_to_limbs(IF pl.M = 1 THEN data ELSE data2)
    [] io.kind = "fixed"    -> partial_to_limbs(ws.partial, io.bits)
    [] OTHER                -> carry_partials(ws.partial)
Finish ==
  /\ at = "finish"
  /\ \E limbs \in {Recovered} :
       /\ result' = [i \in DOMAIN result |-> IF i <= Len(limbs.out) THEN limbs.out[i] ELSE result[i]]
       /\ returned' = IF limbs.carry = 0 THEN 1 ELSE 0
  /\ at' = "done"
  /\ UNCHANGED <<calls, pl, ws, fs, io, data, data2>>

NextJob ==
  /\ at = "done" /\ Len(calls) > 1
  /\ calls' = Tail(calls) /\ at' = "entry"
  /\ UNCHANGED <<pl, ws, fs, io, data, data2, result, returned>>

IntNext ==
  \/ Refuse
  \/ Prepare
  \/ ForwardA
  \/ ForwardB
  \/ PointwiseProduct
  \/ InversePartials
  \/ InverseRaw
  \/ Finish
  \/ NextJob

-----------------------------------------------------------------------------
(* What a call promises. *)

Convolution(a, b) ==                \* in u16 digits
  LET na == 4 * Len(a)
      nb == 4 * Len(b)
      da == P(1)!Once([i \in 1 .. na |-> DigitOf(a, i - 1)])
      db == P(1)!Once([i \in 1 .. nb |-> DigitOf(b, i - 1)])
      sum(k) == LET lo == IF k < nb THEN 0 ELSE k - nb + 1
                    hi == IF k < na THEN k ELSE na - 1
                    s[w \in (lo .. hi) \X (lo .. hi)] ==        \* the terms from w[1] to w[2]
                      LET mid == (w[1] + w[2]) \div 2
                      IN  IF w[1] = w[2] THEN da[w[1] + 1] * db[k - w[1] + 1]
                          ELSE s[<<w[1], mid>>] + s[<<mid + 1, w[2]>>]
                IN  IF lo > hi THEN 0 ELSE s[<<lo, hi>>]
  IN  P(1)!Once([k \in 1 .. na + nb |-> sum(k - 1)])
IntProduct(a, b) ==
  LET d == CarriedThrough(Convolution(a, b), IntDB, 0).out
  IN  [l \in 1 .. Len(d) \div 4 |-> d[4 * l - 3] + d[4 * l - 2] * IntDB + d[4 * l - 1] * IntDB ^ 2 + d[4 * l] * IntDB ^ 3]

(* The longest transform an entry may use with digits of a width, 0: none.   *)
Reach(kind, bits) ==
  CASE kind \in {"mul", "sqr"} -> IF bits = Width THEN Limits.u16 ELSE 0
    [] kind \in {"mul_bits", "sqr_bits"} ->
         CASE bits # job.bits -> 0 [] bits = Width -> Limits.u16 [] bits = Width - 1 -> Limits.u15
           [] bits = Width - 2 -> Limits.u14 [] OTHER -> 0
    [] OTHER -> CASE bits = Width -> Limits.centered [] bits = Width - 2 -> Limits.u14 [] OTHER -> 0
Grid == {m * 2 ^ k : m \in {1, 3, 5}, k \in 2 .. 12} \cup {7 * 2 ^ k : k \in {j \in 2 .. 12 : 2 ^ j >= Pfa7MinBranch}}
(* points hold every digit of both operands *)
Holds(N, bits) ==
  2 * N >= digits_for_limbs(Len(job.a), bits) + digits_for_limbs(Len(second), bits)
Served == job.a # <<>> /\ second # <<>> /\ \E bits \in 1 .. Width : \E N \in Grid : N <= Reach(job.kind, bits) /\ Holds(N, bits)

(* int fft::mul and its siblings (int_fft.hpp:3521-3665): a call returns 1   *)
(* exactly when some size of the grid holds its operands in digits of a      *)
(* width the entry may use, and then the limbs are the product; it returns 0 *)
(* without a limb written otherwise.  What earlier calls of the thread left  *)
(* in the tables, the input cache, the partial sums and the second buffer    *)
(* makes no difference, and nothing is written behind the result.            *)
IntFftRight ==
  at = "done" =>
    /\ returned = (IF Served THEN 1 ELSE 0)
    /\ result = IF Served THEN IntProduct(job.a, second) \o <<-1>> ELSE Blank(ResultLimbs)
=============================================================================
