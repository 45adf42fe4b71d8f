------------------------------ MODULE Fronts ------------------------------
(***************************************************************************)
(* From coefficients to limbs, as the FFT engines emit a product: the      *)
(* coefficients of a front are packed four to a limb, high parts are added *)
(* one limb up along a carry chain, and each front leaves a tail that a    *)
(* junction fixup adds to the next front once all of them are written      *)
(* (include/fft16.h, f16_pack2i to f16_emit_c_flat).                       *)
(*                                                                         *)
(* A limb is a word of four digits below DB (2^64 and 2^16).               *)
(***************************************************************************)
EXTENDS Integers, Sequences

CONSTANT DB

Word == DB ^ 4
Mask == INSTANCE Lanes WITH L <- 8, B <- 4, H <- 2    \* its mask arithmetic
Forced(s) == s \o <<>>

(* f16_mround clips, f16_mround_s rounds signed: exact values need neither,   *)
(* only their sign.                                                          *)

(* f16_pack2i, one limb: two points, each <<even, odd>> coefficient.         *)
f16_pack2i(p0, p1) ==
  LET ul(p) == (p[1] + ((p[2] * DB) % Word)) % Word
      uh(p) == p[2] \div DB ^ 3 + (IF ul(p) < p[1] THEN 1 ELSE 0)
      lo == (ul(p0) + (ul(p1) % DB ^ 2) * DB ^ 2) % Word
  IN  [lo |-> lo,
       hi |-> (uh(p0) + ul(p1) \div DB ^ 2 + (uh(p1) % DB ^ 2) * DB ^ 2
                 + (IF lo < ul(p0) THEN 1 ELSE 0)) % Word]

(* f16_chain_step: eight limbs at a time; hi is the high part waiting from   *)
(* the vector before, cin the carry out of it.                               *)
NewChain == [hi |-> 0, cin |-> 0]
f16_chain_step(c, v) ==
  LET his == [l \in 0 .. 7 |-> IF l = 0 THEN c.hi ELSE v[l].hi]
      sum == Forced([l \in 1 .. 8 |-> (v[l].lo + his[l - 1]) % Word])
      ripple == Mask!Ripple({l \in 0 .. 7 : sum[l + 1] < his[l]},
                            {l \in 0 .. 7 : sum[l + 1] = Word - 1}, c.cin)
  IN  [limbs |-> [l \in 1 .. 8 |-> (sum[l] + (IF l - 1 \in ripple.into THEN 1 ELSE 0)) % Word],
       chain |-> [hi |-> v[8].hi, cin |-> ripple.out]]

(* A whole front: its limbs, and the chain it leaves. *)
FrontOut(points) ==
  LET packed == Forced([i \in 1 .. Len(points) \div 2 |-> f16_pack2i(points[2 * i - 1], points[2 * i])])
      run[t \in 0 .. Len(packed) \div 8] ==
        IF t = 0 THEN [limbs |-> <<>>, chain |-> NewChain]
        ELSE LET before == run[t - 1]
                 step == f16_chain_step(before.chain, SubSeq(packed, 8 * t - 7, 8 * t))
             IN  [limbs |-> before.limbs \o step.limbs, chain |-> step.chain]
  IN  run[Len(packed) \div 8]

(* f16_st_mask: limbs at rl and above are not stored. *)
Stored(rp, at, limbs, rl) ==
  [i \in 1 .. Len(rp) |-> IF i > at /\ i <= at + Len(limbs) /\ i <= rl THEN limbs[i - at] ELSE rp[i]]

(* A junction: hi and cin of a front, rippled into rp from limb `at` on.      *)
(* ok is FALSE when a carry is left at the end of the result.                *)
Carried_one_limb(rp, at, rl, tail) ==  \* the carry stops at the first limb
  IF at >= rl THEN [rp |-> rp, ok |-> tail.hi + tail.cin = 0]
  ELSE [rp |-> [rp EXCEPT ![at + 1] = (@ + tail.hi + tail.cin) % Word], ok |-> TRUE]
Carried(rp, at, rl, tail) ==
  LET c == tail.hi + tail.cin
      first == rp[at + 1] + c
      stops == {i \in at + 2 .. rl : rp[i] # Word - 1}
      stop == IF first < Word THEN at + 1
              ELSE IF stops = {} THEN rl + 1 ELSE CHOOSE i \in stops : \A j \in stops : i <= j
  IN  IF at >= rl THEN [rp |-> rp, ok |-> c = 0]
      ELSE [rp |-> [i \in 1 .. Len(rp) |-> IF i = at + 1 THEN first % Word
                      ELSE IF at + 2 <= i /\ i <= stop /\ i <= rl THEN (rp[i] + 1) % Word ELSE rp[i]],
            ok |-> stop <= rl]

-----------------------------------------------------------------------------
(* Centred digits: operands are read less DB / 2, the coefficients put right  *)
(* by window sums of the digits.  cx = [a, b : xor-centred digit streams,    *)
(* na, nb : their digits].                                                   *)

Half == DB \div 2
LeastOf(x, y) == IF x < y THEN x ELSE y
MostOf(x, y) == IF x > y THEN x ELSE y

DigitsOf(limb) == [k \in 1 .. 4 |-> (limb \div DB ^ (k - 1)) % DB]
Digits(limbs, count) == Forced([k \in 1 .. count |-> DigitsOf(limbs[((k - 1) \div 4) + 1])[((k - 1) % 4) + 1]])
(* f16_dig16, one lane: un-xored, zero outside the stream. *)
f16_dig(d, n, k) == IF k < 0 \/ k >= n THEN 0 ELSE (d[k + 1] + Half) % DB
(* f16_digsum: digits below t *)
RECURSIVE DigitsBetween(_, _, _, _)
DigitsBetween(d, n, lo, hi) ==
  IF hi <= lo THEN 0
  ELSE IF hi = lo + 1 THEN f16_dig(d, n, lo)
  ELSE DigitsBetween(d, n, lo, (lo + hi) \div 2) + DigitsBetween(d, n, (lo + hi) \div 2, hi)
f16_digsum(d, n, t) == DigitsBetween(d, n, 0, MostOf(0, LeastOf(t, n)))
f16_sbase_leading_only(cx, k0) ==  \* digits that left the window stay
  f16_digsum(cx.a, cx.na, k0) + f16_digsum(cx.b, cx.nb, k0)
f16_sbase(cx, k0) ==
  f16_digsum(cx.a, cx.na, k0) - f16_digsum(cx.a, cx.na, k0 - cx.nb)
    + f16_digsum(cx.b, cx.nb, k0) - f16_digsum(cx.b, cx.nb, k0 - cx.na)

(* The window of 16 digits from k: dS and C of each, the running sum S.      *)
Window(k, S, dS, C) ==
  LET sum[i \in 0 .. 16] == IF i = 0 THEN S ELSE sum[i - 1] + dS[i]
      run == Forced([i \in 1 .. 16 |-> sum[i]])
  IN  [corr |-> [i \in 1 .. 16 |-> run[i] * Half - C[i] * Half * Half], S |-> run[16]]
f16_centered_corr(cx, k, S) ==
  Window(k, S,
    Forced([i \in 1 .. 16 |-> LET j == k + i - 1 IN
       f16_dig(cx.a, cx.na, j) + f16_dig(cx.b, cx.nb, j)
         - f16_dig(cx.a, cx.na, j - cx.nb) - f16_dig(cx.b, cx.nb, j - cx.na)]),
    [i \in 1 .. 16 |-> LeastOf(k + i, cx.na) - LeastOf(MostOf(k + i - cx.nb, 0), cx.na)])
(* Windows inside one segment read half the digits. *)
f16_corr_seg(cx, k, S, seg) ==
  LET a(j) == (cx.a[j + 1] + Half) % DB
      b(j) == (cx.b[j + 1] + Half) % DB
      dS(j) == CASE seg = 1 -> a(j) + b(j)
                 [] seg = 2 /\ cx.na >= cx.nb -> a(j) - a(j - cx.nb)
                 [] seg = 2 /\ cx.na < cx.nb -> b(j) - b(j - cx.na)
                 [] OTHER -> -(a(j - cx.nb) + b(j - cx.na))
      C(i) == CASE seg = 1 -> k + i
                [] seg = 2 -> LeastOf(cx.na, cx.nb)
                [] OTHER -> cx.na + cx.nb - k - i
  IN  Window(k, S, Forced([i \in 1 .. 16 |-> dS(k + i - 1)]), [i \in 1 .. 16 |-> C(i)])
f16_corr_auto(cx, k, S) ==
  LET lo == LeastOf(cx.na, cx.nb)
      hi == MostOf(cx.na, cx.nb)
  IN  CASE k + 16 <= lo -> f16_corr_seg(cx, k, S, 1)
        [] k + 16 > lo /\ k >= lo /\ k + 16 <= hi -> f16_corr_seg(cx, k, S, 2)
        [] k + 16 > lo /\ k >= hi /\ k + 16 <= cx.na + cx.nb -> f16_corr_seg(cx, k, S, 3)
        [] OTHER -> f16_centered_corr(cx, k, S)

(* Corrected points of a front of `count` points starting at digit k0.       *)
Corrected(points, corr) ==
  Forced([i \in 1 .. Len(points) |-> <<(points[i][1] + corr[2 * i - 1]) % Word, (points[i][2] + corr[2 * i]) % Word>>])
WindowsFrom(cx, k0, S0, windows) ==           \* each by the segment it lies in
  LET run[w \in 0 .. windows] ==
        IF w = 0 THEN [corr |-> <<>>, S |-> S0]
        ELSE LET before == run[w - 1]
                 win == f16_corr_auto(cx, k0 + 16 * (w - 1), before.S)
             IN  [corr |-> before.corr \o win.corr, S |-> win.S]
  IN  run[windows].corr
GenericWindowsFrom(cx, k0, windows) ==
  LET run[w \in 0 .. windows] ==
        IF w = 0 THEN [corr |-> <<>>, S |-> f16_sbase(cx, k0)]
        ELSE LET before == run[w - 1]
                 win == f16_centered_corr(cx, k0 + 16 * (w - 1), before.S)
             IN  [corr |-> before.corr \o win.corr, S |-> win.S]
  IN  run[windows].corr
(* A front of a centred product in several fronts, from digit k0 on.          *)
CentredFront(points, cx, k0) == FrontOut(Corrected(points, GenericWindowsFrom(cx, k0, Len(points) \div 8)))
(* f16_emit_c_flat: one front over the coefficients that can be nonzero.      *)
f16_emit_c_flat(points, cx) ==
  LET steps == LeastOf((cx.na + cx.nb + 31) \div 32, Len(points) \div 16)
      used == SubSeq(points, 1, 16 * steps)
  IN  FrontOut(Corrected(used, WindowsFrom(cx, 0, 0, 2 * steps)))
=============================================================================
