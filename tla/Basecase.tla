------------------------------ MODULE Basecase ------------------------------
(***************************************************************************)
(* The products of include/mul.h, mul_vec.h, mulmid.h and div.h that       *)
(* everything else recurses down to.  Digit products are split in a low    *)
(* and a high half (madd52lo, madd52hi) and summed in redundant lanes.  A  *)
(* vector times digit k belongs k lanes further up: it is collected in     *)
(* register k and shifted only when an output vector leaves, with what the *)
(* register held one vector earlier entering from below.  One action is    *)
(* one output vector.  Past an operand's length its vector holds a         *)
(* neighbour's live digits.                                                *)
(***************************************************************************)
EXTENDS Lanes

CONSTANTS
  Shapes,       \* Shapes[p]: the pairs of lengths given to program p
  Patterns,     \* Patterns[p]: the operands of program p, digits by position
  Room          \* limbs of an array

ASSUME RoomAssumption == Room \in Nat

VARIABLES
  prog,         \* the program that runs, one of DOMAIN Shapes
  an, bn,       \* lengths of the operands (blocks for "addc", "subb"; add_n, sub_n: bn is the carry)
  ap, bp,       \* the operands and what follows them
  vi,           \* output vectors produced
  kept,         \* registers as they were when the last vector left
  chain,        \* vec: the carry chain
  rp,           \* the result area: limb -> word, or Untouched
  done

vars == <<prog, an, bn, ap, bp, vi, kept, chain, rp, done>>

Untouched == -1
Limbs == 0 .. Room - 1
Register == 0 .. L
NoTerms == [k \in Register |-> Zero]

-----------------------------------------------------------------------------
(* Vector operations *)

(* The sum of f[0], .., f[n - 1]. *)
Total(f, n) == Number(f, n, 1)

Vec(f, k) == [l \in Lane |-> f[k * L + l]]
FirstLanes(k) == 0 .. k - 1
Plus(u, v) == [l \in Lane |-> Word(u[l] + v[l])]
Lo(v, digit) == [l \in Lane |-> (v[l] * digit) % B]
Hi(v, digit) == [l \in Lane |-> (v[l] * digit) \div B]

(* n vectors added up: every lane of every sum is a word. *)
SumOf(v, n) ==
  LET acc[x \in 0 .. n] == IF x = 0 THEN Zero ELSE Plus(acc[x - 1], v[x - 1])
  IN  acc[n]

(* alignr64(hi, lo, k) *)
Align(hi, lo, k) == [l \in Lane |-> IF l + k < L THEN lo[l + k] ELSE hi[l + k - L]]

(* The terms of vec times the digits 0 .. upto of vector q of f, by register. *)
Terms(vec, f, q, upto) ==
  [k \in Register |-> Plus(IF k <= upto THEN Lo(vec, f[q * L + k]) ELSE Zero,
                           IF 1 <= k /\ k <= upto + 1 THEN Hi(vec, f[q * L + k - 1]) ELSE Zero)]

(* An output vector: register k moves up k lanes. *)
ShiftOf_top_unmoved(k) == IF k = L - 1 THEN 0 ELSE L - k
ShiftOf(k) == L - k
Up(k, from, below) == Align(from[k], below[k], ShiftOf(k))
Leaving(from, below) == SumOf([k \in Register |-> Up(k, from, below)], L + 1)
Harvest(regs) == Leaving(regs, kept)
(* What leaves when no vector follows. *)
Flush(regs) == Leaving(NoTerms, regs)

(* A store of the limbs below the count that fall into vector k. *)
LimbMask_whole_vector(count) == Lane
LimbMask(count) == IF count >= L THEN Lane ELSE FirstLanes(count)
Stored(mem, k, v, count) ==
  [j \in Limbs |-> IF j \div L = k /\ (j % L) \in LimbMask(count) THEN v[j % L] ELSE mem[j]]

(* A full output vector in the middle of a product. *)
Turn(regs) ==
  /\ rp' = Stored(rp, vi, Harvest(regs), L)
  /\ kept' = regs /\ vi' = vi + 1
  /\ UNCHANGED <<prog, an, bn, ap, bp, chain, done>>

(* The last one or two vectors hold the given number of limbs. *)
Finish(regs, count) ==
  /\ rp' = LET first == Stored(rp, vi, Harvest(regs), count)
          IN  IF count <= L THEN first ELSE Stored(first, vi + 1, Flush(regs), count - L)
  /\ kept' = regs /\ vi' = vi + 1 /\ done' = TRUE
  /\ UNCHANGED <<prog, an, bn, ap, bp, chain>>

-----------------------------------------------------------------------------
(* mul_u52_1: up to L digits of b, splat, over the vectors of a.  Register k *)
(* is a diagonal: highs of digit k - 1 and lows of digit k.                  *)

Diagonals(ax) == Terms(ax, bp, 0, bn - 1)

(* mul_u52_bn1 and mul_u52_bn2 keep only the registers they need. *)
DiagonalsOne(ax) == [NoTerms EXCEPT ![0] = Lo(ax, bp[0]), ![1] = Hi(ax, bp[0])]
DiagonalsTwo(ax) ==
  [NoTerms EXCEPT ![0] = Lo(ax, bp[0]), ![1] = Plus(Hi(ax, bp[0]), Lo(ax, bp[1])), ![2] = Hi(ax, bp[1])]
NarrowTerms(ax) ==
  CASE bn = 1 -> DiagonalsOne(ax) [] bn = 2 -> DiagonalsTwo(ax) [] OTHER -> Diagonals(ax)

NarrowTurn ==
  /\ prog = "narrow" /\ ~done /\ vi < an \div L
  /\ \E regs \in {NarrowTerms(Vec(ap, vi))} : Turn(regs)

(* The limbs end at an + bn: a masked tail and what the registers hold. *)
NarrowTail ==
  /\ prog = "narrow" /\ ~done /\ vi = an \div L /\ an % L # 0
  /\ \E regs \in {NarrowTerms(Masked(Vec(ap, vi), FirstLanes(an % L)))} : Finish(regs, (an % L) + bn)

NarrowFlush ==
  /\ prog = "narrow" /\ ~done /\ vi = an \div L /\ an % L = 0
  /\ Finish(NoTerms, bn)

-----------------------------------------------------------------------------
(* mul_u52_basecase, bn > L: output vector i takes the pairs of vectors whose *)
(* indices sum to i.  The vectors of a are multiplied by splat digits of b,    *)
(* except a's partial top vector, whose digits are splat over b's.             *)

LastA == (an - 1) \div L
LastB == (bn - 1) \div L
TopA == (an - 1) % L
TopB == (bn - 1) % L

(* The vectors of b splat over vectors of a, and the top vector of a. *)
Splats(k) ==
  IF k < LastB THEN 0 .. k ELSE IF k >= LastA THEN k - LastA + 1 .. LastB ELSE 0 .. LastB
PairTerms(k, q) ==
  IF q = LastB + 1
  THEN IF k >= LastA THEN Terms(Vec(bp, k - LastA), ap, LastA, TopA) ELSE NoTerms
  ELSE IF q \in Splats(k) THEN Terms(Vec(ap, k - q), bp, q, IF q = LastB THEN TopB ELSE L - 1)
  ELSE NoTerms
Collected(k) ==
  LET pairs == [q \in 0 .. LastB + 1 |-> PairTerms(k, q)]
  IN  [r \in Register |-> SumOf([q \in 0 .. LastB + 1 |-> pairs[q][r]], LastB + 2)]

WideTurn ==
  /\ prog = "wide" /\ vi < LastA + LastB
  /\ \E regs \in {Collected(vi)} : Turn(regs)

(* The two top vectors: the shorter one is splat, the other is loaded under a *)
(* mask.                                                                      *)
TopTerms ==
  IF TopA < TopB
  THEN Terms(Masked(Vec(bp, LastB), FirstLanes(TopB + 1)), ap, LastA, TopA)
  ELSE Terms(Masked(Vec(ap, LastA), FirstLanes(TopA + 1)), bp, LastB, TopB)
WideEnd ==
  /\ prog = "wide" /\ ~done /\ vi = LastA + LastB
  /\ \E regs \in {TopTerms} : Finish(regs, TopA + TopB + 2)

-----------------------------------------------------------------------------
(* mul_u52_vec and mul_u52_vec_fast: the digits of a, splat over one vector  *)
(* b, with the carries resolved on the way.                                  *)

(* canonize_fast: without a lane at or above the largest digit, only lane 0  *)
(* can take the carry that ripples in.                                       *)
CanonizeFast(v, c) ==
  LET t == [l \in Lane |-> (v[l] % B) + ShiftedUp(Headroom(v), c.hi)[l]]
  IN  IF \E l \in Lane : t[l] >= MASK52 THEN Canonize(v, c)
      ELSE [vec |-> [t EXCEPT ![0] = @ + c.cin], chain |-> [NoCarry EXCEPT !.hi = Headroom(v)[L - 1]]]
Canonized(v, c) == IF prog = "fast" THEN CanonizeFast(v, c) ELSE Canonize(v, c)

StreamTurn(p) ==
  /\ prog = p /\ vi < an \div L
  /\ \E regs \in {Terms(Vec(bp, 0), ap, vi, L - 1)} :
       \E v \in {Canonized(Harvest(regs), chain)} :
         rp' = Stored(rp, vi, v.vec, L) /\ chain' = v.chain /\ kept' = regs
  /\ vi' = vi + 1
  /\ UNCHANGED <<prog, an, bn, ap, bp, done>>

(* The last digits of a, none if L divides an: then one vector, else two. *)
StreamEnd(p) ==
  /\ prog = p /\ ~done /\ vi = an \div L
  /\ \E regs \in {Terms(Vec(bp, 0), ap, vi, (an % L) - 1)} :
       \E v \in {Canonized(Harvest(regs), chain)} :
         \E w \in {Canonized(Flush(regs), v.chain)} :
           /\ rp' = IF an % L = 0 THEN Stored(rp, vi, v.vec, L)
                   ELSE Stored(Stored(rp, vi, v.vec, L), vi + 1, w.vec, L)
           /\ chain' = IF an % L = 0 THEN v.chain ELSE w.chain
           /\ kept' = regs
  /\ vi' = vi + 1 /\ done' = TRUE
  /\ UNCHANGED <<prog, an, bn, ap, bp>>

VecTurn == StreamTurn("vec")
VecEnd == StreamEnd("vec")
FastTurn == StreamTurn("fast")
FastEnd == StreamEnd("fast")

-----------------------------------------------------------------------------
(* Blocks: one vector is a digit of the divisions' base.  div.h multiplies   *)
(* by mul_zmm and mul_zmm_2, which keep two blocks, and resolves carries     *)
(* with a cheap path when no lane can pass one on.                           *)

(* DIV_canon, block_addc: each lane's carry lands in the next lane, unless a  *)
(* lane at the largest digit would pass it on.                                *)
Rippled(t, cin) ==
  LET ripple == IF \E l \in Lane : t[l] = MASK52
                THEN Ripple(Above(t, MASK52), Equal(t, MASK52), cin)
                ELSE [into |-> {l \in Lane : IF l = 0 THEN cin = 1 ELSE t[l - 1] > MASK52},
                      out  |-> IF t[L - 1] > MASK52 THEN 1 ELSE 0]
  IN  [vec |-> [l \in Lane |-> (IF l \in ripple.into THEN t[l] + 1 ELSE t[l]) % B], out |-> ripple.out]
block_addc(u, v, cin) == Rippled(Plus(u, v), cin)

(* block_subb: the same with borrows, passed on by lanes that are zero. *)
block_subb(u, v, bin) ==
  LET t == [l \in Lane |-> Word(u[l] - v[l])]
      ripple == IF \E l \in Lane : t[l] = 0
                THEN Ripple(Above(t, MASK52), Equal(t, 0), bin)
                ELSE [into |-> {l \in Lane : IF l = 0 THEN bin = 1 ELSE t[l - 1] > MASK52},
                      out  |-> IF t[L - 1] > MASK52 THEN 1 ELSE 0]
  IN  [vec |-> [l \in Lane |-> Word(IF l \in ripple.into THEN t[l] + MASK52 ELSE t[l]) % B],
       out |-> ripple.out]

(* canon2: both blocks, and whether anything was carried out of the second. *)
DIV_canon(v, c) ==
  LET digits == Rippled([l \in Lane |-> (v[l] % B) + ShiftedUp(Headroom(v), c.hi)[l]], c.cin)
  IN  [vec |-> digits.vec, chain |-> [NoCarry EXCEPT !.hi = Headroom(v)[L - 1], !.cin = digits.out]]
canon2(lo, hi) ==
  LET first == DIV_canon(lo, NoCarry)
      second == DIV_canon(hi, first.chain)
  IN  [lo |-> first.vec, hi |-> second.vec,
       over |-> second.chain.cin = 1 \/ second.chain.hi # 0]

(* <q1, q0> = v * u2 + <u2, u1> of div3by2, with u = a and v = b. *)
Estimate ==
  /\ prog = "estimate" /\ ~done
  /\ \E regs \in {Terms(Vec(bp, 0), ap, 2, L - 1)} :
       \E q \in {canon2(Plus(Harvest(regs), Vec(ap, 1)), Plus(Flush(regs), Vec(ap, 2)))} :
         /\ rp' = Stored(Stored(rp, 0, q.lo, L), 1, q.hi, L)
         /\ chain' = [NoCarry EXCEPT !.cin = IF q.over THEN 1 ELSE 0]
  /\ done' = TRUE
  /\ UNCHANGED <<prog, an, bn, ap, bp, vi, kept>>

(* <d1, d0> * q1 modulo two blocks. *)
Backmul ==
  /\ prog = "backmul" /\ ~done
  /\ \E first \in {Terms(Vec(bp, 0), ap, 0, L - 1)} :
     \E second \in {Terms(Vec(bp, 0), ap, 1, L - 1)} :
       LET d == canon2(Harvest(first), Leaving(second, first))
       IN  rp' = Stored(Stored(rp, 0, d.lo, L), 1, d.hi, L)
  /\ done' = TRUE
  /\ UNCHANGED <<prog, an, bn, ap, bp, vi, kept, chain>>

(* One step of the long addition or subtraction of blocks. *)
AddBlock ==
  /\ prog = "addc" /\ vi < an
  /\ \E s \in {block_addc(Vec(ap, vi), Vec(bp, vi), chain.cin)} :
       rp' = Stored(rp, vi, s.vec, L) /\ chain' = [NoCarry EXCEPT !.cin = s.out]
  /\ vi' = vi + 1 /\ done' = (vi + 1 = an)
  /\ UNCHANGED <<prog, an, bn, ap, bp, kept>>
SubBlock ==
  /\ prog = "subb" /\ vi < an
  /\ \E s \in {block_subb(Vec(ap, vi), Vec(bp, vi), chain.cin)} :
       rp' = Stored(rp, vi, s.vec, L) /\ chain' = [NoCarry EXCEPT !.cin = s.out]
  /\ vi' = vi + 1 /\ done' = (vi + 1 = an)
  /\ UNCHANGED <<prog, an, bn, ap, bp, kept>>

(* block_ge and block_ge2: the top differing lane, found by comparing masks. *)
block_ge(u, v) ==
  LET ne == {l \in Lane : u[l] # v[l]}
      lt == {l \in Lane : u[l] < v[l]}
  IN  ne = {} \/ MaskInt(ne \ lt) > MaskInt(lt)
block_ge2(u1, u0, v1, v0) == IF u1 # v1 THEN block_ge(u1, v1) ELSE block_ge(u0, v0)

OrderBlocks ==
  /\ prog = "order" /\ ~done
  /\ LET ge == block_ge2(Vec(ap, 1), Vec(ap, 0), Vec(bp, 1), Vec(bp, 0))
     IN  rp' = [rp EXCEPT ![0] = IF ge THEN 1 ELSE 0]
  /\ done' = TRUE
  /\ UNCHANGED <<prog, an, bn, ap, bp, vi, kept, chain>>

-----------------------------------------------------------------------------
(* The middle products of include/mulmid.h: for a of an and a longer b of    *)
(* bn limbs, the diagonals an - 1 .. bn - 1 of the product.  Lows and highs  *)
(* are summed apart, because the highs of the diagonal below must not enter  *)
(* and those of the last one must leave: rn + 1 limbs.  One action is one    *)
(* vector of diagonals.  mulmid_basecase stores nothing and is left out.     *)

rn == bn - an + 1

(* Vectors of diagonals are loaded from b at any limb. *)
At(f, p) == [l \in Lane |-> f[p + l]]

(* mm_acc: digit x of a meets b so that diagonal vi * L + l is in lane l. *)
Facing(x) == At(bp, (vi * L) + an - 1 - x)
MidLo(n) == SumOf([x \in 0 .. n - 1 |-> Lo(Facing(x), ap[x])], n)      \* the n lowest digits
MidHi(n) == SumOf([x \in 0 .. n - 1 |-> Hi(Facing(x), ap[x])], n)

(* A vector of diagonals that is followed by another one. *)
MidTurn ==
  /\ prog \in {"mid", "midtail"} /\ (vi + 1) * L < rn
  /\ \E lo \in {MidLo(an)}, hi \in {MidHi(an)} :
       /\ rp' = Stored(rp, vi, Plus(lo, Align(hi, kept[1], L - 1)), L)
       /\ kept' = [kept EXCEPT ![1] = hi]
  /\ vi' = vi + 1
  /\ UNCHANGED <<prog, an, bn, ap, bp, chain, done>>

(* The last one: lows of the rn diagonals, highs one limb further. *)
Left == rn - (vi * L)
LowMask_one_more(count) == FirstLanes(count + 1)
LowMask(count) == FirstLanes(count)
LastStored(lo, hi1, hi) ==
  LET part == Plus(hi1, Masked(lo, LowMask(Left)))
      first == Stored(rp, vi, part, Left + 1)
  IN  IF Left = L THEN [first EXCEPT ![(vi + 1) * L] = hi[L - 1]] ELSE first

MidEnd ==
  /\ prog \in {"mid", "midtail"} /\ ~done /\ (vi + 1) * L >= rn
  /\ prog = "midtail" => Left = L
  /\ \E lo \in {MidLo(an)}, hi \in {MidHi(an)} :
       rp' = LastStored(lo, Align(hi, kept[1], L - 1), hi)
  /\ vi' = vi + 1 /\ done' = TRUE
  /\ UNCHANGED <<prog, an, bn, ap, bp, kept, chain>>

(* midmul_basecase_simple_wtail: with fewer than L diagonals left, only the   *)
(* an % L lowest digits of a go through the diagonals; whole vectors of a     *)
(* are reversed, multiplied by b once per diagonal and summed across lanes.   *)
Across(v) == Total(v, L)
Reversed(p) == [l \in Lane |-> ap[p + L - 1 - l]]
Vertical(p) ==                            \* p: the vector's first digit of a
  LET ax == Reversed(p)
      facing(d) == At(bp, (vi * L) + (an - L - p) + d)
  IN  [d \in Lane |->
         (IF d < Left THEN Across([l \in Lane |-> (ax[l] * facing(d)[l]) % B]) ELSE 0)
           + (IF 1 <= d /\ d <= Left THEN Across([l \in Lane |-> (ax[l] * facing(d - 1)[l]) \div B]) ELSE 0)]
VerticalEnd ==
  /\ prog = "midtail" /\ ~done /\ (vi + 1) * L > rn
  /\ \E lo \in {MidLo(an % L)}, hi \in {MidHi(an % L)} :
     \E sums \in {SumOf([k \in 0 .. (an \div L) - 1 |-> Vertical((an % L) + k * L)], an \div L)} :
       rp' = LastStored(lo, Plus(Align(hi, kept[1], L - 1), sums), hi)
  /\ vi' = vi + 1 /\ done' = TRUE
  /\ UNCHANGED <<prog, an, bn, ap, bp, kept, chain>>

-----------------------------------------------------------------------------
(* Calls *)

Init ==
  /\ prog \in DOMAIN Shapes
  /\ \E shape \in Shapes[prog] : an = shape[1] /\ bn = shape[2]
  /\ ap \in Patterns[prog] /\ bp \in Patterns[prog]
  /\ vi = 0 /\ kept = NoTerms
  /\ chain = [NoCarry EXCEPT !.cin = IF prog \in {"add_n", "sub_n"} THEN bn ELSE 0]
  /\ rp = [j \in Limbs |-> Untouched] /\ done = FALSE

Next ==
  \/ NarrowTurn \/ NarrowTail \/ NarrowFlush
  \/ WideTurn \/ WideEnd
  \/ VecTurn \/ VecEnd \/ FastTurn \/ FastEnd
  \/ Estimate \/ Backmul \/ AddBlock \/ SubBlock \/ OrderBlocks
  \/ MidTurn \/ MidEnd \/ VerticalEnd

Spec == Init /\ [][Next]_vars

-----------------------------------------------------------------------------
(* Properties *)

(* Column t of a product: the low halves of the digit pairs t limbs up and    *)
(* the high halves of those one limb below.                                   *)
LowHalf(k, y) == IF 0 <= y /\ y < bn THEN (ap[k] * bp[y]) % B ELSE 0
HighHalf(k, y) == IF 0 <= y /\ y < bn THEN (ap[k] * bp[y]) \div B ELSE 0
ProductColumn(t, from) ==
  Total([x \in 0 .. an - 1 |-> LowHalf(from + x, t - x) + HighHalf(from + x, t - 1 - x)], an)
Column(t) ==
  CASE prog = "estimate" -> ProductColumn(t, 2 * L) + ap[t + L]      \* + <u2, u1>
    [] prog = "addc" -> ap[t] + bp[t]
    [] prog = "subb" -> ap[t] - bp[t]
    [] OTHER -> ProductColumn(t, 0)

Products == {"narrow", "wide", "vec", "fast", "estimate", "backmul", "addc", "subb", "order"}

Count ==
  CASE prog \in {"estimate", "backmul"} -> 2 * L
    [] prog \in {"addc", "subb"} -> an * L
    [] OTHER -> an + bn

(* Calls of the products: no operand is empty, mul_u52_1 takes at most a vector *)
(* of digits and mul_u52_vec exactly one.                                      *)
ProductInputs ==
  \A p \in Products \cap DOMAIN Shapes : \A shape \in Shapes[p] :
    /\ shape[1] \in Nat \ {0} /\ shape[2] \in Nat \ {0}
    /\ p = "narrow" => shape[2] <= L
    /\ p \in {"vec", "fast"} => shape[2] = L

(* The limbs an operand and a result have. *)
OperandLimbs(p, shape) ==
  CASE p = "estimate" -> 3 * L
    [] p \in {"backmul", "order"} -> 2 * L
    [] p \in {"addc", "subb"} -> shape[1] * L
    [] OTHER -> IF shape[1] >= shape[2] THEN shape[1] ELSE shape[2]
ResultLimbs(p, shape) ==
  CASE p \in {"estimate", "backmul"} -> 2 * L
    [] p \in {"addc", "subb"} -> shape[1] * L
    [] p = "order" -> 1
    [] OTHER -> shape[1] + shape[2]

(* The operands are canonical, the result has room, and no lane overflows: it *)
(* takes a low and a high half of every digit of b.  The shorter operand of   *)
(* mul_u52_basecase comes second; the block products' have fixed lengths.     *)
DigitInputs ==
  \A p \in Products \cap DOMAIN Shapes :
    /\ \A shape \in Shapes[p] :
         /\ ResultLimbs(p, shape) <= Room
         /\ \A digits \in Patterns[p] : \A j \in 0 .. OperandLimbs(p, shape) - 1 : digits[j] \in 0 .. B - 1
         /\ p \in {"narrow", "wide", "vec", "fast", "backmul"} => 2 * shape[2] <= H
         /\ p = "wide" => shape[2] <= shape[1]
         /\ p = "estimate" => shape = <<L, L>> /\ 2 * L < H
         /\ p = "backmul" => shape = <<2 * L, L>>

(* Calls of the middle products: a is not empty and no longer than b, the     *)
(* diagonals and one limb fit the result, and no lane overflows: it takes a   *)
(* low and a high half of every digit of a.                                   *)
MiddleInputs ==
  \A p \in {"mid", "midtail"} \cap DOMAIN Shapes : \A shape \in Shapes[p] :
    /\ shape[1] \in Nat \ {0} /\ shape[2] \in Nat /\ shape[1] <= shape[2]
    /\ 2 * shape[1] <= H
    /\ shape[2] - shape[1] + 1 < Room
    /\ \A digits \in Patterns[p] : \A j \in 0 .. shape[2] - 1 : digits[j] \in 0 .. B - 1

(* The columns with their carries resolved, and the last carry. *)
Prefix ==
  LET to[t \in -1 .. Count - 1] == IF t = -1 THEN 0 ELSE (to[t - 1] \div B) + Column(t)
  IN  to
LastCarry(to) ==
  CASE prog = "estimate" -> to[Count - 1] \div B
    [] prog = "addc" -> to[Count - 1] \div B
    [] prog = "subb" -> -(to[Count - 1] \div B)
    [] OTHER -> chain.cin

(* The redundant products hold the whole sum of each column, the others its  *)
(* digits with the carry or borrow beyond them; nothing that lies past the   *)
(* operands gets in.  Comparison agrees with the order of the numbers.       *)
ProductRight ==
  done /\ prog \in Products =>
    CASE prog \in {"narrow", "wide"} -> \A t \in 0 .. Count - 1 : rp[t] = Column(t)
      [] prog = "order" ->
           rp[0] = 1 <=> \A t \in 0 .. (2 * L) - 1 :
                          ap[t] >= bp[t] \/ \E k \in t + 1 .. (2 * L) - 1 : ap[k] > bp[k]
      [] OTHER -> \E to \in {Prefix} : /\ \A t \in 0 .. Count - 1 : rp[t] = to[t] % B
                                       /\ chain.cin = LastCarry(to)

(* No store reaches past the product: to its last limb, or to the end of its *)
(* last vector where whole vectors are promised.                             *)
ExactFootprint ==
  prog \in Products =>
  LET room == IF prog \in {"vec", "fast"} THEN ((Count + L - 1) \div L) * L ELSE Count
  IN  \A j \in Limbs : j >= room => rp[j] = Untouched

(* Lows of the diagonals an - 1 .. bn - 1 and their highs one limb up; the    *)
(* highs of the diagonal below do not leak in, and nothing outside rn + 1      *)
(* limbs is written.                                                          *)
Diagonal(t) == t + an - 1
DiagonalLows(t) == Total([x \in 0 .. an - 1 |-> (ap[x] * bp[Diagonal(t) - x]) % B], an)
DiagonalHighs(t) == Total([x \in 0 .. an - 1 |-> (ap[x] * bp[Diagonal(t) - x]) \div B], an)
MiddleRight ==
  prog \in {"mid", "midtail"} =>
    /\ \A j \in Limbs : j > rn => rp[j] = Untouched
    /\ done => \A t \in 0 .. rn :
         rp[t] = (IF t < rn THEN DiagonalLows(t) ELSE 0) + (IF t > 0 THEN DiagonalHighs(t - 1) ELSE 0)
=============================================================================
