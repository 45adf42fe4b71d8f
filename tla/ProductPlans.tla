---------------------------- MODULE ProductPlans ----------------------------
(***************************************************************************)
(* How mul_u52_karatsuba, mul_u52_toom32, mul_u52_toom33, mul_u52_toom42   *)
(* and mul_u52_stripmine of include/mul.h lay out their operands, products *)
(* and interpolation in the result area and in scratch, where nearly every *)
(* value overlaps another one that is dead or about to be overwritten.     *)
(*                                                                         *)
(* A limb holds a linear combination of the limbs of the coefficients x0,  *)
(* x1, ... of the product sum x_k B^(n k), which is what a limb is for all *)
(* operands: additions, halvings and the division by 3 act on combinations *)
(* limb by limb, and carries only move value between the limbs of one      *)
(* number.  x1 is expressed through the others and the magnitude m at the  *)
(* point -1, whose length varies.  An algorithm is a list of instructions, *)
(* executed vector by vector.                                              *)
(***************************************************************************)
EXTENDS MulShapes, Sequences, FiniteSets

CONSTANTS
  L,          \* limbs of a vector (8)
  Products    \* records [alg, an, bn, sa, sb, neg, cls]: shapes to multiply,
              \* lengths and sign of the magnitude's factors, and the class
              \* of the children

ASSUME ProductPlansAssumption == L \in Nat /\ L > 1

VARIABLES
  job,        \* the product being computed
  code,       \* the instructions left
  at,         \* the next vector of the first of them
  mem,        \* the areas: the result, scratch and registers
  mixed,      \* limbs that may be signed or above 2^52
  intact      \* history: every operand read so far was what it should be

planVars == <<job, code, at, mem, mixed, intact>>

-----------------------------------------------------------------------------
(* Combinations: finite functions from <<name, limb>> to nonzero integers *)

Nothing == << >>
Sole(name, i) == [x \in {<<name, i>>} |-> 1]
Coef(f, x) == IF x \in DOMAIN f THEN f[x] ELSE 0
Plus(f, c, g) ==      \* f + c * g
  LET sum == [x \in (DOMAIN f) \cup (DOMAIN g) |-> Coef(f, x) + c * Coef(g, x)]
  IN  [x \in {y \in DOMAIN sum : sum[y] # 0} |-> sum[x]]
Exact(f, d) == \A x \in DOMAIN f : f[x] % d = 0
Over(f, d) == [x \in DOMAIN f |-> f[x] \div d]
Limb(name, i, len) == IF i \in 0 .. len - 1 THEN Sole(name, i) ELSE Nothing

-----------------------------------------------------------------------------
(* The shape of a job: n, the lengths of the top coefficient and of m *)

Part(j) ==
  CASE j.alg = "karatsuba" -> Split(j.an)
    [] j.alg = "toom32" -> Toom32Part(j.an, j.bn)
    [] j.alg = "toom33" -> Toom33Part(j.an)
    [] j.alg = "toom42" -> Toom42Part(j.an, j.bn)
Degree(j) == CASE j.alg = "karatsuba" -> 2 [] j.alg = "toom32" -> 3 [] OTHER -> 4
TopLen(j) == j.an + j.bn - Degree(j) * Part(j)
MagLen(j) == IF j.sa > 0 /\ j.sb > 0 THEN j.sa + j.sb ELSE 0
Vectors(n) == (n + L - 1) \div L
Pvcs_exact(j) == 2 * Part(j) + 2
Pvcs(j) == L * Vectors(2 * Part(j) + 2)
Evec(j) == L * Vectors(Part(j) + 1)

(* Limb i of coefficient k.  Those between x0 and the top one are sums of   *)
(* products and have a limb more; x_3 of degree 4 ends below the product's  *)
(* top.                                                                     *)
Free(j, k, i) ==
  LET n == Part(j)
  IN  CASE k = 0 -> Limb("x0", i, 2 * n)
        [] k = Degree(j) -> Limb("top", i, TopLen(j))
        [] k = 2 /\ k # Degree(j) -> Limb("x2", i, 2 * n + 1)
        [] k = 3 /\ k # Degree(j) -> Limb("x3", i, Least(2 * n + 1, n + TopLen(j)))
(* The magnitude at -1 is x0 - x1 + x2 - ..., negated for neg; its product  *)
(* is below B^(2n+1) however long its factors are.                          *)
MagnitudeProduct(j, i) ==
  Limb("m", i, IF j.alg = "karatsuba" THEN MagLen(j) ELSE Least(MagLen(j), 2 * Part(j) + 1))
Sign(j) == IF j.neg THEN -1 ELSE 1
Others(j, x, i) ==    \* the coefficients but x1, at the point x
  LET upto[k \in 0 .. Degree(j)] ==
        IF k = 0 THEN Free(j, 0, i)
        ELSE IF k = 1 THEN upto[0] ELSE Plus(upto[k - 1], x^k, Free(j, k, i))
  IN  upto[Degree(j)]
X1(j, i) == Plus(Others(j, -1, i), -Sign(j), MagnitudeProduct(j, i))
Coefficient(j, k, i) == IF k = 1 THEN X1(j, i) ELSE Free(j, k, i)
(* The product of the operands' values at the point x. *)
Point(j, x, i) == Plus(Others(j, x, i), x, X1(j, i))

SumOfCoefficients(j, i) ==
  LET n == Part(j)
      upto[k \in 0 .. Degree(j)] ==
        LET x == Coefficient(j, k, i - k * n)
        IN  IF k = 0 THEN x ELSE Plus(upto[k - 1], 1, x)
  IN  upto[Degree(j)]

(* A strip's product, and their sum. *)
StripName == <<"strip1", "strip2", "strip3", "strip4">>
StripProduct(j, k, i) ==
  Limb(StripName[k], i - StripStart(j.an, j.bn, k), Strips(j.an, j.bn)[k] + j.bn)
SumOfStrips(j, i) ==
  LET upto[k \in 0 .. Len(Strips(j.an, j.bn))] ==
        IF k = 0 THEN Nothing ELSE Plus(upto[k - 1], 1, StripProduct(j, k, i))
  IN  upto[Len(Strips(j.an, j.bn))]

Wanted(j, i) == IF j.alg = "stripmine" THEN SumOfStrips(j, i) ELSE SumOfCoefficients(j, i)

-----------------------------------------------------------------------------
(* Instructions *)

(* A call that writes len canonical limbs - an evaluation or a child's      *)
(* product - after reading the operands it uses.                            *)
Region(area, from, len, name) == [area |-> area, from |-> from, len |-> len, name |-> name]
Make(area, from, len, name, uses) ==
  [op |-> "make", to |-> Region(area, from, len, name), uses |-> uses]

(* A streaming kernel: dst[i] = (sum of c * src[i] over the terms) / div    *)
(* for i < width, a term of len limbs counting as zero beyond them.         *)
Term(c, area, from, len) == [c |-> c, area |-> area, from |-> from, len |-> len]
Stream(area, from, width, div, settles, terms) ==
  [op |-> "stream", to |-> Region(area, from, width, "-"), div |-> div,
   settles |-> settles, terms |-> terms]
Nc(area, from, len, terms) == Stream(area, from, len, 1, FALSE, terms)
Fold(area, from, len, terms) == Stream(area, from, len, 1, TRUE, terms)
Halve(area, from, len, settles, terms) == Stream(area, from, L * Vectors(len), 2, settles, terms)
Zero(area, from, upto) == Stream(area, from, upto - from, 1, TRUE, << >>)

When(cond, instructions) == IF cond THEN instructions ELSE << >>

(* The final fold runs from the first limb the interpolation touches to the *)
(* top of the product.                                                      *)
FoldLen(j) == j.an + j.bn - Part(j)

EvalLimbs_split(j) == Split(j.an)
EvalLimbs(j) == Most(j.an - Split(j.an), Split(j.an))

(* inf += mid; mid = inf + 0: each half of the products is added twice. *)
KaratsubaMiddle_swapped(j) ==
  LET h == Split(j.an)
  IN  <<Nc("r", h, h, <<Term(1, "r", 2 * h, h), Term(1, "r", 0, h)>>),
        Nc("r", 2 * h, h, <<Term(1, "r", h, h), Term(1, "r", 2 * h, h)>>)>>
KaratsubaMiddle(j) ==
  LET h == Split(j.an)
  IN  <<Nc("r", 2 * h, h, <<Term(1, "r", h, h), Term(1, "r", 2 * h, h)>>),
        Nc("r", h, h, <<Term(1, "r", 2 * h, h), Term(1, "r", 0, h)>>)>>

KaratsubaCode(j) ==
  LET h == Split(j.an)
      eval == EvalLimbs(j)
      top == TopLen(j)
      len == MagLen(j)
  IN  <<Make("r", 0, j.sa, "am1", << >>), Make("r", eval, j.sb, "bm1", << >>)>>
      \o When(len > 0,
           <<Make("s", 0, len, "m", <<Region("r", 0, j.sa, "am1"), Region("r", eval, j.sb, "bm1")>>)>>)
      \o <<Make("r", 0, 2 * h, "x0", << >>), Make("r", 2 * h, top, "top", << >>)>>
      \o KaratsubaMiddle(j)
      \o When(top > h,
           <<Nc("r", 2 * h, top - h, <<Term(1, "r", 2 * h, top - h), Term(1, "r", 3 * h, top - h)>>)>>)
      \o IF j.cls = 1
         THEN <<Fold("r", h, FoldLen(j), <<Term(1, "r", h, FoldLen(j)), Term(-Sign(j), "s", 0, len)>>)>>
         ELSE When(len > 0, <<Nc("r", h, len, <<Term(1, "r", h, len), Term(-Sign(j), "s", 0, len)>>)>>)

(* ap1, bp1 and am1, then vm1, in the result; bm1 and v1 in scratch. *)
Toom32Code(j) ==
  LET n == Part(j)
      len == MagLen(j)
      v1Top == Pvcs(j)
      vm1(from, k, c) == Term(c, "r", from, k)
      v1(from, k, c) == Term(c, "v1", from, k)
      sigma == Sign(j)
  IN  <<Make("r", 2 * n + 2, n + 1, "a02", << >>),
        Make("r", 0, n + 1, "ap1", <<Region("r", 2 * n + 2, n + 1, "a02")>>),
        Make("r", 2 * n + 2, j.sa, "am1", <<Region("r", 2 * n + 2, n + 1, "a02")>>),
        Make("r", n + 1, n + 1, "bp1", << >>),
        Make("s", 0, j.sb, "bm1", << >>),
        Zero("v1", v1Top - L, v1Top),
        Make("v1", 0, 2 * n + 2, "v1",
             <<Region("r", 0, n + 1, "ap1"), Region("r", n + 1, n + 1, "bp1")>>)>>
      \o When(len > 0,
           <<Make("r", 0, len, "m", <<Region("r", 2 * n + 2, j.sa, "am1"), Region("s", 0, j.sb, "bm1")>>)>>)
      \o <<Zero("r", len, Pvcs(j)),
           Halve("v1", 0, 2 * n + 2, FALSE, <<v1(0, 2 * n + 2, 1), vm1(0, 2 * n + 2, sigma)>>),
           Nc("reg", 0, 1, <<vm1(2 * n, 1, 1)>>),
           Nc("r", 2 * n, n, <<v1(0, n, 1), v1(n, n, 1)>>),
           Nc("v1", n, 1, <<v1(n, 1, 1), v1(2 * n, 1, 1), Term(-sigma, "reg", 0, 1)>>),
           Nc("v1", n + 1, 1, <<v1(n + 1, 1, 1), v1(2 * n + 1, 1, 1)>>),
           Nc("v1", 0, n, <<v1(0, n, 1), vm1(0, n, -sigma)>>),
           Nc("r", 2 * n, n, <<vm1(2 * n, n, 1), vm1(n, n, -sigma)>>),
           Make("r", 0, 2 * n, "x0", << >>),
           Make("r", 3 * n, TopLen(j), "top", << >>),
           Nc("r", n, n, <<Term(1, "r", n, n), Term(-1, "r", 3 * n, n)>>),
           Nc("r", 2 * n, n, <<Term(1, "r", 2 * n, n), Term(-1, "r", 0, n)>>),
           Nc("r", 2 * n, TopLen(j) - n, <<Term(1, "r", 2 * n, TopLen(j) - n), Term(-1, "r", 4 * n, TopLen(j) - n)>>),
           Nc("r", 3 * n, n, <<v1(n, n, 1), Term(-1, "r", n, n)>>),
           Nc("r", 4 * n, 2, <<Term(1, "r", 4 * n, 2), v1(2 * n, 2, 1)>>),
           Fold("r", n, FoldLen(j), <<Term(1, "r", n, FoldLen(j)), v1(0, n, 1)>>)>>

(* The limbs of c3 there is room for at B^3n. *)
C3Len(n, twor) == IF twor >= n + 2 THEN 2 * n + 2 ELSE Least(2 * n + 2, n + twor)

(* u52_toom_interp_5pts: v0 and v1 in the result, whose limbs 4n and 4n+1   *)
(* belong to v1 while the registers hold the top product's; v2 and vm1 in   *)
(* scratch.                                                                 *)
Interpolation(j) ==
  LET n == Part(j)
      twor == TopLen(j)
      kk2 == 2 * n + 2
      rounded == L * Vectors(kk2)
      nc == twor >= n + 2
      v0(k, c) == Term(c, "r", 0, k)
      v1(from, k, c) == Term(c, "r", 2 * n + from, k)
      v2(from, k, c) == Term(c, "e", from, k)
      vm1(from, k, c) == Term(c, "vm1", from, k)
      vinf(i, c) == Term(c, "reg", i, 1)
      high(c) == Term(c, "r", 4 * n + 2, twor - 2)
      L3 == C3Len(n, twor)
  IN  <<Stream("e", 0, rounded, 1, TRUE, <<v2(0, rounded, 1), vm1(0, rounded, -Sign(j))>>),
        Stream("e", 0, kk2, 3, TRUE, <<v2(0, kk2, 1)>>),
        Halve("vm1", 0, kk2, FALSE, <<v1(0, kk2, 1), vm1(0, kk2, -Sign(j))>>)>>
      \o (IF nc
          THEN <<Halve("e", 0, kk2, FALSE, <<v2(0, kk2, 1), v1(0, kk2, -1), v0(2 * n, 1)>>),
                 Nc("r", 2 * n, 2 * n, <<v1(0, 2 * n, 1), v0(2 * n, -1), vm1(0, 2 * n, -1)>>)>>
          ELSE <<Nc("r", 2 * n, 2 * n, <<v1(0, 2 * n, 1), v0(2 * n, -1)>>),
                 Halve("e", 0, kk2, TRUE, <<v2(0, kk2, 1), v1(0, kk2, -1)>>),
                 Nc("r", 2 * n, 2 * n, <<v1(0, 2 * n, 1), vm1(0, 2 * n, -1)>>)>>)
      \o <<Nc("r", 4 * n, 1, <<v1(2 * n, 1, 1), vm1(2 * n, 1, -1)>>),
           Nc("r", 4 * n + 1, 1, <<v1(2 * n + 1, 1, 1), vm1(2 * n + 1, 1, -1)>>),
           Nc("e", 0, 1, <<v2(0, 1, 1), vinf(0, -2)>>),
           Nc("e", 1, 1, <<v2(1, 1, 1), vinf(1, -2)>>),
           Nc("e", 2, twor - 2, <<v2(2, twor - 2, 1), high(-2)>>),
           Nc("r", 2 * n, 1, <<v1(0, 1, 1), vinf(0, -1)>>),
           Nc("r", 2 * n + 1, 1, <<v1(1, 1, 1), vinf(1, -1)>>),
           Nc("r", 2 * n + 2, twor - 2, <<v1(2, twor - 2, 1), high(-1)>>),
           Nc("r", 4 * n, 1, <<v1(2 * n, 1, 1), vinf(0, 1)>>),
           Nc("r", 4 * n + 1, 1, <<v1(2 * n + 1, 1, 1), vinf(1, 1)>>),
           Nc("r", 3 * n, L3, <<Term(1, "r", 3 * n, L3), v2(0, L3, 1)>>),
           Fold("r", n, FoldLen(j), <<Term(1, "r", n, FoldLen(j)), vm1(0, kk2, 1), v2(0, kk2, -1)>>)>>

(* The products of the five points, in GMP's order: the operands at -1, 2   *)
(* and 1 are the regions am1, bm1, as2, bs2, as1 and bs1.                   *)
FivePoints(j, am1, bm1, as2, bs2, as1, bs1) ==
  LET n == Part(j)
  IN  When(MagLen(j) > 0, <<Make("vm1", 0, MagLen(j), "m", <<am1, bm1>>)>>)
      \o <<Zero("vm1", MagLen(j), Pvcs(j)),
           Zero("e", Pvcs(j) - L, Pvcs(j)),
           Make("e", 0, 2 * n + 2, "v2", <<as2, bs2>>),
           Make("r", 4 * n, TopLen(j), "top", << >>),
           Nc("reg", 0, 2, <<Term(1, "r", 4 * n, 2)>>),
           Make("r", 2 * n, 2 * n + 2, "v1", <<as1, bs1>>),
           Make("r", 0, 2 * n, "x0", << >>)>>
      \o Interpolation(j)

Evaluate(to, uses) == Make(to.area, to.from, to.len, to.name, uses)

(* "e" holds asm1, bsm1 and what SALLOC put after them. *)
Toom33Code(j) ==
  LET n == Part(j)
      gp(name) == Region("vm1", 0, n + 1, name)
      am1 == Region("e", 0, j.sa, "am1")
      bm1 == Region("e", Evec(j), j.sb, "bm1")
      as1 == Region("e", 2 * Evec(j), n + 1, "as1")
      bs1 == Region("r", 0, n + 1, "bs1")
      as2 == Region("r", n + 1, n + 1, "as2")
      bs2 == Region("r", 2 * n + 2, n + 1, "bs2")
  IN  <<Evaluate(gp("a02"), << >>), Evaluate(as1, <<gp("a02")>>), Evaluate(am1, <<gp("a02")>>),
        Evaluate(gp("b02"), << >>), Evaluate(bs1, <<gp("b02")>>), Evaluate(bm1, <<gp("b02")>>),
        Evaluate(as2, << >>), Evaluate(bs2, << >>)>>
      \o FivePoints(j, am1, bm1, as2, bs2, as1, bs1)

Toom42Code(j) ==
  LET n == Part(j)
      p13 == Region("r", 0, n + 1, "a13")
      p02 == Region("e", 0, n + 1, "a02")
      am1 == Region("e", 0, j.sa, "am1")
      bm1 == Region("e", Evec(j), j.sb, "bm1")
      slot(k, name) == Region("e", k * Evec(j), n + 1, name)
      as1 == slot(2, "as1")
      as2 == slot(3, "as2")
      bs1 == slot(4, "bs1")
      bs2 == slot(5, "bs2")
  IN  <<Evaluate(p13, << >>), Evaluate(p02, << >>), Evaluate(as1, <<p02, p13>>),
        Evaluate(am1, <<p02, p13>>), Evaluate(as2, << >>), Evaluate(bs1, << >>),
        Evaluate(bm1, << >>), Evaluate(bs2, <<bs1>>)>>
      \o FivePoints(j, am1, bm1, as2, bs2, as1, bs1)

(* The first strip's product is made in place; each later one in scratch,    *)
(* its low bn limbs added to the top of the one before, the others copied.   *)
Seam_from_strip_end(j, k) ==
  LET start == StripStart(j.an, j.bn, k)
      w == Strips(j.an, j.bn)[k]
  IN  <<Make("ws", 0, w + j.bn, StripName[k], << >>),
        Nc("r", start, w, <<Term(1, "r", start, w), Term(1, "ws", 0, w)>>),
        Nc("r", start + w, j.bn, <<Term(1, "ws", w, j.bn)>>)>>
Seam(j, k) ==
  LET start == StripStart(j.an, j.bn, k)
      w == Strips(j.an, j.bn)[k]
  IN  <<Make("ws", 0, w + j.bn, StripName[k], << >>),
        Nc("r", start, j.bn, <<Term(1, "r", start, j.bn), Term(1, "ws", 0, j.bn)>>),
        Nc("r", start + j.bn, w, <<Term(1, "ws", j.bn, w)>>)>>
StripmineCode(j) ==
  LET w == Strips(j.an, j.bn)
      upto[k \in 1 .. Len(w)] ==
        IF k = 1 THEN <<Make("r", 0, w[1] + j.bn, StripName[1], << >>)>> ELSE upto[k - 1] \o Seam(j, k)
  IN  upto[Len(w)]

Code(j) ==
  CASE j.alg = "stripmine" -> StripmineCode(j)
    [] j.alg = "karatsuba" -> KaratsubaCode(j)
    [] j.alg = "toom32" -> Toom32Code(j)
    [] j.alg = "toom33" -> Toom33Code(j)
    [] j.alg = "toom42" -> Toom42Code(j)

-----------------------------------------------------------------------------
(* Memory *)

Sizes(j) ==
  LET n == IF j.alg = "stripmine" THEN 0 ELSE Part(j)
      result == [r |-> j.an + j.bn, reg |-> 2]
  IN  CASE j.alg = "stripmine" ->
             [area \in {"r", "ws", "reg"} |->
                IF area = "ws" THEN L * Vectors(4 * j.bn) ELSE result[area]]
        [] j.alg = "karatsuba" ->
             [area \in {"r", "s", "reg"} |->
                IF area = "s" THEN L * Vectors(2 * Most(n, j.an - n)) ELSE result[area]]
        [] j.alg = "toom32" ->
             [area \in {"r", "s", "v1", "reg"} |->
                IF area = "s" THEN L * Vectors(n) ELSE IF area = "v1" THEN Pvcs(j) ELSE result[area]]
        [] OTHER ->
             [area \in {"r", "vm1", "e", "reg"} |->
                IF area = "vm1" THEN Pvcs(j)
                ELSE IF area = "e" THEN Evec(j) * (IF j.alg = "toom33" THEN 3 ELSE 6)
                ELSE result[area]]

(* Limbs beyond an area are somebody else's; those in it are junk at first. *)
Fresh(j) ==
  [area \in DOMAIN Sizes(j) |->
     [i \in 0 .. Sizes(j)[area] + 2 * L - 1 |->
        IF i < Sizes(j)[area] THEN Sole("junk", i) ELSE Sole("foreign", i)]]

Content(name, i) ==
  CASE name = "m" -> MagnitudeProduct(job, i)
    [] name = "x0" -> Free(job, 0, i)
    [] name = "top" -> Free(job, Degree(job), i)
    [] name = "v1" -> Point(job, 1, i)
    [] name = "v2" -> Point(job, 2, i)
    [] OTHER -> Sole(name, i)

Limbs(region) == {<<region.area, region.from + i>> : i \in 0 .. region.len - 1}
Holds(region) ==
  /\ \A i \in 0 .. region.len - 1 : mem[region.area][region.from + i] = Content(region.name, i)
  /\ Limbs(region) \cap mixed = {}

-----------------------------------------------------------------------------
PlansInit ==
  \E j \in Products :
    /\ job = j
    /\ code = Code(j)
    /\ mem = Fresh(j)
    /\ at = 0 /\ mixed = {} /\ intact = TRUE

MakeStep ==
  /\ code # << >> /\ Head(code).op = "make"
  /\ LET to == Head(code).to
         uses == Head(code).uses
     IN  /\ mem' = [mem EXCEPT ![to.area] =
                      [i \in DOMAIN @ |-> IF to.from <= i /\ i < to.from + to.len
                                         THEN Content(to.name, i - to.from) ELSE @[i]]]
         /\ mixed' = mixed \ Limbs(to)
         /\ intact' = (intact /\ \A k \in DOMAIN uses : Holds(uses[k]))
  /\ code' = Tail(code)
  /\ UNCHANGED <<job, at>>

(* One vector of a streaming kernel: every term is loaded before the store. *)
StreamVector ==
  /\ code # << >> /\ Head(code).op = "stream"
  /\ LET s == Head(code)
         here == {i \in L * at .. L * at + L - 1 : i < s.to.len}
         loads == {x \in (DOMAIN s.terms) \X here : x[2] < s.terms[x[1]].len}
         source(k, i) == <<s.terms[k].area, s.terms[k].from + i>>
         read(k, i) == mem[s.terms[k].area][s.terms[k].from + i]
         sum(i) ==
           LET upto[k \in 0 .. Len(s.terms)] ==
                 IF k = 0 THEN Nothing
                 ELSE IF <<k, i>> \in loads THEN Plus(upto[k - 1], s.terms[k].c, read(k, i))
                 ELSE upto[k - 1]
           IN  upto[Len(s.terms)]
         sums == [i \in here |-> sum(i)]
         done == {<<s.to.area, s.to.from + i>> : i \in here}
     IN  /\ mem' = [mem EXCEPT ![s.to.area] =
                      [i \in DOMAIN @ |-> IF i - s.to.from \in here
                                         THEN Over(sums[i - s.to.from], s.div) ELSE @[i]]]
         /\ mixed' = IF s.settles THEN mixed \ done ELSE mixed \cup done
         /\ intact' = (/\ intact
                       /\ \A i \in here : Exact(sums[i], s.div)
                       /\ s.div = 3 => {source(x[1], x[2]) : x \in loads} \cap mixed = {})
         /\ IF L * at + L < s.to.len
            THEN at' = at + 1 /\ UNCHANGED code
            ELSE at' = 0 /\ code' = Tail(code)
  /\ UNCHANGED job

PlansNext == MakeStep \/ StreamVector

PlansSpec == PlansInit /\ [][PlansNext]_planVars

-----------------------------------------------------------------------------
(* Properties *)

(* What is left in the result is the product, limb for limb, and a product  *)
(* reported as class 0 has no signed lane: the last fold covers all that the *)
(* interpolation touched, to the top.  Strips are not folded: a limb sums at *)
(* most two of their non-negative products.                                 *)
PlanRight ==
  code = << >> =>
    \A i \in 0 .. job.an + job.bn - 1 :
      /\ mem["r"][i] = Wanted(job, i)
      /\ CASE job.alg = "stripmine" -> Cardinality(DOMAIN mem["r"][i]) <= 2
           [] job.alg = "karatsuba" /\ job.cls = 0 -> TRUE
           [] OTHER -> <<"r", i>> \notin mixed

(* No store, vector-wide ones included, reaches beyond the result or a      *)
(* scratch block: the limbs there may be another product's.  And whatever a *)
(* child multiplies is complete and canonical when the child starts, though *)
(* the areas are shared; halvings and the division by 3 are exact, and the  *)
(* latter's operand is canonical.                                           *)
NothingTrampled ==
  /\ \A area \in DOMAIN mem :
       \A i \in Sizes(job)[area] .. Sizes(job)[area] + 2 * L - 1 : mem[area][i] = Sole("foreign", i)
  /\ intact
=============================================================================
