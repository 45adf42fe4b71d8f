---------------------------- MODULE MulDispatch ----------------------------
(***************************************************************************)
(* mul_u52_dispatch of include/mul.h and everything it recurses through:   *)
(* which algorithm a shape gets, which products that algorithm asks for,   *)
(* and the class it reports of its own lanes - 0, non-negative within the  *)
(* basecase bound, or 1, signed, to be folded by whoever consumes them.    *)
(* Operand digits are abstracted away: a product is the interval of values *)
(* each of its lanes can take, in units of a digit's range (2^52).  What   *)
(* the algorithms do to the lanes is modelled in ProductPlans.             *)
(***************************************************************************)
EXTENDS MulShapes, Sequences, FiniteSetsExt

CONSTANTS
  T22, T33, T32_OK, T42_OK,  \* the thresholds of u52-mparam.h
  Vector,                    \* limbs of a vector (8)
  Budget,                    \* what a signed lane holds: 2^63 / 2^52
  Shapes,                    \* the pairs <<an, bn>> to multiply
  Gaps                       \* by depth: how far differences fall short, see Magnitude

ASSUME MulDispatchAssumption ==
  /\ {T22, T33, T32_OK, T42_OK, Vector, Budget} \subseteq Nat
  /\ T22 > 3 /\ T22 <= T33 /\ Vector > 0
  /\ Shapes \subseteq Nat \X Nat
  /\ Gaps \in Seq(SUBSET (Int \X Int)) /\ Gaps # << >>

VARIABLES
  stack,      \* calls in progress, the innermost last
  result,     \* the product just returned, or NoResult
  peak        \* history: the widest lane the last recomposition formed

vars == <<stack, result, peak>>

-----------------------------------------------------------------------------
(* Products: class and lane intervals *)

Lanes(n) == 0 .. n - 1
Canonical(n) == [lo |-> [j \in Lanes(n) |-> 0], hi |-> [j \in Lanes(n) |-> 1]]
At(f, j) == IF j \in DOMAIN f THEN f[j] ELSE 0

(* mul_u52_basecase: lane j sums the low halves of the digit products of    *)
(* weight j and the high halves of those of weight j - 1.                   *)
Terms(an, bn, j) == IF j < 0 THEN 0 ELSE Most(0, Least(bn, Least(j + 1, an + bn - 1 - j)))
Basecase(an, bn) ==
  [lo |-> [j \in Lanes(an + bn) |-> 0],
   hi |-> [j \in Lanes(an + bn) |-> Terms(an, bn, j) + Terms(an, bn, j - 1)]]

Width(x) == Max({0} \cup {Most(x.hi[j], -x.lo[j]) : j \in DOMAIN x.lo})

-----------------------------------------------------------------------------
(* The choice of an algorithm *)

ToomX2(an, bn) ==
  IF an >= 3 * bn THEN "stripmine"
  ELSE IF /\ 4 * an >= 5 * bn /\ bn >= T32_OK
          /\ 4 * an < 7 * bn /\ Toom32Shape(an, bn) THEN "toom32"
  ELSE IF /\ 4 * an >= 7 * bn /\ bn >= T32_OK
          /\ bn >= T42_OK /\ Toom42Shape(an, bn) THEN "toom42"
  ELSE "karatsuba"
ToomX3(an, bn) ==
  IF 2 * an >= 5 * bn THEN "stripmine"
  ELSE IF 6 * an < 7 * bn /\ Toom33Shape(an, bn) THEN "toom33"
  ELSE IF 4 * an < 7 * bn /\ Toom32Shape(an, bn) THEN "toom32"
  ELSE IF Toom42Shape(an, bn) THEN "toom42"
  ELSE "karatsuba"
Choice(an, bn) ==
  IF bn < T22 THEN "basecase" ELSE IF bn < T33 THEN ToomX2(an, bn) ELSE ToomX3(an, bn)

-----------------------------------------------------------------------------
(* The products an algorithm asks for *)

Call(alg, an, bn, canon) == [alg |-> alg, an |-> an, bn |-> bn, canon |-> canon]

(* The length u52_cmp_and_sub returns for operands of up to k limbs: all of *)
(* them, or gap whole vectors less when the top ones are equal, or 0.       *)
Magnitude(k, gap) ==
  LET vectors == (k + Vector - 1) \div Vector
  IN  IF gap = 0 \/ gap >= vectors THEN k
      ELSE IF gap < 0 THEN 0 ELSE (vectors - gap) * Vector

(* gaps: the shortfalls of the differences of a's parts and of b's. *)
KaratsubaCalls(an, bn, gaps) ==
  LET h == Split(an)
      m == Magnitude(an - h, gaps[1])
      k == Magnitude(Most(h, bn - h), gaps[2])
  IN  <<Call("dispatch", m, k, FALSE), Call("dispatch", h, h, FALSE),
        Call("dispatch", an - h, bn - h, FALSE)>>

Toom32Calls(an, bn, gaps) ==
  LET n == Toom32Part(an, bn)
  IN  <<Call("dispatch", n + 1, n + 1, TRUE),
        Call("dispatch", Magnitude(n + 1, gaps[1]), Magnitude(n, gaps[2]), TRUE),
        Call("dispatch", n, n, TRUE), Call("dispatch", an - 2 * n, bn - n, TRUE)>>

(* The points stack up in the interpolation: they have to come canonical or *)
(* from a basecase, never as a redundant product left signed.               *)
Toom5Calls_signed(n, s, t, lam, lbm) ==
  <<Call("dispatch", lam, lbm, FALSE), Call("dispatch", n + 1, n + 1, FALSE),
    Call("dispatch", s, t, FALSE), Call("dispatch", n + 1, n + 1, FALSE),
    Call("dispatch", n, n, FALSE)>>
Toom5Calls(n, s, t, lam, lbm) ==
  <<Call("dispatch", lam, lbm, TRUE), Call("dispatch", n + 1, n + 1, TRUE),
    Call("dispatch", s, t, TRUE), Call("dispatch", n + 1, n + 1, TRUE),
    Call("dispatch", n, n, TRUE)>>

(* Full strips go to mul_u52_toom42 itself; the others may have any shape and *)
(* are canonicalized, for the seams between strips are added without carries. *)
StripCalls(an, bn) ==
  LET w == Strips(an, bn)
  IN  [k \in DOMAIN w |->
         IF ~Equalized(an, bn) /\ k < Len(w) THEN Call("toom42", w[k], bn, FALSE)
         ELSE Call("dispatch", w[k], bn, TRUE)]

Calls(alg, an, bn, gaps) ==
  CASE alg = "basecase"  -> << >>
    [] alg = "karatsuba" -> IF TooThin(an, bn) THEN << >> ELSE KaratsubaCalls(an, bn, gaps)
    [] alg = "toom32"    -> Toom32Calls(an, bn, gaps)
    [] alg = "toom33"    -> LET n == Toom33Part(an)
                            IN  Toom5Calls(n, an - 2 * n, bn - 2 * n,
                                           Magnitude(n + 1, gaps[1]), Magnitude(n + 1, gaps[2]))
    [] alg = "toom42"    -> LET n == Toom42Part(an, bn)
                            IN  Toom5Calls(n, an - 3 * n, bn - n,
                                           Magnitude(n + 1, gaps[1]), Magnitude(n, gaps[2]))
    [] alg = "stripmine" -> StripCalls(an, bn)

-----------------------------------------------------------------------------
(* What it makes of them: the lanes it forms on the way, and the product *)

Sum(j, parts) ==     \* parts: a sequence of <<function, offset>>
  LET upto[k \in 0 .. Len(parts)] ==
        IF k = 0 THEN 0 ELSE upto[k - 1] + At(parts[k][1], j - parts[k][2])
  IN  upto[Len(parts)]

(* point_0 + (point_0 + point_inf -+ point_n1) B^split + point_inf B^2split *)
KaratsubaLanes(an, bn, got) ==
  LET h == Split(an)
      wide == [j \in DOMAIN got[1].hi |-> Most(got[1].hi[j], -got[1].lo[j])]
      sum(lo, sign) == [j \in Lanes(an + bn) |->
        Sum(j, <<<<got[2][lo], 0>>, <<got[2][lo], h>>, <<got[3][lo], h>>, <<got[3][lo], 2 * h>>>>)
          + sign * At(wide, j - h)]
  IN  [lo |-> sum("lo", -1), hi |-> sum("hi", 1)]

StripLanes(an, bn, got) ==
  LET w == Strips(an, bn)
      parts(lo) == [k \in DOMAIN w |-> <<got[k][lo], StripStart(an, bn, k)>>]
      sum(lo) == [j \in Lanes(an + bn) |-> Sum(j, parts(lo))]
  IN  [lo |-> sum("lo"), hi |-> sum("hi")]

Folded(x, from) ==
  [lo |-> [j \in DOMAIN x.lo |-> IF j < from THEN x.lo[j] ELSE 0],
   hi |-> [j \in DOMAIN x.hi |-> IF j < from THEN x.hi[j] ELSE 1]]

(* The toom family ends in a fold over all but the low part, which keeps the *)
(* lanes of the product at point 0.                                          *)
ToomLanes(n, an, bn, point0) ==
  Folded([lo |-> [j \in Lanes(an + bn) |-> At(point0.lo, j)],
          hi |-> [j \in Lanes(an + bn) |-> At(point0.hi, j)]], n)

(* What that fold resolves: lanes of several points stacked without carries. *)
Minus(x) == [lo |-> [j \in DOMAIN x.hi |-> -x.hi[j]], hi |-> [j \in DOMAIN x.lo |-> -x.lo[j]]]
EitherSign(x) ==
  LET wide == [j \in DOMAIN x.hi |-> Most(x.hi[j], -x.lo[j])]
  IN  [lo |-> [j \in DOMAIN wide |-> -wide[j]], hi |-> wide]
Slice(x, from, len) ==
  [lo |-> [j \in Lanes(len) |-> At(x.lo, from + j)], hi |-> [j \in Lanes(len) |-> At(x.hi, from + j)]]
Stacked(len, parts) ==     \* parts: a sequence of <<vector, offset>>
  [lo |-> [j \in Lanes(len) |-> Sum(j, [k \in DOMAIN parts |-> <<parts[k][1].lo, parts[k][2]>>])],
   hi |-> [j \in Lanes(len) |-> Sum(j, [k \in DOMAIN parts |-> <<parts[k][1].hi, parts[k][2]>>])]]

(* A lane halved in place receives the odd bit of the one above it. *)
Halved(x) == [lo |-> [j \in DOMAIN x.lo |-> x.lo[j] \div 2],
              hi |-> [j \in DOMAIN x.hi |-> (x.hi[j] + 2) \div 2]]

(* Points 1, -1, 0, infinity: W = (v1 + vm1) / 2, y = W (B + 1) - vm1 with   *)
(* the top of W carried into y's third part, and x0, x3 cross-subtracted.    *)
Toom32Formed(an, bn, got) ==
  LET n == Toom32Part(an, bn)
      top == an + bn - 4 * n                 \* limbs of x3 past the first n
      vm1 == EitherSign(got[2])
      x0 == got[3]  x3 == got[4]
      sum == Stacked(2 * n + 2, <<<<got[1], 0>>, <<vm1, 0>>>>)
      w == Halved(sum)
      y0 == Stacked(n, <<<<w, 0>>, <<vm1, 0>>>>)
      y1 == Stacked(n, <<<<w, 0>>, <<w, -n>>, <<vm1, -n>>>>)
      y2 == Stacked(n, <<<<w, -n>>, <<Slice(w, 2 * n, 2), 0>>, <<Slice(vm1, 2 * n, 1), 0>>>>)
      u == Stacked(n, <<<<x0, -n>>, <<Minus(x3), 0>>>>)
      high == Slice(x3, n, top)
  IN  {sum, Stacked(an + bn, <<<<Slice(x0, 0, n), 0>>, <<u, n>>, <<y0, n>>,
                               <<y1, 2 * n>>, <<Minus(Slice(x0, 0, n)), 2 * n>>, <<Minus(high), 2 * n>>,
                               <<y2, 3 * n>>, <<Minus(u), 3 * n>>,
                               <<high, 4 * n>>, <<Slice(w, 2 * n, 2), 4 * n>>>>)}

(* u52_toom_interp_5pts: points -1, 2, infinity, 1, 0. Only the point 2 is    *)
(* resolved on its way; t2 is too when its high lanes had no room at 3n.      *)
Toom5Formed(n, total, got) ==
  LET twor == total - 4 * n
      len == 2 * n + 2
      vm1 == EitherSign(got[1])
      vinf == got[3]  v1 == got[4]  v0 == got[5]
      point2 == Stacked(len, <<<<got[2], 0>>, <<vm1, 0>>>>)        \* divided by 3
      twice1 == Stacked(len, <<<<v1, 0>>, <<vm1, 0>>>>)
      twice2 == Stacked(len, <<<<Canonical(len), 0>>, <<Minus(v1), 0>>, <<v0, 0>>>>)
      tm1 == Halved(twice1)
      t2 == IF twor >= n + 2 THEN Halved(twice2) ELSE Canonical(len)
      c2 == Stacked(len, <<<<v1, 0>>, <<Minus(v0), 0>>, <<Minus(tm1), 0>>, <<Minus(vinf), 0>>>>)
      c3 == Stacked(len, <<<<t2, 0>>, <<Minus(vinf), 0>>, <<Minus(vinf), 0>>>>)
      placed == IF twor >= n + 2 THEN len ELSE Least(len, n + twor)
  IN  {point2, twice1, twice2,
       Stacked(total, <<<<v0, 0>>, <<tm1, n>>, <<Minus(c3), n>>, <<c2, 2 * n>>,
                        <<Slice(c3, 0, placed), 3 * n>>, <<vinf, 4 * n>>>>)}

AnyClass1(got) == \E k \in DOMAIN got : got[k].cls = 1

(* The class after a fold over [split, top): [0, split) keeps point 0's lanes. *)
FoldedClass_zero(got) == 0
FoldedClass(got) == got[2].cls

NeedsFold(got) == AnyClass1(got)

Product(alg, an, bn, got) ==
  CASE alg = "basecase" \/ (alg = "karatsuba" /\ got = << >>) ->
         [formed |-> {Basecase(an, bn)}, lanes |-> Basecase(an, bn), cls |-> 0]
    [] alg = "karatsuba" /\ got # << >> ->
         LET raw == KaratsubaLanes(an, bn, got)
         IN  [formed |-> {raw},
              lanes |-> IF NeedsFold(got) THEN Folded(raw, Split(an)) ELSE raw,
              cls |-> IF NeedsFold(got) THEN FoldedClass(got) ELSE 1]
    [] alg = "toom32" -> [formed |-> Toom32Formed(an, bn, got),
                          lanes |-> ToomLanes(Toom32Part(an, bn), an, bn, got[3]), cls |-> 0]
    [] alg = "toom33" -> [formed |-> Toom5Formed(Toom33Part(an), an + bn, got),
                          lanes |-> ToomLanes(Toom33Part(an), an, bn, got[5]), cls |-> 0]
    [] alg = "toom42" -> [formed |-> Toom5Formed(Toom42Part(an, bn), an + bn, got),
                          lanes |-> ToomLanes(Toom42Part(an, bn), an, bn, got[5]), cls |-> 0]
    [] alg = "stripmine" -> LET x == StripLanes(an, bn, got)
                            IN  [formed |-> {x}, lanes |-> x, cls |-> 0]

-----------------------------------------------------------------------------
(* The recursion *)

NoResult == [cls |-> 0]
Empty == [cls |-> 0, lo |-> << >>, hi |-> << >>]

Frame(c) == [alg |-> c.alg, an |-> c.an, bn |-> c.bn, canon |-> c.canon,
             calls |-> << >>, got |-> << >>]
Top == stack[Len(stack)]
Below == SubSeq(stack, 1, Len(stack) - 1)

Init ==
  /\ \E s \in Shapes : stack = <<Frame(Call("dispatch", s[1], s[2], FALSE))>>
  /\ result = NoResult /\ peak = 0

(* mul_u52_dispatch: an empty operand, or the larger one first and a choice. *)
Ordered(f) == IF f.an < f.bn THEN <<f.bn, f.an>> ELSE <<f.an, f.bn>>

(* The shortfalls of a call's two differences are its own. *)
Shortfalls == Gaps[Least(Len(stack), Len(Gaps))]

Dispatch ==
  LET s == Ordered(Top)
      alg == Choice(s[1], s[2])
  IN  /\ stack # << >> /\ result = NoResult
      /\ Top.alg = "dispatch"
      /\ IF 0 \in {Top.an, Top.bn}
         THEN stack' = Below /\ result' = Empty
         ELSE /\ \E gaps \in Shortfalls :
                   stack' = Append(Below, [Frame(Call(alg, s[1], s[2], Top.canon))
                                             EXCEPT !.calls = Calls(alg, s[1], s[2], gaps)])
              /\ UNCHANGED result
      /\ UNCHANGED peak

(* mul_u52_stripmine calls mul_u52_toom42 itself. *)
Toom42Directly ==
  /\ stack # << >> /\ result = NoResult
  /\ Top.alg = "toom42" /\ Top.calls = << >>
  /\ \E gaps \in Shortfalls :
       stack' = Append(Below, [Top EXCEPT !.calls = Calls("toom42", Top.an, Top.bn, gaps)])
  /\ UNCHANGED <<result, peak>>

Recurse ==
  /\ stack # << >> /\ result = NoResult
  /\ Len(Top.got) < Len(Top.calls)
  /\ stack' = Append(stack, Frame(Top.calls[Len(Top.got) + 1]))
  /\ UNCHANGED <<result, peak>>

(* mul_u52_dispatch_canon canonicalizes what is reported as class 1. *)
Canonicalized(p, f) ==
  IF f.canon /\ p.cls = 1
  THEN [cls |-> 0, lo |-> Canonical(f.an + f.bn).lo, hi |-> Canonical(f.an + f.bn).hi]
  ELSE [cls |-> p.cls, lo |-> p.lanes.lo, hi |-> p.lanes.hi]

Return ==
  LET p == Product(Top.alg, Top.an, Top.bn, Top.got)
      q == Canonicalized(p, Top)
  IN  /\ stack # << >> /\ result = NoResult
      /\ Top.alg # "dispatch" /\ Len(Top.got) = Len(Top.calls)
      /\ Top.alg = "toom42" => Top.calls # << >>
      /\ result' = q
      /\ peak' = Max({Width(x) : x \in p.formed})
      /\ stack' = Below

Receive ==
  /\ stack # << >> /\ result # NoResult
  /\ stack' = Append(Below, [Top EXCEPT !.got = Append(@, result)])
  /\ result' = NoResult
  /\ UNCHANGED peak

Next == Dispatch \/ Toom42Directly \/ Recurse \/ Return \/ Receive

Spec == Init /\ [][Next]_vars

-----------------------------------------------------------------------------
(* Properties *)

(* The class tells the truth at every level of the recursion: no lane of a  *)
(* product reported as class 0 can be negative, for its consumer resolves it *)
(* with the positive chain or not at all.                                    *)
ClassHonest ==
  (result # NoResult /\ result.cls = 0) =>
    \A j \in DOMAIN result.lo : result.lo[j] >= 0

(* No recomposition leaves the signed word: not the lanes a karatsuba adds    *)
(* up, with the operand its fold applies, and not the points of a toom, at    *)
(* their sums before a halving and as they are stacked for the last fold.     *)
LaneBudget == peak < Budget

(* Every algorithm gets a shape it is written for - its assertions, and the *)
(* larger operand first -, every strip after the first fits the buffer of   *)
(* 4 bn limbs it is computed in, and a call is smaller than its caller, so  *)
(* the recursion ends.                                                      *)
Size(f) == f.an + f.bn
ShapeFits(alg, an, bn) ==
  /\ alg # "dispatch" => an >= bn /\ bn > 0
  /\ alg = "toom32" => Toom32Shape(an, bn)
  /\ alg = "toom42" => Toom42Shape(an, bn)
  /\ alg = "toom33" => Toom33Shape(an, bn)
StripsFit(f) ==
  f.alg = "stripmine" =>
    \A j \in 2 .. Len(f.calls) : Size(f.calls[j]) <= Vector * ((4 * f.bn + Vector - 1) \div Vector)
CallsWellFormed ==
  \A k \in 1 .. Len(stack) :
    /\ ShapeFits(stack[k].alg, stack[k].an, stack[k].bn)
    /\ StripsFit(stack[k])
    /\ k > 1 => Size(stack[k]) < Size(stack[k - 1])
=============================================================================
