----------------------------- MODULE MulShapes -----------------------------
(***************************************************************************)
(* How the recursive multiplications of include/mul.h cut their operands   *)
(* of an and bn limbs (an >= bn), and the shapes each one is written for.  *)
(***************************************************************************)
EXTENDS Integers, Sequences

Least(a, b) == IF a < b THEN a ELSE b
Most(a, b) == IF a > b THEN a ELSE b

(* Karatsuba: the low part of both operands; without a high part of b it is *)
(* a basecase product.                                                      *)
Split(an) == an \div 2
TooThin(an, bn) == Split(an) = 0 \/ bn <= Split(an)

(* The part of n limbs all pieces but the top ones have. *)
Toom32Part(an, bn) == IF 2 * an >= 3 * bn THEN (an + 2) \div 3 ELSE (bn + 1) \div 2
Toom42Part(an, bn) == IF an >= 2 * bn THEN (an + 3) \div 4 ELSE (bn + 1) \div 2
Toom33Part(an) == (an + 2) \div 3

(* u52_toom32_shape_ok, u52_toom42_shape_ok, u52_toom33_shape_ok: the top   *)
(* pieces, of s and t limbs, exist and are no longer than the others.       *)
Toom32Shape(an, bn) ==
  LET n == Toom32Part(an, bn)  s == an - 2 * n  t == bn - n
  IN  n >= 2 /\ 0 < s /\ s <= n /\ 0 < t /\ t <= n /\ s + t > n /\ s + t >= 3
Toom42Shape(an, bn) ==
  LET n == Toom42Part(an, bn)  s == an - 3 * n  t == bn - n
  IN  n >= 2 /\ 0 < s /\ s <= n /\ 0 < t /\ t <= n
Toom33Shape(an, bn) ==
  LET n == Toom33Part(an)  s == an - 2 * n  t == bn - 2 * n
  IN  n >= 2 /\ 0 < s /\ s <= n /\ 0 < t /\ t <= n

(* mul_u52_stripmine cuts a into strips about 2 bn wide; when the last of   *)
(* them would be a sliver, into strips of nearly equal widths instead.      *)
Sliver == 8
Equalized(an, bn) == an % (2 * bn) <= Sliver /\ (an + bn) \div (2 * bn) >= 2
Strips_remainder_too_wide(an, bn) ==
  LET full == Most(1, (an - bn) \div (2 * bn) - 1)
  IN  [k \in 1 .. full + 1 |-> IF k <= full THEN 2 * bn ELSE an - full * 2 * bn]
Strips(an, bn) ==
  LET blocks == (an + bn) \div (2 * bn)
      full == Most(1, (an - bn) \div (2 * bn))    \* while at least 3 bn are left
  IN  IF Equalized(an, bn)
      THEN [k \in 1 .. blocks |-> an \div blocks + (IF k <= an % blocks THEN 1 ELSE 0)]
      ELSE [k \in 1 .. full + 1 |-> IF k <= full THEN 2 * bn ELSE an - full * 2 * bn]

(* Where strip k starts. *)
StripStart(an, bn, k) ==
  LET w == Strips(an, bn)
      upto[i \in 1 .. Len(w)] == IF i = 1 THEN 0 ELSE upto[i - 1] + w[i - 1]
  IN  upto[k]
=============================================================================
