---------------------------- MODULE DigitNumbers ----------------------------
(* Numbers as their digits, whatever the vectors they are kept in. *)
EXTENDS Integers

(* The number with f[0], ..., f[k-1] as digits of the given base. *)
Number(f, k, base) ==
  LET from[j \in 0 .. k] == IF j = k THEN 0 ELSE f[j] + base * from[j + 1]
  IN  from[0]

(* base^k, written out so that it can be reasoned about. *)
Power(base, k) ==
  LET p[j \in 0 .. k] == IF j = 0 THEN 1 ELSE base * p[j - 1]
  IN  p[k]

Bit(m, l) == (m \div Power(2, l)) % 2 = 1

Masked(v, mask) == [l \in DOMAIN v |-> IF l \in mask THEN v[l] ELSE 0]
=============================================================================
