----------------------------- MODULE LaneProofs -----------------------------
(***************************************************************************)
(* The carry chains of include/canon.h and include/types.h are exact for   *)
(* vectors of every length, digits of every even base and every headroom   *)
(* below it: one addition of comparison masks ripples all the carries of a *)
(* vector, and canonize and canonneg keep the number while they make its   *)
(* lanes digits.                                                           *)
(***************************************************************************)
EXTENDS Lanes, NumberProofs, TLAPS

-----------------------------------------------------------------------------
(* Rippled carries.  IsCarries: the carry into every lane, and out of the top *)
(* one, when gen produces carries and prop passes them on.                    *)

IsCarries(c, gen, prop, cin, n) ==
  c = [l \in 0 .. n |-> IF l = 0 THEN cin
                        ELSE IF l - 1 \in gen THEN 1
                        ELSE IF l - 1 \in prop THEN c[l - 1] ELSE 0]

CarryStep(c, gen, prop, l) ==
  /\ l \in gen => c[l + 1] = 1
  /\ l \in prop \ gen => c[l + 1] = c[l]
  /\ l \notin gen \cup prop => c[l + 1] = 0

LEMMA CarriesExist ==
  ASSUME NEW gen, NEW prop, NEW cin, NEW n \in Nat
  PROVE  \E c : IsCarries(c, gen, prop, cin, n)
<1> DEFINE T == {k \in Nat : \E c : IsCarries(c, gen, prop, cin, k)}
<1>1. 0 \in T
  <2> DEFINE c == [l \in 0 .. 0 |-> cin]
  <2>1. IsCarries(c, gen, prop, cin, 0)
    BY DEF IsCarries
  <2> QED BY <2>1
<1>2. ASSUME NEW k \in Nat, k \in T PROVE k + 1 \in T
  <2>1. PICK c : IsCarries(c, gen, prop, cin, k)
    BY <1>2
  <2> DEFINE d == [l \in 0 .. k + 1 |-> IF l = 0 THEN cin
                                        ELSE IF l - 1 \in gen THEN 1
                                        ELSE IF l - 1 \in prop THEN c[l - 1] ELSE 0]
  <2>2. \A l \in 0 .. k : d[l] = c[l]
    BY <2>1 DEF IsCarries
  <2>3. d = [l \in 0 .. k + 1 |-> IF l = 0 THEN cin
                                  ELSE IF l - 1 \in gen THEN 1
                                  ELSE IF l - 1 \in prop THEN d[l - 1] ELSE 0]
    <3>1. \A l \in 0 .. k + 1 : l # 0 => l - 1 \in 0 .. k
      OBVIOUS
    <3>2. \A l \in 0 .. k + 1 : l # 0 => d[l - 1] = c[l - 1]
      BY <2>2, <3>1
    <3> QED BY <3>2
  <2> HIDE DEF d
  <2>4. IsCarries(d, gen, prop, cin, k + 1)
    BY <2>3 DEF IsCarries
  <2> QED BY <2>4
<1>3. n \in T
  <2> HIDE DEF T
  <2>1. T \subseteq Nat
    BY DEF T
  <2> QED BY <1>1, <1>2, <2>1, ByInduction
<1> QED BY <1>3

BitCarries(c, gen, prop, cin, n) ==
  /\ c[0] = cin /\ \A l \in 0 .. n : c[l] \in {0, 1}
  /\ \A l \in 0 .. n - 1 : CarryStep(c, gen, prop, l)

LEMMA CarriesAreBits ==
  ASSUME NEW gen, NEW prop, NEW cin \in {0, 1}, NEW n \in Nat, NEW c, IsCarries(c, gen, prop, cin, n)
  PROVE  BitCarries(c, gen, prop, cin, n)
<1>1. /\ c[0] = cin
      /\ \A l \in 0 .. n - 1 : CarryStep(c, gen, prop, l)
  BY DEF IsCarries, CarryStep
<1> DEFINE T == {k \in Nat : k <= n => c[k] \in {0, 1}}
<1>2. 0 \in T
  BY <1>1
<1>3. ASSUME NEW k \in Nat, k \in T PROVE k + 1 \in T
  BY <1>1, <1>3 DEF CarryStep
<1>4. \A k \in Nat : k \in T
  <2> HIDE DEF T
  <2>1. T \subseteq Nat
    BY DEF T
  <2> QED BY <1>2, <1>3, <2>1, ByInduction
<1> QED BY <1>1, <1>4 DEF BitCarries

(* The addition of the two masks carries exactly where the lanes do: it      *)
(* differs from prop where a carry comes in, and its top bit is the carry    *)
(* out of the vector.                                                        *)
LEMMA RippleRight ==
  ASSUME NEW gen, NEW prop, NEW cin \in {0, 1}, gen \cap prop = {},
         NEW c, IsCarries(c, gen, prop, cin, L)
  PROVE  /\ Ripple(gen, prop, cin).out = c[L]
         /\ \A l \in Lane : l \in Ripple(gen, prop, cin).into <=> c[l] = 1
<1> DEFINE p == [l \in Lane |-> IF l \in prop THEN 1 ELSE 0]
           g == [l \in Lane |-> IF l \in gen THEN 1 ELSE 0]
           s == [l \in Lane |-> p[l] + 2 * g[l]]
           b == [l \in Lane |-> IF (l \in prop) # (c[l] = 1) THEN 1 ELSE 0]
           x == MaskInt(prop) + 2 * MaskInt(gen) + cin
           two == 2
<1> HIDE DEF p, g, s, b, x, two
<1>1. L \in Nat /\ L > 0 /\ Lane = 0 .. L - 1 /\ two \in Nat /\ two > 0
  BY LanesAssumption DEF Lane, two
<1>2. /\ \A l \in 0 .. L : c[l] \in {0, 1}
      /\ c[0] = cin
      /\ \A l \in 0 .. L - 1 : CarryStep(c, gen, prop, l)
  <2>1. BitCarries(c, gen, prop, cin, L)
    BY <1>1, CarriesAreBits
  <2> QED BY <2>1 DEF BitCarries
<1>3. \A l \in 0 .. L - 1 : /\ p[l] \in Int /\ g[l] \in Int /\ s[l] \in Int /\ b[l] \in 0 .. two - 1
                            /\ b[l] \in Int /\ s[l] = p[l] + two * g[l]
  BY <1>1 DEF p, g, s, b, two
<1>4. \A l \in 0 .. L - 1 : b[l] + two * c[l + 1] = s[l] + c[l]
  BY <1>1, <1>2 DEF p, g, s, b, two, CarryStep
<1>5. L \in 0 .. L /\ \A l \in 0 .. L : c[l] \in Int
  BY <1>1, <1>2
<1>6. MaskInt(prop) = Number(p, L, two) /\ MaskInt(gen) = Number(g, L, two)
  BY DEF MaskInt, p, g, two
<1>7. \A l \in Lane : b[l] = 1 <=> ((l \in prop) # (c[l] = 1))
  BY DEF b
<1>8. Number(b, L, two) + Power(two, L) * c[L] = Number(s, L, two) + c[0]
  <2>1. Exchanges(b, s, c, two, L)
    BY <1>3, <1>4, <1>5 DEF Exchanges
  <2> QED BY <1>1, <2>1, Telescope
<1>9. Number(s, L, two) = Number(p, L, two) + two * Number(g, L, two)
  BY SMTT(40), <1>1, <1>3, NumberLinear
<1>10. x = Number(b, L, two) + Power(two, L) * c[L]
  BY <1>2, <1>6, <1>8, <1>9 DEF x, two
<1>11. c[L] \in Int /\ \A l \in 0 .. L - 1 : b[l] \in 0 .. two - 1
  BY <1>1, <1>3, <1>5
<1>12. x \div Power(two, L) = c[L] /\ \A l \in 0 .. L - 1 : (x \div Power(two, l)) % two = b[l]
  BY SMTT(40), <1>1, <1>10, <1>11, DigitOf
<1>13. /\ Ripple(gen, prop, cin).out = x \div Power(two, L)
       /\ Ripple(gen, prop, cin).into = {l \in Lane : (l \in prop) # ((x \div Power(two, l)) % two = 1)}
  BY DEF Ripple, Bit, x, two
<1>14. ASSUME NEW l \in Lane PROVE l \in Ripple(gen, prop, cin).into <=> c[l] = 1
  <2>1. l \in Ripple(gen, prop, cin).into <=> ((l \in prop) # ((x \div Power(two, l)) % two = 1))
    BY <1>13
  <2>2. (x \div Power(two, l)) % two = b[l]
    BY <1>1, <1>12
  <2> QED BY <1>7, <2>1, <2>2
<1> QED BY <1>12, <1>13, <1>14

-----------------------------------------------------------------------------
(* Lanes that carry or borrow at most once.  k: what comes into each lane. *)

LEMMA Parameters ==
  /\ L \in Nat /\ L > 0 /\ Lane = 0 .. L - 1 /\ L \in 0 .. L /\ L - 1 \in Lane /\ 0 \in Lane
  /\ B \in Nat /\ B >= 2 /\ H \in Nat /\ H >= 2 /\ H < B /\ MASK52 = B - 1
  /\ Width \in Nat /\ Width = B * H /\ Width >= 2 * B /\ Width >= B + H
<1>1. /\ L \in Nat /\ L > 0 /\ Lane = 0 .. L - 1
      /\ B \in Nat /\ B >= 2 /\ H \in Nat /\ H >= 2 /\ H < B /\ MASK52 = B - 1
  BY LanesAssumption DEF Lane, MASK52
<1>2. B * H \in Nat /\ B * H >= B * 2
  BY <1>1
<1> QED BY <1>1, <1>2 DEF Width

Carried(k, t, d, cin) ==
  /\ k[0] = cin /\ \A l \in 0 .. L : k[l] \in {0, 1}
  /\ \A l \in Lane : d[l] \in 0 .. B - 1 /\ d[l] + B * k[l + 1] = t[l] + k[l]

Borrowed(k, s, d, bin) ==
  /\ k[0] = bin /\ \A l \in 0 .. L : k[l] \in {0, 1}
  /\ \A l \in Lane : d[l] \in 0 .. B - 1 /\ d[l] - B * k[l + 1] = s[l] - k[l]

LEMMA DigitMod ==
  ASSUME NEW x \in Int, NEW q \in Int, x - B * q \in 0 .. B - 1
  PROVE  x % B = x - B * q
<1> DEFINE r == x - B * q
<1>1. B \in Nat /\ B > 0 /\ B * q \in Int /\ r \in Int /\ r \in 0 .. B - 1
  BY Parameters
<1>2. x = B * q + r
  BY <1>1
<1> HIDE DEF r
<1>3. x % B = r
  BY <1>1, <1>2, Quotient
<1> QED BY <1>3 DEF r

LEMMA CarryDigit ==
  ASSUME NEW x \in Int, 0 <= x, x <= 2 * B - 2, NEW u \in {0, 1},
         NEW v, v = IF x + u >= B THEN 1 ELSE 0
  PROVE  LET d == (IF u = 1 THEN x - (B - 1) ELSE x) % B
         IN  d \in 0 .. B - 1 /\ d + B * v = x + u
<1> DEFINE y == IF u = 1 THEN x - (B - 1) ELSE x
           q == IF u = 1 THEN (IF x + u >= B THEN 0 ELSE -1) ELSE (IF x + u >= B THEN 1 ELSE 0)
<1>1. y \in Int /\ q \in Int /\ y - B * q = x + u - B * v /\ y - B * q \in 0 .. B - 1
  <2>1. B * 0 = 0 /\ B * 1 = B /\ B * (-1) = -B
    BY Parameters
  <2> QED BY <2>1, Parameters
<1> HIDE DEF y, q
<1>2. y % B = x + u - B * v
  BY <1>1, DigitMod
<1>3. B * v \in Int
  BY Parameters
<1> QED BY <1>1, <1>2, <1>3, Parameters DEF y

CarryRipple(t, cin) == Ripple(Above(t, MASK52), Equal(t, MASK52), cin)
WithCarry(t, ripple) == [l \in Lane |-> (IF l \in ripple.into THEN t[l] - MASK52 ELSE t[l]) % B]

LEMMA CarriesResolved ==
  ASSUME NEW t \in [Lane -> 0 .. 2 * B - 2], NEW cin \in {0, 1}
  PROVE  \E k : Carried(k, t, WithCarry(t, CarryRipple(t, cin)), cin) /\ CarryRipple(t, cin).out = k[L]
<1> DEFINE gen == Above(t, MASK52)  prop == Equal(t, MASK52)  r == Ripple(gen, prop, cin)
           d == WithCarry(t, r)
<1>1. /\ \A l \in Lane : l \in gen <=> t[l] > B - 1
      /\ \A l \in Lane : l \in prop <=> t[l] = B - 1
      /\ gen \cap prop = {}
  BY Parameters DEF Above, Equal
<1>2. r = CarryRipple(t, cin)
  BY DEF CarryRipple
<1> HIDE DEF gen, prop, r
<1>3. PICK k : IsCarries(k, gen, prop, cin, L)
  BY Parameters, CarriesExist
<1>4. r.out = k[L] /\ \A l \in Lane : l \in r.into <=> k[l] = 1
  BY <1>1, <1>3, RippleRight DEF r
<1>5. k[0] = cin /\ (\A l \in 0 .. L : k[l] \in {0, 1}) /\ \A l \in 0 .. L - 1 : CarryStep(k, gen, prop, l)
  <2>1. L \in Nat
    BY Parameters
  <2>2. BitCarries(k, gen, prop, cin, L)
    BY <1>3, <2>1, CarriesAreBits
  <2> QED BY <2>2 DEF BitCarries
<1>6. ASSUME NEW l \in Lane
      PROVE  d[l] \in 0 .. B - 1 /\ d[l] + B * k[l + 1] = t[l] + k[l]
  <2> DEFINE x == t[l]  u == k[l]  v == k[l + 1]
  <2>1. x \in Int /\ 0 <= x /\ x <= 2 * B - 2
    BY Parameters
  <2>2. l \in 0 .. L - 1 /\ l \in 0 .. L /\ u \in {0, 1} /\ CarryStep(k, gen, prop, l)
    BY <1>5, Parameters
  <2>3. v = IF x + u >= B THEN 1 ELSE 0
    <3>1. /\ x > B - 1 => v = 1
          /\ x = B - 1 => v = u
          /\ x < B - 1 => v = 0
      BY <1>1, <2>1, <2>2, Parameters DEF CarryStep
    <3> QED BY SMTT(40), <2>1, <2>2, <3>1, Parameters
  <2>4. d[l] = (IF u = 1 THEN x - (B - 1) ELSE x) % B
    BY <1>4, Parameters DEF WithCarry
  <2> HIDE DEF x, u, d, v
  <2>5. d[l] \in 0 .. B - 1 /\ d[l] + B * v = x + u
    BY <2>1, <2>2, <2>3, <2>4, CarryDigit
  <2> QED BY <2>5 DEF x, u, v
<1>7. Carried(k, t, d, cin)
  BY <1>5, <1>6 DEF Carried
<1> QED BY <1>2, <1>4, <1>7

LEMMA BorrowDigit ==
  ASSUME NEW x \in Int, -(B - 1) <= x, x <= B - 1, NEW u \in {0, 1},
         NEW v, v = IF x - u < 0 THEN 1 ELSE 0
  PROVE  LET d == (IF u = 1 THEN Word(x) + (B - 1) ELSE Word(x)) % B
         IN  d \in 0 .. B - 1 /\ d - B * v = x - u
<1>1. Word(x) = IF x < 0 THEN x + Width ELSE x
  <2>1. CASE x < 0
    <3>1. x = Width * (-1) + (x + Width) /\ x + Width \in 0 .. Width - 1 /\ Width \in Nat /\ Width > 0
      BY <2>1, Parameters
    <3>2. x % Width = x + Width
      BY <3>1, Quotient
    <3> QED BY <2>1, <3>2 DEF Word
  <2>2. CASE x >= 0
    <3>1. x = Width * 0 + x /\ x \in 0 .. Width - 1 /\ Width \in Nat /\ Width > 0
      BY <2>2, Parameters
    <3>2. x % Width = x
      BY <3>1, Quotient
    <3> QED BY <2>2, <3>2 DEF Word
  <2> QED BY <2>1, <2>2
<1> DEFINE y == IF u = 1 THEN Word(x) + (B - 1) ELSE Word(x)
           q == (IF x < 0 THEN H ELSE 0) + (IF u = 1 THEN 1 ELSE 0) - v
<1>2. y \in Int /\ q \in Int /\ y - B * q = x - u + B * v /\ y - B * q \in 0 .. B - 1
  <2>1. B * q = (IF x < 0 THEN Width ELSE 0) + (IF u = 1 THEN B ELSE 0) - B * v
    <3>1. B * 0 = 0 /\ B * 1 = B
      BY Parameters
    <3>2. CASE x < 0
      <4>1. B * (H + (IF u = 1 THEN 1 ELSE 0) - v) = B * H + B * (IF u = 1 THEN 1 ELSE 0) - B * v
        BY Parameters
      <4> QED BY <3>1, <3>2, <4>1, Parameters
    <3>3. CASE x >= 0
      <4>1. B * (0 + (IF u = 1 THEN 1 ELSE 0) - v) = B * (IF u = 1 THEN 1 ELSE 0) - B * v
        BY Parameters
      <4> QED BY <3>1, <3>3, <4>1, Parameters
    <3> QED BY <3>2, <3>3
  <2>2. B * v = IF x - u < 0 THEN B ELSE 0
    BY Parameters
  <2>3. q \in Int
    BY Parameters
  <2> HIDE DEF q
  <2> QED BY <1>1, <2>1, <2>2, <2>3, Parameters
<1> HIDE DEF y, q
<1>3. y % B = x - u + B * v
  BY <1>2, DigitMod
<1>4. B * v \in Int
  BY Parameters
<1> QED BY <1>2, <1>3, <1>4, Parameters DEF y

BorrowRipple(w, bin) == Ripple(Above(w, MASK52), Equal(w, 0), bin)
WithBorrow(w, ripple) == [l \in Lane |-> (IF l \in ripple.into THEN w[l] + MASK52 ELSE w[l]) % B]

LEMMA BorrowsResolved ==
  ASSUME NEW s \in [Lane -> -(B - 1) .. B - 1], NEW bin \in {0, 1}, NEW w, w = [l \in Lane |-> Word(s[l])]
  PROVE  \E k : Borrowed(k, s, WithBorrow(w, BorrowRipple(w, bin)), bin) /\ BorrowRipple(w, bin).out = k[L]
<1> DEFINE gen == Above(w, MASK52)  prop == Equal(w, 0)  r == Ripple(gen, prop, bin)
           d == WithBorrow(w, r)
<1>1. ASSUME NEW l \in Lane
      PROVE  /\ s[l] \in Int /\ -(B - 1) <= s[l] /\ s[l] <= B - 1
             /\ w[l] = Word(s[l]) /\ w[l] = IF s[l] < 0 THEN s[l] + Width ELSE s[l]
  <2> DEFINE x == s[l]
  <2>1. x \in Int /\ -(B - 1) <= x /\ x <= B - 1
    BY Parameters
  <2> HIDE DEF x
  <2>2. Word(x) = IF x < 0 THEN x + Width ELSE x
    <3>1. x = Width * (IF x < 0 THEN -1 ELSE 0) + (IF x < 0 THEN x + Width ELSE x)
      BY SMTT(40), <2>1, Parameters
    <3>2. (IF x < 0 THEN x + Width ELSE x) \in 0 .. Width - 1 /\ Width \in Nat /\ Width > 0
      BY <2>1, Parameters
    <3>3. x % Width = IF x < 0 THEN x + Width ELSE x
      BY <2>1, <3>1, <3>2, Quotient
    <3> QED BY <3>3 DEF Word
  <2> QED BY <2>1, <2>2 DEF x
<1>2. /\ \A l \in Lane : l \in gen <=> s[l] < 0
      /\ \A l \in Lane : l \in prop <=> s[l] = 0
      /\ gen \cap prop = {}
  <2>1. ASSUME NEW l \in Lane
        PROVE  (w[l] > MASK52 <=> s[l] < 0) /\ (w[l] = 0 <=> s[l] = 0)
    <3> DEFINE u == s[l]  v == w[l]
    <3>1. u \in Int /\ -(B - 1) <= u /\ u <= B - 1 /\ v = IF u < 0 THEN u + Width ELSE u
      BY <1>1
    <3>2. Width \in Nat /\ Width >= 2 * B /\ B \in Nat /\ B >= 2 /\ MASK52 = B - 1
      BY Parameters
    <3> HIDE DEF u, v
    <3>3. (v > MASK52 <=> u < 0) /\ (v = 0 <=> u = 0)
      BY <3>1, <3>2
    <3> QED BY <3>3 DEF u, v
  <2> QED BY <2>1 DEF Above, Equal
<1>3. r = BorrowRipple(w, bin)
  BY DEF BorrowRipple
<1> HIDE DEF gen, prop, r
<1>4. PICK k : IsCarries(k, gen, prop, bin, L)
  BY Parameters, CarriesExist
<1>5. r.out = k[L] /\ \A l \in Lane : l \in r.into <=> k[l] = 1
  BY <1>2, <1>4, RippleRight DEF r
<1>6. k[0] = bin /\ (\A l \in 0 .. L : k[l] \in {0, 1}) /\ \A l \in 0 .. L - 1 : CarryStep(k, gen, prop, l)
  <2>1. L \in Nat
    BY Parameters
  <2>2. BitCarries(k, gen, prop, bin, L)
    BY <1>4, <2>1, CarriesAreBits
  <2> QED BY <2>2 DEF BitCarries
<1>7. ASSUME NEW l \in Lane
      PROVE  d[l] \in 0 .. B - 1 /\ d[l] - B * k[l + 1] = s[l] - k[l]
  <2> DEFINE x == s[l]  u == k[l]  v == k[l + 1]
  <2>1. x \in Int /\ -(B - 1) <= x /\ x <= B - 1 /\ w[l] = Word(x)
    BY <1>1
  <2>2. l \in 0 .. L - 1 /\ l \in 0 .. L /\ u \in {0, 1} /\ CarryStep(k, gen, prop, l)
    BY <1>6, Parameters
  <2>3. v = IF x - u < 0 THEN 1 ELSE 0
    BY <1>2, <2>1, <2>2, Parameters DEF CarryStep
  <2>4. d[l] = (IF u = 1 THEN Word(x) + (B - 1) ELSE Word(x)) % B
    BY <1>5, <2>1, Parameters DEF WithBorrow
  <2> HIDE DEF x, u, d, v
  <2>5. d[l] \in 0 .. B - 1 /\ d[l] - B * v = x - u
    BY <2>1, <2>2, <2>3, <2>4, BorrowDigit
  <2> QED BY <2>5 DEF x, u, v
<1>8. Borrowed(k, s, d, bin)
  BY <1>6, <1>7 DEF Borrowed
<1> QED BY <1>3, <1>5, <1>8

-----------------------------------------------------------------------------
(* The two chains *)

IsWord(x) == x \in Int /\ 0 <= x /\ x < Width
WordLanes(v) == v = [l \in Lane |-> v[l]] /\ \A l \in Lane : IsWord(v[l])
DigitLanes(v) == v = [l \in Lane |-> v[l]] /\ \A l \in Lane : v[l] \in 0 .. B - 1

PosChain(c) == c.hi \in 0 .. H - 1 /\ c.bw = 0 /\ c.cin \in {0, 1} /\ c.bin = 0
NegChain(c) == c.hi \in 0 .. H - 1 /\ c.bw \in {0, H} /\ c.cin \in {0, 1} /\ c.bin \in {0, 1}

LEMMA WordParts ==
  ASSUME NEW x, IsWord(x)
  PROVE  /\ x \div B \in 0 .. H - 1 /\ x % B \in 0 .. B - 1
         /\ x = B * (x \div B) + (x % B)
<1> DEFINE q == x \div B  r == x % B
<1>1. x \in Int /\ 0 <= x /\ x < B * H /\ B \in Nat /\ B > 0 /\ H \in Nat
  BY Parameters DEF IsWord
<1>2. q \in Int /\ r \in 0 .. B - 1 /\ x = B * q + r
  BY <1>1
<1> HIDE DEF q, r
<1>3. q >= 0
  <2>1. SUFFICES ASSUME q <= -1 PROVE FALSE
    BY <1>2
  <2>2. B * q <= -B
    BY <1>1, <1>2, <2>1
  <2> QED BY <1>1, <1>2, <2>2
<1>4. q <= H - 1
  <2>1. SUFFICES ASSUME q >= H PROVE FALSE
    BY <1>1, <1>2
  <2>2. B * q >= B * H
    BY <1>1, <1>2, <2>1
  <2> QED BY <1>1, <1>2, <2>2
<1> QED BY <1>1, <1>2, <1>3, <1>4 DEF q, r

(* What canonize does to each lane.  up: the headroom that moves into it. *)
CanonizedLanes(v, c, k, up) ==
  LET r == Canonize(v, c)
  IN  /\ up = [l \in 0 .. L |-> IF l = 0 THEN c.hi ELSE v[l - 1] \div B]
      /\ \A l \in 0 .. L : up[l] \in 0 .. H - 1
      /\ k[0] = c.cin /\ \A l \in 0 .. L : k[l] \in {0, 1}
      /\ \A l \in Lane : r.vec[l] \in 0 .. B - 1 /\ r.vec[l] + B * k[l + 1] = (v[l] % B) + up[l] + k[l]
      /\ r.vec = [l \in Lane |-> r.vec[l]]
      /\ r.chain.hi = up[L] /\ r.chain.cin = k[L] /\ r.chain.bw = 0 /\ r.chain.bin = 0

LEMMA CanonizeLanes ==
  ASSUME NEW v, WordLanes(v), NEW c, PosChain(c)
  PROVE  \E k, up : CanonizedLanes(v, c, k, up)
<1> DEFINE up == [l \in 0 .. L |-> IF l = 0 THEN c.hi ELSE v[l - 1] \div B]
           t == [l \in Lane |-> (v[l] % B) + ShiftedUp(Headroom(v), c.hi)[l]]
           r == Canonize(v, c)
<1>1. \A l \in Lane : v[l] % B \in 0 .. B - 1 /\ v[l] \div B \in 0 .. H - 1
  BY WordParts DEF WordLanes
<1>2. \A l \in 0 .. L : up[l] \in 0 .. H - 1
  <2>1. ASSUME NEW l \in 0 .. L, l # 0 PROVE l - 1 \in Lane
    BY <2>1, Parameters
  <2> QED BY <1>1, <2>1 DEF PosChain
<1>3. \A l \in Lane : ShiftedUp(Headroom(v), c.hi)[l] = up[l]
  <2>1. \A l \in Lane : l \in 0 .. L /\ (l # 0 => l - 1 \in Lane)
    BY Parameters
  <2> QED BY <2>1 DEF ShiftedUp, Headroom
<1>4. \A l \in Lane : t[l] = (v[l] % B) + up[l]
  BY <1>3
<1>5. r.chain.hi = up[L]
  BY Parameters DEF Canonize, Headroom
<1>6. /\ r.vec = WithCarry(t, CarryRipple(t, c.cin)) /\ r.chain.cin = CarryRipple(t, c.cin).out
      /\ r.chain.bw = 0 /\ r.chain.bin = 0
  BY DEF Canonize, WithCarry, CarryRipple
<1>7. t \in [Lane -> 0 .. 2 * B - 2] /\ c.cin \in {0, 1}
  <2>1. ASSUME NEW l \in Lane PROVE t[l] \in 0 .. 2 * B - 2
    <3>1. v[l] % B \in 0 .. B - 1 /\ up[l] \in 0 .. H - 1
      BY <1>1, <1>2, Parameters
    <3> HIDE DEF up, t
    <3> QED BY <1>4, <3>1, Parameters
  <2> QED BY <2>1 DEF PosChain
<1> HIDE DEF t, up, r
<1>8. PICK k : Carried(k, t, WithCarry(t, CarryRipple(t, c.cin)), c.cin) /\ CarryRipple(t, c.cin).out = k[L]
  BY <1>7, CarriesResolved
<1>9. r.vec = [l \in Lane |-> r.vec[l]]
  BY <1>6 DEF WithCarry
<1>10. CanonizedLanes(v, c, k, up)
  <2>1. /\ k[0] = c.cin /\ \A l \in 0 .. L : k[l] \in {0, 1}
        /\ \A l \in Lane : r.vec[l] \in 0 .. B - 1 /\ r.vec[l] + B * k[l + 1] = (v[l] % B) + up[l] + k[l]
    BY <1>4, <1>6, <1>8 DEF Carried
  <2>2. up = [l \in 0 .. L |-> IF l = 0 THEN c.hi ELSE v[l - 1] \div B]
    BY DEF up
  <2>3. r.chain.cin = k[L]
    BY <1>6, <1>8
  <2> QED BY <1>2, <1>5, <1>6, <1>9, <2>1, <2>2, <2>3 DEF CanonizedLanes, r
<1> QED BY <1>10

(* canonize makes digits of unsigned lanes, for every vector and every carry *)
(* it is handed, and keeps the number: what the digits do not hold moves to  *)
(* the next vector.                                                          *)
THEOREM CanonizeExact ==
  ASSUME NEW v, WordLanes(v), NEW c, PosChain(c)
  PROVE  /\ DigitLanes(Canonize(v, c).vec) /\ PosChain(Canonize(v, c).chain)
         /\ Number(Canonize(v, c).vec, L, B) + Power(B, L) * ChainValue(Canonize(v, c).chain)
              = Number(v, L, B) + ChainValue(c)
<1> DEFINE d == Canonize(v, c).vec  e == Canonize(v, c).chain
<1>1. PICK k, up : CanonizedLanes(v, c, k, up)
  BY CanonizeLanes
<1> DEFINE m == [l \in 0 .. L |-> up[l] + k[l]]
<1>2. DigitLanes(d) /\ PosChain(e) /\ ChainValue(e) = m[L] /\ ChainValue(c) = m[0]
  <2>1. /\ 0 \in 0 .. L /\ L \in 0 .. L /\ m[L] = up[L] + k[L] /\ m[0] = up[0] + k[0]
    BY Parameters
  <2>2. /\ up[0] \in 0 .. H - 1 /\ up[L] \in 0 .. H - 1 /\ k[0] \in {0, 1} /\ k[L] \in {0, 1}
        /\ e.hi = up[L] /\ e.cin = k[L] /\ e.bw = 0 /\ e.bin = 0 /\ up[0] = c.hi /\ k[0] = c.cin
    BY <1>1, <2>1 DEF CanonizedLanes
  <2>3. DigitLanes(d)
    BY <1>1 DEF CanonizedLanes, DigitLanes
  <2> HIDE DEF d, e, m
  <2>4. PosChain(e)
    BY <2>2 DEF PosChain
  <2>5. ChainValue(e) = up[L] - 0 + k[L] - 0
    BY <2>2 DEF ChainValue
  <2>6. ChainValue(c) = up[0] - 0 + k[0] - 0
    BY <2>2 DEF ChainValue, PosChain
  <2>7. up[L] \in Int /\ up[0] \in Int /\ k[L] \in Int /\ k[0] \in Int
    BY <2>2, Parameters
  <2> QED BY <2>1, <2>3, <2>4, <2>5, <2>6, <2>7
<1>3. Exchanges(d, v, m, B, L)
  <2>1. ASSUME NEW l \in 0 .. L - 1
        PROVE  d[l] \in Int /\ v[l] \in Int /\ d[l] + B * m[l + 1] = v[l] + m[l]
    <3> DEFINE x == v[l]  q == x \div B  r == x % B  u == k[l]  w == k[l + 1]  y == d[l]  a == up[l]
    <3>1. l \in Lane /\ l \in 0 .. L /\ l + 1 \in 0 .. L /\ l + 1 # 0 /\ (l + 1) - 1 = l
      BY Parameters
    <3>2. up[l + 1] = q /\ a \in Int /\ u \in Int /\ w \in Int /\ y \in Int /\ y + B * w = r + a + u
      BY SMTT(40), <1>1, <3>1 DEF CanonizedLanes
    <3>3. IsWord(x)
      BY <3>1 DEF WordLanes
    <3>4. m[l + 1] = up[l + 1] + w /\ m[l] = a + u
      BY <3>1
    <3> HIDE DEF d, u, w, y, m, x, a
    <3>5. q \in Int /\ r \in Int /\ x \in Int /\ x = B * q + r
      BY <3>3, WordParts DEF IsWord
    <3> HIDE DEF q, r
    <3>6. B * (q + w) = B * q + B * w /\ B * q \in Int /\ B * w \in Int
      BY <3>2, <3>5, Parameters
    <3>7. y + (B * q + B * w) = (B * q + r) + (a + u)
      BY <3>2, <3>5, <3>6
    <3>8. y + B * m[l + 1] = x + m[l]
      BY <3>2, <3>4, <3>5, <3>6, <3>7
    <3> QED BY <3>2, <3>5, <3>8 DEF x, y
  <2>2. \A l \in 0 .. L : m[l] \in Int
    BY <1>1 DEF CanonizedLanes
  <2> QED BY <2>1, <2>2 DEF Exchanges
<1> HIDE DEF m, d, e
<1>4. Number(d, L, B) + Power(B, L) * m[L] = Number(v, L, B) + m[0]
  BY <1>3, Parameters, Telescope
<1> QED BY <1>2, <1>4 DEF d, e

(* Above the last nonzero lane there is room for a carry: none leaves. *)
LEMMA CanonizeSettles ==
  ASSUME NEW v, WordLanes(v), NEW c, PosChain(c), NEW p \in Lane, \A l \in Lane : l >= p => v[l] = 0
  PROVE  /\ \A l \in Lane : l > p => Canonize(v, c).vec[l] = 0
         /\ ChainValue(Canonize(v, c).chain) = 0
<1> DEFINE d == Canonize(v, c).vec  e == Canonize(v, c).chain
<1>1. PICK k, up : CanonizedLanes(v, c, k, up)
  BY CanonizeLanes
<1>2. 0 % B = 0 /\ 0 \div B = 0
  BY Parameters
<1>3. /\ \A l \in 0 .. L : up[l] \in 0 .. H - 1 /\ k[l] \in {0, 1}
      /\ \A l \in Lane : d[l] \in 0 .. B - 1 /\ d[l] + B * k[l + 1] = (v[l] % B) + up[l] + k[l]
      /\ up = [l \in 0 .. L |-> IF l = 0 THEN c.hi ELSE v[l - 1] \div B]
      /\ e.hi = up[L] /\ e.cin = k[L] /\ e.bw = 0 /\ e.bin = 0
  BY <1>1 DEF CanonizedLanes
<1> HIDE DEF d, e
<1>4. \A l \in Lane : l >= p => /\ up[l + 1] = 0
                               /\ d[l] \in 0 .. B - 1 /\ d[l] + B * k[l + 1] = up[l] + k[l]
  <2> SUFFICES ASSUME NEW l \in Lane, l >= p
               PROVE  /\ up[l + 1] = 0
                      /\ d[l] \in 0 .. B - 1 /\ d[l] + B * k[l + 1] = up[l] + k[l]
    OBVIOUS
  <2>1. l \in 0 .. L /\ l + 1 \in 0 .. L /\ l + 1 # 0 /\ (l + 1) - 1 = l /\ v[l] = 0
    BY Parameters
  <2>2. up[l + 1] = 0
    BY <1>2, <1>3, <2>1
  <2>3. d[l] \in 0 .. B - 1 /\ d[l] + B * k[l + 1] = 0 + up[l] + k[l]
    <3>1. v[l] % B = 0
      BY <1>2, <2>1
    <3>2. d[l] \in 0 .. B - 1 /\ d[l] + B * k[l + 1] = (v[l] % B) + up[l] + k[l]
      BY <1>3
    <3> QED BY <3>1, <3>2
  <2>4. up[l] \in Int /\ k[l] \in Int
    BY <1>3, <2>1
  <2> QED BY <2>2, <2>3, <2>4
<1> DEFINE T == {l \in Nat : p < l /\ l <= L => k[l] = 0}
<1>5. 0 \in T
  BY Parameters
<1>6. ASSUME NEW l \in Nat, l \in T PROVE l + 1 \in T
  <2> SUFFICES ASSUME p < l + 1, l + 1 <= L PROVE k[l + 1] = 0
    OBVIOUS
  <2>1. l \in Lane /\ l >= p /\ l \in 0 .. L /\ l + 1 \in 0 .. L
    BY Parameters
  <2> DEFINE y == d[l]  u == k[l]  w == k[l + 1]  a == up[l]
  <2>2. y \in 0 .. B - 1 /\ y + B * w = a + u /\ w \in {0, 1} /\ u \in {0, 1} /\ a \in 0 .. H - 1
    BY <1>3, <1>4, <2>1
  <2> HIDE DEF y, u, w, a
  <2>3. SUFFICES ASSUME w = 1 PROVE FALSE
    BY <2>2 DEF w
  <2>4. B * w = B
    BY <2>3, Parameters
  <2> QED BY <2>2, <2>4, Parameters
<1>7. \A l \in Nat : l \in T
  <2> HIDE DEF T
  <2>1. T \subseteq Nat
    BY DEF T
  <2> QED BY <1>5, <1>6, <2>1, ByInduction
<1>8. ASSUME NEW l \in Lane, l > p PROVE d[l] = 0
  <2>1. l \in T /\ l + 1 \in T /\ l \in Nat /\ l + 1 <= L /\ l <= L /\ p < l + 1 /\ l - 1 \in Lane
        /\ l - 1 >= p /\ (l - 1) + 1 = l
    BY <1>7, <1>8, Parameters
  <2>2. k[l] = 0 /\ k[l + 1] = 0 /\ up[l] = 0
    BY <1>4, <1>8, <2>1
  <2>3. d[l] \in 0 .. B - 1 /\ d[l] + B * k[l + 1] = up[l] + k[l]
    BY <1>4, <1>8, Parameters
  <2>4. B * 0 = 0
    BY Parameters
  <2> QED BY <2>2, <2>3, <2>4
<1>9. k[L] = 0 /\ up[L] = 0
  <2>1. L \in T /\ p < L /\ L <= L
    BY <1>7, Parameters
  <2>2. L - 1 \in Lane /\ L - 1 >= p /\ (L - 1) + 1 = L
    BY Parameters
  <2> QED BY <1>4, <2>1, <2>2
<1>10. ChainValue(e) = 0
  BY <1>3, <1>9 DEF ChainValue
<1> QED BY <1>8, <1>10 DEF d, e

(* The parameters' halves. *)
LEMMA Halves ==
  \E h \in Nat, b \in Nat : /\ h > 0 /\ H = 2 * h /\ b > 0 /\ B = 2 * b
                            /\ Width \div 2 = B * h /\ b = B \div 2 /\ Width = 2 * (B * h)
<1> DEFINE h == H \div 2  b == B \div 2
<1>1. h \in Nat /\ h > 0 /\ H = 2 * h /\ b \in Nat /\ b > 0 /\ B = 2 * b
  BY LanesAssumption
<1> HIDE DEF h
<1>2. B * (2 * h) = 2 * (B * h) /\ B * h \in Int /\ B \in Nat
  BY <1>1
<1>3. Width = 2 * (B * h)
  BY <1>1, <1>2 DEF Width
<1> DEFINE y == B * h
<1> HIDE DEF y
<1>4. y \in Int /\ Width = 2 * y
  BY <1>2, <1>3 DEF y
<1>5. Width \div 2 = y
  BY <1>4
<1> QED BY <1>1, <1>3, <1>5 DEF y

(* A signed word is its digit and its headroom, less the debt of its sign. *)
LEMMA SignedParts ==
  ASSUME NEW x, IsWord(x)
  PROVE  /\ Signed(x) \in Int /\ Sign(x) \in {0, 1} /\ H * Sign(x) \in {0, H}
         /\ Signed(x) = B * (x \div B) + (x % B) - B * (H * Sign(x))
         /\ x \div B - H * Sign(x) \in -(H \div 2) .. (H \div 2) - 1
         /\ 2 * (H \div 2) = H /\ H \div 2 \in Nat
<1>1. PICK h \in Nat, b \in Nat : h > 0 /\ H = 2 * h /\ Width \div 2 = B * h
  BY Halves
<1> DEFINE q == x \div B  r == x % B  s == Sign(x)
<1>2. q \in 0 .. H - 1 /\ r \in 0 .. B - 1 /\ x = B * q + r /\ x \in Int
  BY WordParts DEF IsWord
<1>3. s = IF x >= B * h THEN 1 ELSE 0
  BY <1>1 DEF Sign
<1>4. Signed(x) = IF x >= B * h THEN x - B * H ELSE x
  BY <1>1 DEF Signed, Width
<1> HIDE DEF q, r, s
<1>5. B \in Nat /\ B > 0 /\ H \in Nat /\ B * h \in Int /\ B * H \in Int /\ B * 0 = 0 /\ H * 0 = 0 /\ H * 1 = H
  BY <1>1, Parameters
<1>6. CASE x >= B * h
  <2>1. q >= h
    <3>1. SUFFICES ASSUME q <= h - 1 PROVE FALSE
      BY <1>1, <1>2
    <3>2. B * q <= B * (h - 1) /\ B * (h - 1) = B * h - B
      BY <1>1, <1>2, <1>5, <3>1
    <3> QED BY <1>2, <1>5, <1>6, <3>2
  <2>2. s = 1 /\ H * s = H /\ Signed(x) = x - B * H
    BY <1>3, <1>4, <1>5, <1>6
  <2>3. q - H * s \in -h .. h - 1
    BY <1>1, <1>2, <2>1, <2>2
  <2>4. Signed(x) = B * q + r - B * (H * s)
    <3>1. B * (H * s) = B * H /\ B * q \in Int
      BY <1>2, <1>5, <2>2
    <3> QED BY <1>2, <1>5, <2>2, <3>1
  <2>5. H \div 2 = h
    BY <1>1
  <2> QED BY <1>1, <1>2, <1>5, <2>2, <2>3, <2>4, <2>5 DEF q, r, s
<1>7. CASE x < B * h
  <2>1. q <= h - 1
    <3>1. SUFFICES ASSUME q >= h PROVE FALSE
      BY <1>1, <1>2
    <3>2. B * q >= B * h
      BY <1>1, <1>2, <1>5, <3>1
    <3> QED BY <1>2, <1>5, <1>7, <3>2
  <2>2. s = 0 /\ H * s = 0 /\ Signed(x) = x
    BY <1>2, <1>3, <1>4, <1>5, <1>7
  <2>3. q - H * s \in -h .. h - 1
    BY <1>1, <1>2, <2>1, <2>2
  <2>4. Signed(x) = B * q + r - B * (H * s)
    BY <1>2, <1>5, <2>2
  <2>5. H \div 2 = h
    BY <1>1
  <2> QED BY <1>1, <1>2, <1>5, <2>2, <2>3, <2>4, <2>5 DEF q, r, s
<1> QED BY <1>2, <1>5, <1>6, <1>7

(* What canonneg does to each lane.  up: the headroom that moves into it,   *)
(* bw: the debt; k and m: the rippled carry and borrow.                     *)
CanonNegLanes(v, c, k, m, up, bw) ==
  LET r == CanonNeg(v, c)
  IN  /\ up = [l \in 0 .. L |-> IF l = 0 THEN c.hi ELSE v[l - 1] \div B]
      /\ bw = [l \in 0 .. L |-> IF l = 0 THEN c.bw ELSE H * Sign(v[l - 1])]
      /\ \A l \in 0 .. L : up[l] \in 0 .. H - 1 /\ bw[l] \in {0, H}
      /\ k[0] = c.cin /\ m[0] = c.bin /\ \A l \in 0 .. L : k[l] \in {0, 1} /\ m[l] \in {0, 1}
      /\ \A l \in Lane : /\ r.vec[l] \in 0 .. B - 1
                         /\ r.vec[l] + B * k[l + 1] = ((v[l] % B) - bw[l] - m[l]) + B * m[l + 1] + up[l] + k[l]
      /\ r.vec = [l \in Lane |-> r.vec[l]]
      /\ r.chain.hi = up[L] /\ r.chain.bw = bw[L] /\ r.chain.cin = k[L] /\ r.chain.bin = m[L]

LEMMA CanonNegResolved ==
  ASSUME NEW v, WordLanes(v), NEW c, NegChain(c)
  PROVE  \E k, m, up, bw : CanonNegLanes(v, c, k, m, up, bw)
<1> DEFINE up == [l \in 0 .. L |-> IF l = 0 THEN c.hi ELSE v[l - 1] \div B]
           bw == [l \in 0 .. L |-> IF l = 0 THEN c.bw ELSE H * Sign(v[l - 1])]
           s == [l \in Lane |-> (v[l] % B) - ShiftedUp(Debt(v), c.bw)[l]]
           w == [l \in Lane |-> Word((v[l] % B) - ShiftedUp(Debt(v), c.bw)[l])]
           rr == WithBorrow(w, BorrowRipple(w, c.bin))
           t == [l \in Lane |-> rr[l] + ShiftedUp(Headroom(v), c.hi)[l]]
           r == CanonNeg(v, c)
<1>1. \A l \in Lane : v[l] % B \in 0 .. B - 1 /\ v[l] \div B \in 0 .. H - 1 /\ H * Sign(v[l]) \in {0, H}
  BY WordParts, SignedParts DEF WordLanes
<1>2. \A l \in 0 .. L : up[l] \in 0 .. H - 1 /\ bw[l] \in {0, H}
  <2>1. ASSUME NEW l \in 0 .. L, l # 0 PROVE l - 1 \in Lane
    BY <2>1, Parameters
  <2> QED BY <1>1, <2>1 DEF NegChain
<1>3. \A l \in Lane : ShiftedUp(Headroom(v), c.hi)[l] = up[l] /\ ShiftedUp(Debt(v), c.bw)[l] = bw[l]
  <2>1. \A l \in Lane : l \in 0 .. L /\ (l # 0 => l - 1 \in Lane)
    BY Parameters
  <2> QED BY <2>1 DEF ShiftedUp, Headroom, Debt
<1>4. r.chain.hi = up[L] /\ r.chain.bw = bw[L]
  <2>1. L \in 0 .. L /\ L # 0 /\ L - 1 \in Lane
    BY Parameters
  <2>2. r.chain.hi = Headroom(v)[L - 1] /\ r.chain.bw = Debt(v)[L - 1]
    BY DEF CanonNeg
  <2>3. Headroom(v)[L - 1] = v[L - 1] \div B /\ Debt(v)[L - 1] = H * Sign(v[L - 1])
    BY <2>1 DEF Headroom, Debt
  <2> HIDE DEF r
  <2> QED BY <2>1, <2>2, <2>3
<1>5. \A l \in Lane : s[l] = (v[l] % B) - bw[l] /\ t[l] = rr[l] + up[l]
  BY <1>3
<1>6. w = [l \in Lane |-> Word(s[l])]
  OBVIOUS
<1>7. s \in [Lane -> -(B - 1) .. B - 1] /\ c.bin \in {0, 1} /\ c.cin \in {0, 1}
  <2>1. ASSUME NEW l \in Lane PROVE s[l] \in -(B - 1) .. B - 1
    <3> HIDE DEF bw, s, up, w, rr, t, r
    <3>0. l \in 0 .. L
      BY Parameters
    <3>1. v[l] % B \in 0 .. B - 1 /\ bw[l] \in {0, H}
      BY <1>1, <1>2, <3>0
    <3>2. s[l] = (v[l] % B) - bw[l]
      BY <1>5
    <3> DEFINE x == v[l] % B  y == bw[l]
    <3>3. x \in 0 .. B - 1 /\ y \in {0, H} /\ s[l] = x - y
      BY <3>1, <3>2
    <3> HIDE DEF x, y
    <3> QED BY <3>3, Parameters
  <2>2. s = [l \in Lane |-> s[l]]
    OBVIOUS
  <2> HIDE DEF s
  <2> QED BY <2>1, <2>2 DEF NegChain
<1>8. /\ r.vec = WithCarry(t, CarryRipple(t, c.cin)) /\ r.chain.cin = CarryRipple(t, c.cin).out
      /\ r.chain.bin = BorrowRipple(w, c.bin).out
  BY DEF CanonNeg, WithCarry, CarryRipple, WithBorrow, BorrowRipple
<1> HIDE DEF s, w, up, bw, r
<1>9. PICK m : Borrowed(m, s, rr, c.bin) /\ BorrowRipple(w, c.bin).out = m[L]
  BY <1>6, <1>7, BorrowsResolved
<1> HIDE DEF rr
<1>10. t \in [Lane -> 0 .. 2 * B - 2]
  <2>1. ASSUME NEW l \in Lane PROVE t[l] \in 0 .. 2 * B - 2
    <3>1. rr[l] \in 0 .. B - 1 /\ up[l] \in 0 .. H - 1
      BY <1>2, <1>9, Parameters DEF Borrowed
    <3> HIDE DEF t
    <3> QED BY <1>5, <3>1, Parameters
  <2> QED BY <2>1
<1> HIDE DEF t
<1>11. PICK k : Carried(k, t, WithCarry(t, CarryRipple(t, c.cin)), c.cin) /\ CarryRipple(t, c.cin).out = k[L]
  BY <1>7, <1>10, CarriesResolved
<1>12. r.vec = [l \in Lane |-> r.vec[l]]
  BY <1>8 DEF WithCarry
<1>13. ASSUME NEW l \in Lane
       PROVE  /\ r.vec[l] \in 0 .. B - 1
              /\ r.vec[l] + B * k[l + 1] = ((v[l] % B) - bw[l] - m[l]) + B * m[l + 1] + up[l] + k[l]
  <2> DEFINE x == v[l] % B  a == up[l]  e == bw[l]  u == k[l]  u1 == k[l + 1]  z == m[l]  z1 == m[l + 1]
             y == rr[l]  d == r.vec[l]
  <2>1. l \in 0 .. L /\ l + 1 \in 0 .. L
    BY Parameters
  <2>2. /\ d \in 0 .. B - 1 /\ d + B * u1 = t[l] + u /\ u1 \in {0, 1} /\ u \in {0, 1}
        /\ y - B * z1 = s[l] - z /\ z1 \in {0, 1} /\ z \in {0, 1} /\ y \in 0 .. B - 1
    BY <1>8, <1>9, <1>11, <2>1 DEF Carried, Borrowed
  <2>3. t[l] = y + a /\ s[l] = x - e /\ x \in Int /\ a \in Int /\ e \in Int
    BY <1>1, <1>2, <1>5, <2>1, Parameters
  <2> HIDE DEF x, a, e, u, u1, z, z1, y, d
  <2>4. B * u1 \in Int /\ B * z1 \in Int
    BY <2>2, Parameters
  <2>5. d + B * u1 = (x - e - z) + B * z1 + a + u
    BY <2>2, <2>3, <2>4
  <2> QED BY <2>2, <2>5 DEF x, a, e, u, u1, z, z1, d
<1>14. k[0] = c.cin /\ m[0] = c.bin /\ \A l \in 0 .. L : k[l] \in {0, 1} /\ m[l] \in {0, 1}
  BY <1>9, <1>11 DEF Carried, Borrowed
<1>15. r.chain.cin = k[L] /\ r.chain.bin = m[L]
  BY <1>8, <1>9, <1>11
<1>16. /\ up = [l \in 0 .. L |-> IF l = 0 THEN c.hi ELSE v[l - 1] \div B]
       /\ bw = [l \in 0 .. L |-> IF l = 0 THEN c.bw ELSE H * Sign(v[l - 1])]
  BY DEF up, bw
<1>17. CanonNegLanes(v, c, k, m, up, bw)
  BY <1>2, <1>4, <1>12, <1>13, <1>14, <1>15, <1>16 DEF CanonNegLanes, r
<1> QED BY <1>17

(* canonneg makes digits of signed lanes and keeps the number; what it hands *)
(* to the next vector is small enough to be returned as one signed word.     *)
SmallChain(c) == ChainValue(c) \in -H .. H - 1

THEOREM CanonNegExact ==
  ASSUME NEW v, WordLanes(v), NEW c, NegChain(c)
  PROVE  /\ DigitLanes(CanonNeg(v, c).vec) /\ NegChain(CanonNeg(v, c).chain) /\ SmallChain(CanonNeg(v, c).chain)
         /\ Number(CanonNeg(v, c).vec, L, B) + Power(B, L) * ChainValue(CanonNeg(v, c).chain)
              = Value(v) + ChainValue(c)
<1> DEFINE d == CanonNeg(v, c).vec  e == CanonNeg(v, c).chain  g == [l \in Lane |-> Signed(v[l])]
<1>1. PICK k, m, up, bw : CanonNegLanes(v, c, k, m, up, bw)
  BY CanonNegResolved
<1> DEFINE z == [l \in 0 .. L |-> up[l] - bw[l] + k[l] - m[l]]
<1>2. DigitLanes(d) /\ NegChain(e) /\ SmallChain(e) /\ ChainValue(e) = z[L] /\ ChainValue(c) = z[0]
  <2>1. /\ 0 \in 0 .. L /\ L \in 0 .. L /\ L # 0 /\ L - 1 \in Lane
        /\ z[L] = up[L] - bw[L] + k[L] - m[L] /\ z[0] = up[0] - bw[0] + k[0] - m[0]
    BY Parameters
  <2>2. /\ up[L] \in 0 .. H - 1 /\ bw[L] \in {0, H} /\ k[L] \in {0, 1} /\ m[L] \in {0, 1}
        /\ e.hi = up[L] /\ e.bw = bw[L] /\ e.cin = k[L] /\ e.bin = m[L]
        /\ up[0] = c.hi /\ bw[0] = c.bw /\ k[0] = c.cin /\ m[0] = c.bin
        /\ up[L] = v[L - 1] \div B /\ bw[L] = H * Sign(v[L - 1])
    BY <1>1, <2>1 DEF CanonNegLanes
  <2>3. DigitLanes(d)
    BY <1>1 DEF CanonNegLanes, DigitLanes
  <2> HIDE DEF d, e, z
  <2>4. NegChain(e)
    BY <2>2 DEF NegChain
  <2>5. ChainValue(e) = up[L] - bw[L] + k[L] - m[L]
    BY <2>2 DEF ChainValue
  <2>6. ChainValue(c) = up[0] - bw[0] + k[0] - m[0]
    BY <2>2 DEF ChainValue
  <2>7. IsWord(v[L - 1])
    BY <2>1 DEF WordLanes
  <2>8. up[L] - bw[L] \in -(H \div 2) .. (H \div 2) - 1 /\ 2 * (H \div 2) = H /\ H \div 2 \in Nat
    BY <2>2, <2>7, SignedParts
  <2>9. ChainValue(e) \in -H .. H - 1
    <3> DEFINE h == H \div 2  a == up[L]  b == bw[L]
    <3>1. a - b \in -h .. h - 1 /\ h \in Nat /\ H = 2 * h /\ h > 0 /\ a \in Int /\ b \in Int
      BY <2>2, <2>8, Parameters
    <3> HIDE DEF h, a, b
    <3>2. ChainValue(e) = a - b + k[L] - m[L]
      BY <2>5 DEF a, b
    <3> QED BY <2>2, <3>1, <3>2
  <2> QED BY <2>1, <2>3, <2>4, <2>5, <2>6, <2>9 DEF SmallChain
<1>3. Exchanges(d, g, z, B, L)
  <2>1. ASSUME NEW l \in 0 .. L - 1
        PROVE  d[l] \in Int /\ g[l] \in Int /\ d[l] + B * z[l + 1] = g[l] + z[l]
    <3> DEFINE x == v[l]  q == x \div B  r == x % B  b == H * Sign(x)  s == Signed(x)
               y == d[l]  a == up[l]  a0 == bw[l]  u == k[l]  w == k[l + 1]  n == m[l]  n1 == m[l + 1]
    <3>1. l \in Lane /\ l \in 0 .. L /\ l + 1 \in 0 .. L /\ l + 1 # 0 /\ (l + 1) - 1 = l
      BY Parameters
    <3>2. /\ up[l + 1] = q /\ bw[l + 1] = b /\ a \in Int /\ a0 \in Int /\ u \in Int /\ w \in Int /\ n \in Int
          /\ n1 \in Int /\ y \in Int /\ y + B * w = (r - a0 - n) + B * n1 + a + u
      <4>1. y \in 0 .. B - 1 /\ y + B * w = (r - a0 - n) + B * n1 + a + u
        BY <1>1, <3>1 DEF CanonNegLanes
      <4>2. /\ a \in 0 .. H - 1 /\ a0 \in {0, H} /\ u \in {0, 1} /\ w \in {0, 1} /\ n \in {0, 1} /\ n1 \in {0, 1}
        BY <1>1, <3>1 DEF CanonNegLanes
      <4>3. up[l + 1] = q /\ bw[l + 1] = b
        BY <1>1, <3>1 DEF CanonNegLanes
      <4> HIDE DEF y, a, a0, u, w, n, n1
      <4> QED BY <4>1, <4>2, <4>3, Parameters
    <3>3. IsWord(x)
      BY <3>1 DEF WordLanes
    <3>4. z[l + 1] = up[l + 1] - bw[l + 1] + w - n1 /\ z[l] = a - a0 + u - n /\ g[l] = s
      BY <3>1
    <3>5. q \in Int /\ r \in Int /\ b \in Int /\ s \in Int /\ s = B * q + r - B * b
      <4>1. q \in Int /\ r \in Int
        BY <3>3, WordParts, Parameters
      <4>2. b \in Int /\ s \in Int /\ s = B * q + r - B * b
        BY <3>3, SignedParts, Parameters
      <4> QED BY <4>1, <4>2
    <3> HIDE DEF d, u, w, y, z, x, a, a0, n, n1, g, q, r, b, s
    <3>6. B * (q - b + w - n1) = B * q - B * b + B * w - B * n1
          /\ B * q \in Int /\ B * b \in Int /\ B * w \in Int /\ B * n1 \in Int
      BY <3>2, <3>5, Parameters
    <3>7. y + (B * q - B * b + B * w - B * n1) = s + (a - a0 + u - n)
      BY <3>2, <3>5, <3>6
    <3>8. y + B * z[l + 1] = s + z[l]
      BY <3>2, <3>4, <3>6, <3>7
    <3> QED BY <3>2, <3>4, <3>5, <3>8 DEF y
  <2>2. \A l \in 0 .. L : z[l] \in Int
    <3> SUFFICES ASSUME NEW l \in 0 .. L PROVE z[l] \in Int
      OBVIOUS
    <3>1. up[l] \in Int /\ bw[l] \in Int /\ k[l] \in Int /\ m[l] \in Int
      BY <1>1, Parameters DEF CanonNegLanes
    <3> QED BY <3>1
  <2> QED BY <2>1, <2>2 DEF Exchanges
<1>4. Value(v) = Number(g, L, B)
  BY DEF Value
<1> HIDE DEF z, d, e, g
<1>5. Number(d, L, B) + Power(B, L) * z[L] = Number(g, L, B) + z[0]
  BY <1>3, Parameters, Telescope
<1> QED BY <1>2, <1>4, <1>5 DEF d, e

(* A carry returned as one signed word and handed to another call stands for *)
(* the same value.                                                           *)
LEMMA CarryResumes ==
  ASSUME NEW x \in -H .. H - 1
  PROVE  NegChain(CarryIn(Word(x))) /\ ChainValue(CarryIn(Word(x))) = x
<1>1. PICK h \in Nat, b \in Nat : h > 0 /\ H = 2 * h /\ Width \div 2 = B * h /\ Width = 2 * (B * h)
  BY Halves
<1> DEFINE c == Word(x)  y == B * h
<1>2. y \in Int /\ y >= B /\ Width = 2 * y /\ Width \div 2 = y
  <2>1. B * h \in Int /\ B * h >= B
    BY <1>1, Parameters
  <2> QED BY <1>1, <2>1
<1> HIDE DEF c, y
<1>3. x \in Int /\ -H <= x /\ x < H /\ x <= B - 1
  BY Parameters
<1>4. CASE x < 0
  <2>1. c = x + Width
    <3>1. x = Width * (-1) + (x + Width) /\ x + Width \in 0 .. Width - 1
      BY <1>3, <1>4, Parameters
    <3> DEFINE w == Width  r == x + Width
    <3>2. x = w * (-1) + r /\ r \in 0 .. w - 1 /\ w \in Nat /\ w > 0
      BY <3>1, Parameters
    <3> HIDE DEF w, r
    <3>3. x % w = r
      BY <1>3, <3>2, Quotient
    <3> QED BY <3>3 DEF c, Word, w, r
  <2>2. c >= y
    BY <1>2, <1>3, <2>1, Parameters
  <2>3. c % H = x + H
    <3>1. H * (B - 1) = Width - H
      BY Parameters
    <3>2. c = H * (B - 1) + (x + H) /\ x + H \in 0 .. H - 1 /\ c \in Int
      BY <1>3, <1>4, <2>1, <3>1, Parameters
    <3> DEFINE r == x + H  q == B - 1
    <3>3. c = H * q + r /\ r \in 0 .. H - 1 /\ q \in Int /\ H \in Nat /\ H > 0
      BY <3>2, Parameters
    <3> HIDE DEF r, q
    <3>4. c % H = r
      BY <3>2, <3>3, Quotient
    <3> QED BY <3>4 DEF r
  <2>4. Sign(c) = 1 /\ H * 1 = H
    BY <1>2, <2>2, Parameters DEF Sign
  <2>5. CarryIn(c) = [hi |-> x + H, bw |-> H, cin |-> 0, bin |-> 0]
    BY <2>3, <2>4 DEF CarryIn
  <2> QED BY <1>3, <1>4, <2>5, Parameters DEF NegChain, ChainValue, c
<1>5. CASE x >= 0
  <2>1. c = x
    <3>1. x = Width * 0 + x /\ x \in 0 .. Width - 1
      BY <1>3, <1>5, Parameters
    <3> DEFINE w == Width
    <3>2. x = w * 0 + x /\ x \in 0 .. w - 1 /\ w \in Nat /\ w > 0
      BY <3>1, Parameters
    <3> HIDE DEF w
    <3>3. x % w = x
      BY <1>3, <3>2, Quotient
    <3> QED BY <3>3 DEF c, Word, w
  <2>2. c < y
    BY <1>2, <1>3, <2>1, Parameters
  <2>3. c % H = x
    <3>1. c = H * 0 + x /\ x \in 0 .. H - 1 /\ c \in Int /\ H \in Nat /\ H > 0
      BY <1>3, <1>5, <2>1, Parameters
    <3> QED BY <3>1, Quotient
  <2>4. Sign(c) = 0 /\ H * 0 = 0
    BY <1>2, <1>3, <2>1, <2>2, Parameters DEF Sign
  <2>5. CarryIn(c) = [hi |-> x, bw |-> 0, cin |-> 0, bin |-> 0]
    BY <2>3, <2>4 DEF CarryIn
  <2> QED BY <1>3, <1>5, <2>5, Parameters DEF NegChain, ChainValue, c
<1> QED BY <1>3, <1>4, <1>5

-----------------------------------------------------------------------------
(* WordLanes as numbers *)

LEMMA WordOf ==
  ASSUME NEW x \in Int
  PROVE  IsWord(Word(x)) /\ \E q \in Int : x = Width * q + Word(x)
<1> DEFINE w == Width  q == x \div w  r == x % w
<1>1. w \in Nat /\ w > 0
  BY Parameters
<1> HIDE DEF w
<1>2. q \in Int /\ r \in 0 .. w - 1 /\ x = w * q + r
  BY <1>1
<1>3. Word(x) = r
  BY DEF Word, w
<1> HIDE DEF q, r
<1>4. IsWord(r) /\ x = Width * q + r
  BY <1>1, <1>2 DEF IsWord, w
<1> QED BY <1>2, <1>3, <1>4

LEMMA WordIs ==
  ASSUME NEW x \in Int, NEW q \in Int, NEW r, IsWord(r), x = Width * q + r
  PROVE  Word(x) = r
<1> DEFINE w == Width
<1>1. w \in Nat /\ w > 0 /\ r \in 0 .. w - 1 /\ x = w * q + r
  BY Parameters DEF IsWord
<1> HIDE DEF w
<1>2. x % w = r
  BY <1>1, Quotient
<1> QED BY <1>2 DEF Word, w

(* The signed reading differs by the word's width or not at all. *)
LEMMA SignedCongruent ==
  ASSUME NEW x, IsWord(x)
  PROVE  /\ Signed(x) \in Int /\ -(Width \div 2) <= Signed(x) /\ Signed(x) < Width \div 2
         /\ \E q \in {0, -1} : Signed(x) = x + Width * q
<1>1. PICK h \in Nat, b \in Nat : Width \div 2 = B * h /\ Width = 2 * (B * h)
  BY Halves
<1> DEFINE y == B * h
<1>2. y \in Int /\ Width = 2 * y /\ Width \div 2 = y /\ x \in Int /\ 0 <= x /\ x < Width
  BY <1>1, Parameters DEF IsWord
<1> HIDE DEF y
<1>3. Width * 0 = 0 /\ Width * (-1) = -Width /\ Width \in Int
  BY Parameters
<1> QED BY <1>2, <1>3 DEF Signed

LEMMA SignedOf ==
  ASSUME NEW x \in Int, -(Width \div 2) <= x, x < Width \div 2
  PROVE  Signed(Word(x)) = x
<1>1. PICK h \in Nat, b \in Nat : Width \div 2 = B * h /\ Width = 2 * (B * h)
  BY Halves
<1> DEFINE y == B * h
<1>2. y \in Int /\ Width = 2 * y /\ Width \div 2 = y /\ -y <= x /\ x < y
  BY <1>1, Parameters
<1> HIDE DEF y
<1>3. CASE x < 0
  <2>1. IsWord(x + Width) /\ x = Width * (-1) + (x + Width)
    BY <1>2, <1>3, Parameters DEF IsWord
  <2>2. x + Width \in Int
    BY <1>2
  <2> DEFINE r == x + Width
  <2>3. IsWord(r) /\ x = Width * (-1) + r
    BY <2>1
  <2> HIDE DEF r
  <2>4. Word(x) = r
    BY <2>3, WordIs
  <2>5. r >= Width \div 2 /\ r - Width = x
    BY <1>2, <1>3 DEF r
  <2> QED BY <2>4, <2>5 DEF Signed
<1>4. CASE x >= 0
  <2>1. IsWord(x) /\ x = Width * 0 + x
    BY <1>2, <1>4, Parameters DEF IsWord
  <2>2. Word(x) = x
    BY <2>1, WordIs
  <2> QED BY <1>2, <1>4, <2>2 DEF Signed
<1> QED BY <1>3, <1>4

LEMMA DigitIsSigned ==
  ASSUME NEW x \in 0 .. B - 1
  PROVE  IsWord(x) /\ Signed(x) = x
<1>1. PICK h \in Nat, b \in Nat : h > 0 /\ Width \div 2 = B * h
  BY Halves
<1>2. B * h \in Int /\ B * h >= B
  BY <1>1, Parameters
<1> QED BY <1>1, <1>2, Parameters DEF Signed, IsWord

LEMMA ValueOfDigits ==
  ASSUME NEW v, DigitLanes(v)
  PROVE  WordLanes(v) /\ Value(v) = Number(v, L, B)
<1> DEFINE g == [l \in Lane |-> Signed(v[l])]
<1>1. \A l \in Lane : IsWord(v[l]) /\ g[l] = v[l] /\ v[l] \in Int
  BY DigitIsSigned DEF DigitLanes
<1>2. WordLanes(v)
  BY <1>1 DEF WordLanes, DigitLanes
<1> HIDE DEF g
<1>3. Number(g, L, B) = Number(v, L, B)
  BY <1>1, Parameters, NumberOfSame
<1> QED BY <1>2, <1>3 DEF Value, g

-----------------------------------------------------------------------------
(* Halving *)

(* One lane: the parity of the limb above enters as half a digit base. *)
LEMMA HalfLane ==
  ASSUME NEW x \in Int, NEW u \in {0, 1}
  PROVE  2 * (x \div 2 + u * (B \div 2)) = x - (x % 2) + B * u
<1>1. PICK h \in Nat, b \in Nat : B = 2 * b /\ b = B \div 2
  BY Halves
<1> DEFINE q == x \div 2  r == x % 2
<1>2. q \in Int /\ r \in {0, 1} /\ x = 2 * q + r
  OBVIOUS
<1> HIDE DEF q, r
<1>3. B * u = 2 * (u * b) /\ u * b \in Int
  BY <1>1
<1> QED BY <1>1, <1>2, <1>3 DEF q, r

(* f: the halved lanes as numbers, g: the lanes, parity: of each lane and of *)
(* the one above.                                                            *)
Halving(f, g, parity) ==
  /\ \A l \in 0 .. L : parity[l] \in {0, 1}
  /\ \A l \in Lane : f[l] \in Int /\ g[l] \in Int /\ 2 * f[l] = g[l] - parity[l] + B * parity[l + 1]

LEMMA HalfNumber ==
  ASSUME NEW f, NEW g, NEW parity, Halving(f, g, parity)
  PROVE  /\ Number(f, L, B) \in Int /\ Number(g, L, B) \in Int
         /\ 2 * Number(f, L, B) = Number(g, L, B) - parity[0] + Power(B, L) * parity[L]
<1> DEFINE one == 1
           h == [l \in Lane |-> f[l] + one * f[l]]  c == [l \in 0 .. L |-> 0 - parity[l]]
<1>0. /\ \A l \in 0 .. L : parity[l] \in {0, 1}
      /\ \A l \in Lane : f[l] \in Int /\ g[l] \in Int /\ 2 * f[l] = g[l] - parity[l] + B * parity[l + 1]
  BY DEF Halving
<1>1. /\ \A l \in 0 .. L - 1 : f[l] \in Int /\ g[l] \in Int /\ h[l] = f[l] + one * f[l] /\ h[l] \in Int
      /\ c[0] = 0 - parity[0] /\ c[L] = 0 - parity[L] /\ parity[0] \in Int /\ parity[L] \in Int
      /\ one \in Int
  BY <1>0, Parameters
<1>2. Exchanges(h, g, c, B, L)
  <2>1. ASSUME NEW l \in 0 .. L - 1 PROVE h[l] + B * c[l + 1] = g[l] + c[l]
    <3> DEFINE x == f[l]  y == g[l]  u == parity[l]  w == parity[l + 1]
    <3>1. l \in Lane /\ l \in 0 .. L /\ l + 1 \in 0 .. L
      BY Parameters
    <3>2. x \in Int /\ y \in Int /\ u \in {0, 1} /\ w \in {0, 1} /\ 2 * x = y - u + B * w
      BY <1>0, <3>1
    <3>3. h[l] = x + 1 * x /\ c[l] = 0 - u /\ c[l + 1] = 0 - w
      BY <3>1
    <3> HIDE DEF h, c, x, y, u, w
    <3>4. B * (0 - w) = 0 - B * w /\ B * w \in Int
      BY <3>2, Parameters
    <3>5. h[l] + B * c[l + 1] = y + c[l]
      BY <3>2, <3>3, <3>4
    <3> QED BY <3>5 DEF y
  <2>2. \A l \in 0 .. L : c[l] \in Int
    BY <1>0
  <2> HIDE DEF h, c
  <2> QED BY <1>1, <2>1, <2>2 DEF Exchanges
<1> HIDE DEF h, c, one
<1>3. Number(h, L, B) + Power(B, L) * c[L] = Number(g, L, B) + c[0]
  BY <1>2, Parameters, Telescope
<1>4. Number(h, L, B) = Number(f, L, B) + one * Number(f, L, B)
  BY <1>1, Parameters, NumberLinear
<1>5. Number(f, L, B) \in Int /\ Number(g, L, B) \in Int
  <2>1. \A l \in 0 .. L - 1 : f[l] \in Int
    BY <1>1
  <2>2. \A l \in 0 .. L - 1 : g[l] \in Int
    BY <1>1
  <2>3. L \in Nat /\ L \in 0 .. L /\ B \in Nat /\ B > 0
    BY Parameters
  <2>4. Number(f, L, B) \in Int
    BY <2>1, <2>3, NumberSteps
  <2>5. Number(g, L, B) \in Int
    BY <2>2, <2>3, NumberSteps
  <2> QED BY <2>4, <2>5
<1> DEFINE x == Number(f, L, B)  y == Number(g, L, B)  w == Power(B, L)  u == parity[L]
<1>6. w \in Nat /\ x \in Int /\ y \in Int /\ u \in Int /\ x + 1 * x + w * (0 - u) = y + (0 - parity[0])
  BY <1>1, <1>3, <1>4, <1>5, Parameters, PowerPositive DEF one
<1> HIDE DEF x, y, w, u
<1>7. w * (0 - u) = 0 - w * u /\ w * u \in Int
  BY <1>6
<1>8. 2 * x = y - parity[0] + w * u
  BY <1>1, <1>6, <1>7
<1> QED BY <1>5, <1>8 DEF x, y, w, u

(* The parity of each lane; the lane above the vector is the next one's first. *)
Parity(lo, nx) == [l \in 0 .. L |-> IF l = L THEN nx[0] % 2 ELSE lo[l] % 2]

LEMMA ParityBits ==
  ASSUME NEW lo, WordLanes(lo), NEW nx, WordLanes(nx)
  PROVE  /\ \A l \in 0 .. L : Parity(lo, nx)[l] \in {0, 1}
         /\ \A l \in Lane : /\ Parity(lo, nx)[l] = lo[l] % 2
                            /\ ShiftedDown(lo, nx[0])[l] % 2 = Parity(lo, nx)[l + 1]
         /\ Parity(lo, nx)[0] = lo[0] % 2 /\ Parity(lo, nx)[L] = nx[0] % 2
<1>1. \A l \in Lane : lo[l] \in Int /\ nx[l] \in Int
  BY DEF WordLanes, IsWord
<1>2. \A x \in Int : x % 2 \in {0, 1}
  OBVIOUS
<1>3. \A l \in 0 .. L : l = L \/ l \in Lane
  BY Parameters
<1>4. \A l \in 0 .. L : Parity(lo, nx)[l] \in {0, 1}
  BY <1>1, <1>2, <1>3, Parameters DEF Parity
<1>5. ASSUME NEW l \in Lane
      PROVE  /\ Parity(lo, nx)[l] = lo[l] % 2
             /\ ShiftedDown(lo, nx[0])[l] % 2 = Parity(lo, nx)[l + 1]
  <2>1. l \in 0 .. L /\ l # L /\ l + 1 \in 0 .. L /\ (l + 1 = L <=> l = L - 1)
    BY Parameters
  <2> QED BY <2>1 DEF Parity, ShiftedDown
<1>6. Parity(lo, nx)[0] = lo[0] % 2 /\ Parity(lo, nx)[L] = nx[0] % 2
  BY Parameters DEF Parity
<1> QED BY <1>4, <1>5, <1>6

(* The halved vector is half the vector, once the parity it hands down is    *)
(* taken off and the parity it takes in from above is put on.                *)
HalfOf(half, lo, nx) ==
  /\ WordLanes(half)
  /\ Value(half) \in Int /\ Value(lo) \in Int /\ lo[0] % 2 \in {0, 1} /\ nx[0] % 2 \in {0, 1}
  /\ 2 * Value(half) = Value(lo) - (lo[0] % 2) + Power(B, L) * (nx[0] % 2)

(* Halving canonical digits (half_canon): digits, with nothing lost but the  *)
(* lowest bit and nothing added but the vector above's.                      *)
THEOREM HalfCanonExact ==
  ASSUME NEW lo, DigitLanes(lo), NEW nx, DigitLanes(nx)
  PROVE  HalfOf(HalfCanon(lo, nx), lo, nx) /\ DigitLanes(HalfCanon(lo, nx))
<1> DEFINE f == HalfCanon(lo, nx)  parity == Parity(lo, nx)
<1>1. WordLanes(lo) /\ WordLanes(nx) /\ Value(lo) = Number(lo, L, B)
  BY ValueOfDigits
<1>2. /\ \A l \in 0 .. L : parity[l] \in {0, 1}
      /\ \A l \in Lane : parity[l] = lo[l] % 2 /\ ShiftedDown(lo, nx[0])[l] % 2 = parity[l + 1]
      /\ parity[0] = lo[0] % 2 /\ parity[L] = nx[0] % 2
  BY <1>1, ParityBits
<1> HIDE DEF parity
<1>3. f = [l \in Lane |-> f[l]]
  BY DEF HalfCanon
<1>4. \A l \in Lane : f[l] = lo[l] \div 2 + parity[l + 1] * (B \div 2)
  BY <1>2 DEF HalfCanon
<1> HIDE DEF f
<1>5. ASSUME NEW l \in Lane
      PROVE  /\ f[l] \in 0 .. B - 1 /\ f[l] \in Int /\ lo[l] \in Int
             /\ 2 * f[l] = lo[l] - parity[l] + B * parity[l + 1]
  <2> DEFINE x == lo[l]  u == parity[l + 1]  y == f[l]
  <2>1. x \in 0 .. B - 1 /\ x \in Int /\ u \in {0, 1} /\ parity[l] = x % 2
    <3>1. l + 1 \in 0 .. L
      BY Parameters
    <3>2. u \in {0, 1} /\ parity[l] = x % 2
      BY <1>2, <3>1
    <3>3. x \in 0 .. B - 1
      BY DEF DigitLanes
    <3> HIDE DEF x
    <3> QED BY <3>2, <3>3, Parameters
  <2>2. y = x \div 2 + u * (B \div 2)
    BY <1>4
  <2>3. PICK h \in Nat, b \in Nat : B = 2 * b /\ b = B \div 2 /\ b > 0
    BY Halves
  <2> HIDE DEF x, u, y
  <2>4. 2 * y = x - (x % 2) + B * u
    BY <2>1, <2>2, HalfLane
  <2>5. y \in 0 .. B - 1
    <3> DEFINE q == x \div 2
    <3>1. q \in Int /\ q >= 0 /\ q <= b - 1
      BY <2>1, <2>3
    <3> HIDE DEF q
    <3>2. y = q + u * b
      BY <2>2, <2>3 DEF q
    <3>3. u * b \in 0 .. b
      BY <2>1, <2>3
    <3> QED BY <2>3, <3>1, <3>2, <3>3
  <2> QED BY <2>1, <2>4, <2>5, Parameters DEF x, u, y
<1>6. DigitLanes(f)
  BY <1>3, <1>5 DEF DigitLanes
<1>7. /\ Number(f, L, B) \in Int /\ Number(lo, L, B) \in Int
      /\ 2 * Number(f, L, B) = Number(lo, L, B) - parity[0] + Power(B, L) * parity[L]
  <2>1. Halving(f, lo, parity)
    BY <1>2, <1>5 DEF Halving
  <2> QED BY <2>1, HalfNumber
<1>8. WordLanes(f) /\ Value(f) = Number(f, L, B)
  BY <1>6, ValueOfDigits
<1>9. 0 \in 0 .. L /\ L \in 0 .. L
  BY Parameters
<1>10. HalfOf(f, lo, nx)
  BY <1>1, <1>2, <1>7, <1>8, <1>9 DEF HalfOf
<1> QED BY <1>6, <1>10 DEF f

(* The same of redundant signed lanes (half_nc), which stay words.           *)
THEOREM HalfNcExact ==
  ASSUME NEW lo, WordLanes(lo), NEW nx, WordLanes(nx)
  PROVE  HalfOf(HalfNc(lo, nx), lo, nx)
<1> DEFINE v == HalfNc(lo, nx)  parity == Parity(lo, nx)
           f == [l \in Lane |-> Signed(v[l])]  g == [l \in Lane |-> Signed(lo[l])]
<1>1. /\ \A l \in 0 .. L : parity[l] \in {0, 1}
      /\ \A l \in Lane : parity[l] = lo[l] % 2 /\ ShiftedDown(lo, nx[0])[l] % 2 = parity[l + 1]
      /\ parity[0] = lo[0] % 2 /\ parity[L] = nx[0] % 2
  BY ParityBits
<1> HIDE DEF parity
<1>2. v = [l \in Lane |-> v[l]]
  BY DEF HalfNc
<1>3. \A l \in Lane : v[l] = Word(g[l] \div 2 + parity[l + 1] * (B \div 2))
  BY <1>1 DEF HalfNc
<1>4. \A l \in Lane : f[l] = Signed(v[l]) /\ g[l] = Signed(lo[l])
  OBVIOUS
<1>5. Value(v) = Number(f, L, B) /\ Value(lo) = Number(g, L, B)
  BY DEF Value
<1> HIDE DEF v, f, g
<1>6. ASSUME NEW l \in Lane
      PROVE  /\ IsWord(v[l]) /\ f[l] \in Int /\ g[l] \in Int
             /\ 2 * f[l] = g[l] - parity[l] + B * parity[l + 1]
  <2> DEFINE w == lo[l]  x == g[l]  u == parity[l + 1]  y == x \div 2 + u * (B \div 2)
  <2>1. IsWord(w) /\ x = Signed(w) /\ u \in {0, 1} /\ parity[l] = w % 2
    <3>1. l + 1 \in 0 .. L
      BY Parameters
    <3> QED BY <1>1, <1>4, <3>1 DEF WordLanes
  <2>2. v[l] = Word(y) /\ f[l] = Signed(v[l])
    BY <1>3, <1>4
  <2>3. PICK h \in Nat, b \in Nat :
          h > 0 /\ B = 2 * b /\ b = B \div 2 /\ b > 0 /\ Width \div 2 = B * h /\ Width = 2 * (B * h)
    BY Halves
  <2> HIDE DEF w, x, u, y
  <2>4. x \in Int /\ -(B * h) <= x /\ x < B * h
    BY <2>1, <2>3, SignedCongruent
  <2> DEFINE c == b * h
  <2>5. B * h = 2 * c /\ c \in Int /\ c >= b
    <3>1. B * h = 2 * (b * h) /\ b * h \in Int /\ b * h >= b
      BY <2>3
    <3> QED BY <3>1
  <2> HIDE DEF c
  <2>6. x % 2 = w % 2
    <3>1. PICK q \in {0, -1} : x = w + Width * q
      BY <2>1, SignedCongruent
    <3>2. w \in Int
      BY <2>1 DEF IsWord
    <3>3. Width * q = 2 * (2 * c * q)
      BY <2>3, <2>5
    <3>4. x = w + 2 * (2 * c * q) /\ 2 * c * q \in Int
      BY <2>5, <3>1, <3>3
    <3> QED BY <2>4, <3>2, <3>4
  <2>7. 2 * y = x - (x % 2) + B * u
    BY <2>1, <2>4, HalfLane DEF y
  <2>8. y \in Int /\ -(Width \div 2) <= y /\ y < Width \div 2
    <3> DEFINE q == x \div 2
    <3>1. q \in Int /\ q >= -c /\ q <= c - 1
      BY <2>4, <2>5
    <3> HIDE DEF q
    <3>2. y = q + u * b
      BY <2>3 DEF q, y
    <3>3. u * b \in 0 .. b
      BY <2>1, <2>3
    <3>4. Width \div 2 = 2 * c
      BY <2>3, <2>5
    <3> QED BY <2>3, <2>5, <3>1, <3>2, <3>3, <3>4
  <2>9. IsWord(Word(y)) /\ Signed(Word(y)) = y
    BY <2>8, WordOf, SignedOf
  <2> QED BY <2>1, <2>2, <2>4, <2>6, <2>7, <2>8, <2>9 DEF x, u
<1>7. WordLanes(v)
  BY <1>2, <1>6 DEF WordLanes
<1>8. /\ Number(f, L, B) \in Int /\ Number(g, L, B) \in Int
      /\ 2 * Number(f, L, B) = Number(g, L, B) - parity[0] + Power(B, L) * parity[L]
  <2>1. Halving(f, g, parity)
    BY <1>1, <1>6 DEF Halving
  <2> QED BY <2>1, HalfNumber
<1>9. 0 \in 0 .. L /\ L \in 0 .. L
  BY Parameters
<1>10. HalfOf(v, lo, nx)
  BY <1>1, <1>5, <1>7, <1>8, <1>9 DEF HalfOf
<1> QED BY <1>10 DEF v

-----------------------------------------------------------------------------
(* Comparing two vectors by the integers of their comparison masks *)

(* The largest member of a set of lanes. *)
LEMMA LargestLane ==
  ASSUME NEW S, S \subseteq Lane, S # {}
  PROVE  \E m \in S : \A k \in S : k <= m
<1> DEFINE T == {L - 1 - k : k \in S}
<1>1. T \subseteq Nat /\ T # {}
  <2>1. \A k \in S : k \in Int /\ 0 <= k /\ k <= L - 1
    BY Parameters
  <2>2. L \in Int
    BY Parameters
  <2> QED BY <2>1, <2>2
<1>2. PICK t \in T : \A u \in T : t <= u
  BY <1>1, SmallestMember
<1>3. PICK m \in S : t = L - 1 - m
  BY <1>2
<1>4. ASSUME NEW k \in S PROVE k <= m
  <2>1. L - 1 - m <= L - 1 - k
    BY <1>2, <1>3
  <2>2. k \in Int /\ m \in Int /\ L \in Int
    BY Parameters
  <2> QED BY <2>1, <2>2
<1> QED BY <1>4

Indicator(S) == [l \in Lane |-> IF l \in S THEN 1 ELSE 0]

LEMMA MasksCompare ==
  ASSUME NEW S, NEW T, NEW m \in Lane, m \in T, m \notin S,
         \A l \in Lane : l > m => l \notin S /\ l \notin T
  PROVE  MaskInt(S) \in Int /\ MaskInt(T) \in Int /\ MaskInt(S) < MaskInt(T)
<1> DEFINE two == 2  f == Indicator(S)  g == Indicator(T)
<1>1. \A l \in Lane : f[l] = (IF l \in S THEN 1 ELSE 0) /\ g[l] = (IF l \in T THEN 1 ELSE 0)
  BY DEF Indicator
<1>2. MaskInt(S) = Number(f, L, two) /\ MaskInt(T) = Number(g, L, two)
  BY DEF MaskInt, Indicator
<1>3. two \in Nat /\ two > 0 /\ two = 2 /\ L \in Nat /\ L \in 0 .. L /\ Lane = 0 .. L - 1
  BY Parameters
<1> HIDE DEF two, f, g
<1>4. \A j \in 0 .. L - 1 : f[j] \in 0 .. two - 1 /\ g[j] \in 0 .. two - 1
  BY <1>1, <1>3
<1>5. \A j \in 0 .. L - 1 : f[j] \in Int /\ g[j] \in Int
  BY <1>4
<1>6. m \in 0 .. L - 1 /\ f[m] < g[m] /\ \A j \in m + 1 .. L - 1 : f[j] = g[j]
  BY <1>1, <1>3
<1>7. Number(f, L, two) < Number(g, L, two)
  BY <1>3, <1>4, <1>6, TopDecides
<1>8. Number(f, L, two) \in Int /\ Number(g, L, two) \in Int
  BY <1>3, <1>5, NumberSteps
<1> QED BY <1>2, <1>7, <1>8
=============================================================================
