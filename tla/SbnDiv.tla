------------------------------- MODULE SbnDiv -------------------------------
(***************************************************************************)
(* Division of a few words by at least three (include/sbn_div.h): the      *)
(* schoolbook of GMP with a reciprocal of the top two words of the         *)
(* divisor.  A word has WordBits bits (64 in the code).  The kernels       *)
(* add_n, sub_n and submul_1 are assembly and stand for their contracts.   *)
(***************************************************************************)
EXTENDS DigitNumbers, Sequences, FiniteSets

CONSTANTS
  WordBits,
  Divisions      \* calls: <<words of the dividend, words of the divisor>>

W == Power(2, WordBits)
SbnWord == 0 .. W - 1

ASSUME SbnAssumption ==
  /\ WordBits \in Nat \ {0}
  /\ \A c \in Divisions :
       /\ c[1] \in Seq(SbnWord) /\ c[2] \in Seq(SbnWord)
       /\ Len(c[2]) >= 3 /\ Len(c[1]) >= Len(c[2]) /\ c[2][Len(c[2])] # 0

VARIABLES
  sbn,           \* program counter
  np, dp,        \* the call's words
  n2, d2,        \* the normalized dividend, with a word more, and divisor
  cnt, dinv,     \* the shift; the reciprocal
  n1,            \* the top word of the running remainder, kept in a register
  i,             \* words of the quotient still to find
  qh, qp, rs,    \* the quotient's carry, its words and the remainder's
  lengths        \* <<words of the quotient, words of the remainder>>

sbnVars == <<sbn, np, dp, n2, d2, cnt, dinv, n1, i, qh, qp, rs, lengths>>

Low(x) == x % W

-----------------------------------------------------------------------------
(* The kernels, on words at .. at+k-1 of f: columns whose carries move up,   *)
(* negative ones for a borrow; what leaves at the top is `carry`.            *)

Carries(column, k) ==
  LET c[l \in 0 .. k] == IF l = 0 THEN 0 ELSE (column[l - 1] + c[l - 1]) \div W
  IN  c
Resolved(f, at, column, k) ==
  LET c == Carries(column, k)
  IN  [words |-> [x \in DOMAIN f |-> IF x - at \in 0 .. k - 1 THEN Low(column[x - at] + c[x - at]) ELSE f[x]],
       carry |-> c[k]]
sbn_add_n(f, at, g, k) == Resolved(f, at, [l \in 0 .. k - 1 |-> f[at + l] + g[l]], k)
sbn_submul_1(f, at, g, k, q) ==
  LET s == Resolved(f, at, [l \in 0 .. k - 1 |-> f[at + l] - (q * g[l])], k)
  IN  [words |-> s.words, carry |-> -s.carry]
sbn_sub_n(f, at, g, k) == sbn_submul_1(f, at, g, k, 1)

-----------------------------------------------------------------------------
(* Reciprocals and shifts *)

sbn_invert_limb(d) == ((((W - 1 - d) * W) + W - 1) \div d)

(* sbn_invert_pi1: the reciprocal of d1 corrected for d0, at most twice for   *)
(* p + d0 and once or twice for the product of d0.                            *)
sbn_invert_pi1(d1, d0) ==
  LET v0 == sbn_invert_limb(d1)
      p0 == Low(Low(d1 * v0) + d0)
      over == p0 < d0
      twice == p0 >= d1
      v1 == IF ~over THEN v0 ELSE Low(v0 - 1 - (IF twice THEN 1 ELSE 0))
      p1 == IF ~over THEN p0 ELSE Low(p0 - d1 - (IF twice THEN d1 ELSE 0))
      t1 == (d0 * v1) \div W
      t0 == Low(d0 * v1)
      p2 == Low(p1 + t1)
  IN  IF p2 >= t1 THEN v1
      ELSE Low(v1 - 1 - (IF p2 > d1 \/ (p2 = d1 /\ t0 >= d0) THEN 1 ELSE 0))

(* sbn_udiv_qr_3by2: one word of the quotient from three words over two. *)
sbn_udiv_qr_3by2(m2, m1, m0, d1, d0, v) ==
  LET two(h, l) == (h * W) + l
      mod2(x) == x % (W * W)
      est == mod2((m2 * v) + two(m2, m1))
      q0 == est \div W
      rem == mod2(two(Low(m1 - (d1 * q0)), m0) - two(d1, d0) - (d0 * q0))
      back == rem \div W >= Low(est)              \* the incremented estimate is too large
      q1 == Low(q0 + 1 - (IF back THEN 1 ELSE 0))
      rem1 == IF back THEN mod2(rem + two(d1, d0)) ELSE rem
  IN  IF rem1 >= two(d1, d0)
      THEN [q |-> Low(q1 + 1), r |-> rem1 - two(d1, d0)]
      ELSE [q |-> q1, r |-> rem1]

sbn_lshift(f, c) ==
  [x \in DOMAIN f |-> Low(f[x] * Power(2, c)) + (IF x = 0 THEN 0 ELSE f[x - 1] \div Power(2, WordBits - c))]
sbn_rshift(f, k, c) ==
  [x \in 0 .. k - 1 |-> (f[x] \div Power(2, c)) + (IF x = k - 1 THEN 0 ELSE Low(f[x + 1] * Power(2, WordBits - c)))]
sbn_cmp(f, at, g) ==                              \* f from `at` on is not below g
  LET differ == {x \in DOMAIN g : f[at + x] # g[x]}
  IN  differ = {} \/ \E x \in differ : (\A y \in differ : y <= x) /\ f[at + x] > g[x]

-----------------------------------------------------------------------------
nn == Cardinality(DOMAIN np)
dn == Cardinality(DOMAIN dp)
clz(x) == CHOOSE c \in 0 .. WordBits - 1 : x * Power(2, c) < W /\ x * Power(2, c) >= W \div 2
Trimmed(f, k) ==
  LET keep == {x \in 1 .. k : x = 1 \/ f[x - 1] # 0}
  IN  CHOOSE x \in keep : \A y \in keep : y <= x

Normalise ==
  /\ sbn = "call"
  /\ \E c \in {clz(dp[dn - 1])} : \E d \in {sbn_lshift(dp, c)} :
       /\ cnt' = c
       /\ d2' = d
       /\ n2' = sbn_lshift([x \in 0 .. nn |-> IF x < nn THEN np[x] ELSE 0], c)
       /\ dinv' = sbn_invert_pi1(d[dn - 1], d[dn - 2])
  /\ sbn' = "top"
  /\ UNCHANGED <<np, dp, n1, i, qh, qp, rs, lengths>>

(* sbn_sbpi1_div_qr starts: a top part not below the divisor gives the carry. *)
Top ==
  /\ sbn = "top"
  /\ \E above \in {sbn_cmp(n2, nn + 1 - dn, d2)} :
       /\ qh' = IF above THEN 1 ELSE 0
       /\ n2' = IF above THEN sbn_sub_n(n2, nn + 1 - dn, d2, dn).words ELSE n2
  /\ n1' = n2'[nn]
  /\ i' = nn + 1 - dn
  /\ sbn' = "loop"
  /\ UNCHANGED <<np, dp, d2, cnt, dinv, qp, rs, lengths>>

(* A turn finds word i - 1: `at` is the dividend's word under the divisor's   *)
(* lowest.                                                                    *)
LargestDigit(at) ==
  /\ n1 = d2[dn - 1] /\ n2[at + dn - 1] = d2[dn - 2]
  /\ \E s \in {sbn_submul_1(n2, at, d2, dn, W - 1)} :
       n2' = s.words /\ n1' = s.words[at + dn - 1]
  /\ qp' = [qp EXCEPT ![at] = W - 1]

(* The two words of the 3/2 remainder less the carry; when it does not pay,   *)
(* the divisor goes back once.                                                *)
Borrows_late(r, c) == r + 1 < c
Borrows(r, c) == r < c
EstimatedDigit(at) ==
  /\ ~ (n1 = d2[dn - 1] /\ n2[at + dn - 1] = d2[dn - 2])
  /\ \E e \in {sbn_udiv_qr_3by2(n1, n2[at + dn - 1], n2[at + dn - 2], d2[dn - 1], d2[dn - 2], dinv)} :
     \E s \in {sbn_submul_1(n2, at, d2, dn - 2, e.q)} :
     \E m \in {[s.words EXCEPT ![at + dn - 2] = Low(e.r - s.carry)]} :
     \E top \in {((e.r - s.carry) % (W * W)) \div W} :
       IF Borrows(e.r, s.carry)
       THEN \E a \in {sbn_add_n(m, at, d2, dn - 1)} :
              /\ n2' = a.words
              /\ n1' = Low(top + d2[dn - 1] + a.carry)
              /\ qp' = [qp EXCEPT ![at] = Low(e.q - 1)]
       ELSE n2' = m /\ n1' = top /\ qp' = [qp EXCEPT ![at] = e.q]
Turn ==
  /\ sbn = "loop" /\ i > 0
  /\ LargestDigit(i - 1) \/ EstimatedDigit(i - 1)
  /\ i' = i - 1
  /\ UNCHANGED <<sbn, np, dp, d2, cnt, dinv, qh, rs, lengths>>

(* The register goes back, the remainder is shifted down, lengths are trimmed. *)
Finish ==
  /\ sbn = "loop" /\ i = 0
  /\ n2' = [n2 EXCEPT ![dn - 1] = n1]
  /\ \E r \in {sbn_rshift(n2', dn, cnt)} :
       rs' = r /\ lengths' = <<Trimmed(qp, nn - dn + 1), Trimmed(r, dn)>>
  /\ sbn' = "done"
  /\ UNCHANGED <<np, dp, d2, cnt, dinv, n1, i, qh, qp>>

-----------------------------------------------------------------------------
SbnInit ==
  /\ sbn = "call"
  /\ \E c \in Divisions :
       np = [x \in 0 .. Len(c[1]) - 1 |-> c[1][x + 1]] /\ dp = [x \in 0 .. Len(c[2]) - 1 |-> c[2][x + 1]]
  /\ n2 = <<>> /\ d2 = <<>> /\ cnt = 0 /\ dinv = 0 /\ n1 = 0 /\ i = 0 /\ qh = 0
  /\ qp = [x \in 0 .. nn - dn |-> 0] /\ rs = <<>> /\ lengths = <<0, 0>>

SbnNext == Normalise \/ Top \/ Turn \/ Finish

SbnSpec == SbnInit /\ [][SbnNext]_sbnVars

-----------------------------------------------------------------------------
(* Properties *)

(* Whatever mixture of largest digits, estimates and add-backs finds them,   *)
(* the dividend is the quotient times the divisor plus a smaller remainder,  *)
(* the quotient has no carry, and both lengths leave no zero word on top.    *)
SbnRight ==
  sbn = "done" =>
    /\ qh = 0
    /\ Number(np, nn, W) = Number(qp, nn - dn + 1, W) * Number(dp, dn, W) + Number(rs, dn, W)
    /\ Number(rs, dn, W) < Number(dp, dn, W)
    /\ \A x \in DOMAIN qp : x >= lengths[1] => qp[x] = 0
    /\ \A x \in DOMAIN rs : x >= lengths[2] => rs[x] = 0
    /\ lengths[1] = 1 \/ qp[lengths[1] - 1] # 0
    /\ lengths[2] = 1 \/ rs[lengths[2] - 1] # 0
=============================================================================
