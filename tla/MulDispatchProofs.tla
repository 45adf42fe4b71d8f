------------------------- MODULE MulDispatchProofs -------------------------
(***************************************************************************)
(* The recursion of mul_u52_dispatch asks for legal shapes and reports the *)
(* right class of every product, whatever the sizes of the operands, the   *)
(* thresholds and the lengths of differences.                              *)
(***************************************************************************)
EXTENDS MulDispatch, SequenceTheorems, NumberProofs, TLAPS

-----------------------------------------------------------------------------
(* The inductive invariant *)

IsSequence(s) == s \in Seq({s[i] : i \in 1 .. Len(s)})
IsFrame(f) ==
  f = [alg |-> f.alg, an |-> f.an, bn |-> f.bn, canon |-> f.canon, calls |-> f.calls, got |-> f.got]

(* A call an algorithm may make when its own operands have size limbs. *)
GoodCall(c, size) ==
  /\ c.alg \in {"dispatch", "toom42"} /\ c.an \in Nat /\ c.bn \in Nat
  /\ ShapeFits(c.alg, c.an, c.bn) /\ Size(c) < size
GoodCalls(calls, size) ==
  /\ IsSequence(calls)
  /\ \A j \in 1 .. Len(calls) : GoodCall(calls[j], size)

GoodFrame(f) ==
  /\ IsFrame(f) /\ f.an \in Nat /\ f.bn \in Nat
  /\ ShapeFits(f.alg, f.an, f.bn)
  /\ GoodCalls(f.calls, Size(f)) /\ StripsFit(f)
  /\ IsSequence(f.got)

Nested(s) == \A k \in 2 .. Len(s) : Size(s[k]) < Size(s[k - 1])

GoodStack(s) ==
  /\ IsSequence(s)
  /\ \A k \in 1 .. Len(s) : GoodFrame(s[k])
  /\ Nested(s)

IInv == GoodStack(stack)

-----------------------------------------------------------------------------
(* Sequences *)

LEMMA EmptyIsSequence ==
  IsSequence(<< >>) /\ Len(<< >>) = 0
BY EmptySeq DEF IsSequence

LEMMA FunctionIsSequence ==
  ASSUME NEW n \in Nat, NEW s, s = [i \in 1 .. n |-> s[i]]
  PROVE  IsSequence(s) /\ Len(s) = n
<1> DEFINE S == {s[i] : i \in 1 .. n}
<1>1. s \in [1 .. n -> S]
  OBVIOUS
<1>2. s \in Seq(S)
  BY <1>1, SeqDef
<1>3. Len(s) = n
  BY <1>1, <1>2, LenProperties
<1> QED BY <1>2, <1>3 DEF IsSequence

LEMMA SequenceFacts ==
  ASSUME NEW s, IsSequence(s)
  PROVE  Len(s) \in Nat /\ s = [i \in 1 .. Len(s) |-> s[i]] /\ (s # << >> => Len(s) > 0)
<1>1. Len(s) \in Nat /\ s \in [1 .. Len(s) -> {s[i] : i \in 1 .. Len(s)}]
  BY LenProperties DEF IsSequence
<1>2. s # << >> => Len(s) \in Nat \ {0}
  BY EmptySeq DEF IsSequence
<1> QED BY <1>1, <1>2

LEMMA AppendFacts ==
  ASSUME NEW s, NEW e, IsSequence(s)
  PROVE  /\ IsSequence(Append(s, e)) /\ Len(Append(s, e)) = Len(s) + 1
         /\ \A i \in 1 .. Len(s) : Append(s, e)[i] = s[i]
         /\ Append(s, e)[Len(s) + 1] = e
<1> DEFINE S == {s[i] : i \in 1 .. Len(s)}  T == S \cup {e}  t == Append(s, e)
<1>1. s \in Seq(T) /\ e \in T
  BY SeqMonotonic DEF IsSequence
<1> HIDE DEF T
<1>2. /\ t \in Seq(T) /\ Len(t) = Len(s) + 1
      /\ \A i \in 1 .. Len(s) : t[i] = s[i]
      /\ t[Len(s) + 1] = e
  BY <1>1, AppendProperties
<1>3. Len(t) \in Nat /\ t \in [1 .. Len(t) -> T]
  BY <1>2, LenProperties
<1> HIDE DEF t
<1>4. IsSequence(t)
  BY <1>3, FunctionIsSequence
<1> QED BY <1>2, <1>4 DEF t

LEMMA PrefixFacts ==
  ASSUME NEW s, IsSequence(s), Len(s) > 0
  PROVE  LET p == SubSeq(s, 1, Len(s) - 1)
         IN  /\ IsSequence(p) /\ Len(p) = Len(s) - 1
             /\ \A i \in 1 .. Len(s) - 1 : p[i] = s[i]
<1> DEFINE S == {s[i] : i \in 1 .. Len(s)}  n == Len(s) - 1  p == SubSeq(s, 1, n)
<1>1. Len(s) \in Nat /\ n \in Nat /\ \A i \in 1 .. n : s[i] \in S
  BY SequenceFacts
<1> HIDE DEF n, S
<1>2. /\ p \in Seq(S)
      /\ Len(p) = IF 1 <= n THEN n - 1 + 1 ELSE 0
      /\ \A i \in 1 .. n - 1 + 1 : p[i] = s[1 + i - 1]
  BY <1>1, SubSeqProperties
<1>3. Len(p) \in Nat /\ p \in [1 .. Len(p) -> S]
  BY <1>2, LenProperties
<1> HIDE DEF p
<1>4. Len(p) = n /\ \A i \in 1 .. n : p[i] = s[i]
  BY <1>1, <1>2
<1>5. IsSequence(p)
  BY <1>3, FunctionIsSequence
<1> QED BY <1>4, <1>5 DEF p, n

-----------------------------------------------------------------------------
(* Sizes *)

LEMMA QuotientFacts ==
  ASSUME NEW x \in Nat, NEW b \in Nat \ {0}
  PROVE  /\ x \div b \in Nat /\ x % b \in Nat
         /\ x = b * (x \div b) + (x % b) /\ x % b < b
OBVIOUS

LEMMA MagnitudeBounds ==
  ASSUME NEW gap \in Int, NEW k \in Nat
  PROVE  Magnitude(k, gap) \in Nat /\ Magnitude(k, gap) <= k
<1> DEFINE v == (k + Vector - 1) \div Vector
<1>1. Vector \in Nat \ {0}
  BY MulDispatchAssumption
<1>2. v \in Nat /\ Vector * v <= k + Vector - 1
  BY <1>1
<1>3. Magnitude(k, gap) = IF gap = 0 \/ gap >= v THEN k ELSE IF gap < 0 THEN 0 ELSE (v - gap) * Vector
  BY DEF Magnitude
<1> HIDE DEF v
<1>4. CASE 0 < gap /\ gap < v
  <2>1. PICK d \in Nat : d = v - gap /\ d <= v - 1
    BY <1>2, <1>4
  <2>2. d * Vector \in Nat /\ d * Vector <= (v - 1) * Vector
    BY <1>1, <1>2, <2>1
  <2>3. (v - 1) * Vector = Vector * v - Vector
    BY <1>1, <1>2
  <2> QED BY <1>1, <1>2, <1>3, <1>4, <2>1, <2>2, <2>3
<1> QED BY <1>2, <1>3, <1>4

LEMMA MagnitudesBound ==
  ASSUME NEW gaps \in Int \X Int, NEW k \in Nat, NEW l \in Nat
  PROVE  /\ Magnitude(k, gaps[1]) \in Nat /\ Magnitude(k, gaps[1]) <= k
         /\ Magnitude(l, gaps[2]) \in Nat /\ Magnitude(l, gaps[2]) <= l
<1>1. gaps[1] \in Int /\ gaps[2] \in Int
  OBVIOUS
<1> QED BY <1>1, MagnitudeBounds

(* A full strip has the shape toom42 is written for. *)
LEMMA FullStrip ==
  ASSUME NEW bn \in Nat, bn > 3
  PROVE  Toom42Shape(2 * bn, bn)
BY DEF Toom42Shape, Toom42Part

(* A strip of up to 3 bn limbs fits the buffer with its product. *)
LEMMA StripBuffer ==
  ASSUME NEW bn \in Nat, NEW w \in Nat, w <= 3 * bn
  PROVE  w + bn <= Vector * ((4 * bn + Vector - 1) \div Vector)
<1> DEFINE x == 4 * bn + Vector - 1
<1>1. Vector \in Nat \ {0} /\ x \in Nat
  BY MulDispatchAssumption
<1>2. x \div Vector \in Nat /\ x < Vector * (x \div Vector) + Vector
  BY <1>1, QuotientFacts
<1> QED BY <1>1, <1>2

(* The widths of the strips. *)
LEMMA StripsBounds ==
  ASSUME NEW an \in Nat, NEW bn \in Nat, bn > 0, 2 * an >= 5 * bn
  PROVE  LET w == Strips(an, bn)
         IN  /\ Len(w) \in Nat /\ w = [k \in 1 .. Len(w) |-> w[k]]
             /\ \A k \in 1 .. Len(w) :
                  w[k] \in Nat /\ w[k] <= 3 * bn /\ w[k] < an
                  /\ (~Equalized(an, bn) /\ k < Len(w) => w[k] = 2 * bn)
<1> DEFINE b == 2 * bn  blocks == (an + bn) \div b  part == an \div blocks
           quot == (an - bn) \div b  full == Most(1, quot)  rest == an - full * b
           w == Strips(an, bn)
           Good(x) == x \in Nat /\ x <= 3 * bn /\ x < an
<1>1. b \in Nat \ {0} /\ an - bn \in Nat /\ an > b /\ an + bn \in Nat
  OBVIOUS
<1>2. CASE Equalized(an, bn)
  <2>1. blocks \in Nat /\ blocks >= 2 /\ an + bn < b * blocks + b
    BY <1>1, <1>2, QuotientFacts DEF Equalized
  <2>2. w = [k \in 1 .. blocks |-> part + (IF k <= an % blocks THEN 1 ELSE 0)]
    BY <1>2 DEF Strips
  <2> HIDE DEF blocks, w
  <2>3. part \in Nat /\ blocks * part <= an
    BY <2>1
  <2> HIDE DEF part
  <2>4. part < 3 * bn
    <3>1. SUFFICES ASSUME part >= 3 * bn PROVE FALSE
      BY <2>3
    <3>2. blocks * part >= blocks * (3 * bn)
      BY <2>1, <2>3, <3>1
    <3>3. blocks * (3 * bn) = b * blocks + blocks * bn /\ blocks * bn >= 2 * bn
      BY <2>1
    <3> QED BY <2>1, <2>3, <3>2, <3>3
  <2>5. part + 1 < an
    <3>1. blocks * part >= 2 * part
      BY <2>1, <2>3
    <3> QED BY <2>1, <2>3, <3>1
  <2>6. Len(w) = blocks
    BY <2>1, <2>2, FunctionIsSequence
  <2>7. \A k \in 1 .. blocks : w[k] = part \/ w[k] = part + 1
    BY <2>2, <2>3
  <2>8. Good(part) /\ Good(part + 1)
    BY <2>3, <2>4, <2>5
  <2> HIDE DEF Good
  <2>9. Len(w) \in Nat /\ w = [k \in 1 .. Len(w) |-> w[k]] /\ \A k \in 1 .. Len(w) : Good(w[k])
    BY <2>1, <2>2, <2>6, <2>7, <2>8
  <2> QED BY <1>2, <2>9 DEF w, Good
<1>3. CASE ~Equalized(an, bn)
  <2>1. w = [k \in 1 .. full + 1 |-> IF k <= full THEN b ELSE an - full * 2 * bn]
    BY <1>3 DEF Strips
  <2>2. quot \in Nat /\ b * quot <= an - bn /\ an - bn < b * quot + b
    <3> DEFINE x == an - bn
    <3> HIDE DEF b, x
    <3>1. x \in Nat /\ b \in Nat \ {0}
      BY <1>1 DEF x
    <3>2. x \div b \in Nat /\ x % b \in Nat /\ x = b * (x \div b) + (x % b) /\ x % b < b
      BY <3>1, QuotientFacts
    <3>3. b * (x \div b) <= x /\ x < b * (x \div b) + b
      BY <3>1, <3>2
    <3> QED BY <3>2, <3>3 DEF x
  <2> HIDE DEF quot
  <2>3. full \in Nat /\ full >= 1 /\ (quot >= 1 => full = quot) /\ (quot = 0 => full = 1)
    BY <2>2 DEF Most
  <2> HIDE DEF full
  <2>4. an - full * 2 * bn = rest /\ full * b \in Nat /\ full * b >= b
    BY <1>1, <2>3
  <2>5. Good(rest)
    <3>1. CASE quot = 0
      BY <1>1, <2>2, <2>3, <3>1
    <3>2. CASE quot >= 1
      <4>1. full * b = b * quot
        BY <1>1, <2>2, <2>3, <3>2
      <4> QED BY <1>1, <2>2, <2>4, <4>1
    <3> QED BY <2>2, <3>1, <3>2
  <2>6. Good(b)
    BY <1>1
  <2> HIDE DEF rest, w, Good, b
  <2>7. w = [k \in 1 .. full + 1 |-> IF k <= full THEN b ELSE rest]
    BY <2>1, <2>4
  <2>8. Len(w) = full + 1
    BY <2>3, <2>7, FunctionIsSequence
  <2>9. /\ Len(w) \in Nat /\ w = [k \in 1 .. Len(w) |-> w[k]]
        /\ \A k \in 1 .. Len(w) : Good(w[k]) /\ (k < Len(w) => w[k] = b)
    BY <2>3, <2>5, <2>6, <2>7, <2>8
  <2> QED BY <2>9 DEF w, Good, b
<1> QED BY <1>2, <1>3

-----------------------------------------------------------------------------
(* The calls of each algorithm *)

LEMMA TupleOfCalls ==
  ASSUME NEW size, NEW c1, NEW c2, NEW c3, NEW c4, NEW c5,
         GoodCall(c1, size), GoodCall(c2, size), GoodCall(c3, size)
  PROVE  /\ GoodCalls(<<c1, c2, c3>>, size)
         /\ GoodCall(c4, size) => GoodCalls(<<c1, c2, c3, c4>>, size)
         /\ GoodCall(c4, size) /\ GoodCall(c5, size) => GoodCalls(<<c1, c2, c3, c4, c5>>, size)
<1>1. IsSequence(<<c1, c2, c3>>) /\ Len(<<c1, c2, c3>>) = 3
  BY DEF IsSequence
<1>2. IsSequence(<<c1, c2, c3, c4>>) /\ Len(<<c1, c2, c3, c4>>) = 4
  BY DEF IsSequence
<1>3. IsSequence(<<c1, c2, c3, c4, c5>>) /\ Len(<<c1, c2, c3, c4, c5>>) = 5
  BY DEF IsSequence
<1> QED BY <1>1, <1>2, <1>3 DEF GoodCalls

LEMMA NoCalls ==
  ASSUME NEW size
  PROVE  GoodCalls(<< >>, size)
BY EmptyIsSequence DEF GoodCalls

LEMMA KaratsubaGood ==
  ASSUME NEW an \in Nat, NEW bn \in Nat, an >= bn, NEW gaps \in Int \X Int,
         ~TooThin(an, bn)
  PROVE  GoodCalls(KaratsubaCalls(an, bn, gaps), an + bn)
<1> DEFINE h == Split(an)  m == Magnitude(an - h, gaps[1])
           k == Magnitude(Most(h, bn - h), gaps[2])
<1>1. h \in Nat /\ h > 0 /\ 2 * h <= an /\ bn > h /\ an - h \in Nat /\ bn - h \in Nat
  BY DEF Split, TooThin
<1> HIDE DEF h
<1>2. Most(h, bn - h) \in Nat /\ Most(h, bn - h) < bn
  BY <1>1 DEF Most
<1>3. m \in Nat /\ m <= an - h /\ k \in Nat /\ k <= Most(h, bn - h)
  BY <1>1, <1>2, MagnitudesBound
<1> HIDE DEF m, k
<1>4. GoodCall(Call("dispatch", m, k, FALSE), an + bn)
  BY <1>1, <1>2, <1>3 DEF GoodCall, Call, ShapeFits, Size
<1>5. GoodCall(Call("dispatch", h, h, FALSE), an + bn)
  BY <1>1 DEF GoodCall, Call, ShapeFits, Size
<1>6. GoodCall(Call("dispatch", an - h, bn - h, FALSE), an + bn)
  BY <1>1 DEF GoodCall, Call, ShapeFits, Size
<1> QED BY <1>4, <1>5, <1>6, TupleOfCalls DEF KaratsubaCalls, h, m, k

LEMMA Toom32Good ==
  ASSUME NEW an \in Nat, NEW bn \in Nat, NEW gaps \in Int \X Int, Toom32Shape(an, bn)
  PROVE  GoodCalls(Toom32Calls(an, bn, gaps), an + bn)
<1> DEFINE n == Toom32Part(an, bn)  m == Magnitude(n + 1, gaps[1])  k == Magnitude(n, gaps[2])
<1>1. n \in Nat /\ n >= 2 /\ an - 2 * n \in Nat /\ bn - n \in Nat /\ an + bn > 4 * n
  BY DEF Toom32Shape, Toom32Part
<1> HIDE DEF n
<1>2. m \in Nat /\ m <= n + 1 /\ k \in Nat /\ k <= n
  <2>1. n + 1 \in Nat
    BY <1>1
  <2> QED BY <1>1, <2>1, MagnitudesBound DEF m, k
<1> HIDE DEF m, k
<1>3. GoodCall(Call("dispatch", n + 1, n + 1, TRUE), an + bn)
  BY <1>1 DEF GoodCall, Call, ShapeFits, Size
<1>4. GoodCall(Call("dispatch", m, k, TRUE), an + bn)
  BY <1>1, <1>2 DEF GoodCall, Call, ShapeFits, Size
<1>5. GoodCall(Call("dispatch", n, n, TRUE), an + bn)
  BY <1>1 DEF GoodCall, Call, ShapeFits, Size
<1>6. GoodCall(Call("dispatch", an - 2 * n, bn - n, TRUE), an + bn)
  BY <1>1 DEF GoodCall, Call, ShapeFits, Size
<1> QED BY <1>3, <1>4, <1>5, <1>6, TupleOfCalls DEF Toom32Calls, n, m, k

LEMMA Toom5Good ==
  ASSUME NEW n \in Nat, NEW s \in Nat, NEW t \in Nat, NEW lam \in Nat, NEW lbm \in Nat,
         NEW size \in Nat, n >= 2, s <= n, t <= n, lam <= n + 1, lbm <= n + 1, size > 4 * n
  PROVE  GoodCalls(Toom5Calls(n, s, t, lam, lbm), size)
<1>1. GoodCall(Call("dispatch", lam, lbm, TRUE), size)
  <2>1. lam + lbm <= 2 * n + 2
    OBVIOUS
  <2> QED BY <2>1 DEF GoodCall, Call, ShapeFits, Size
<1>2. GoodCall(Call("dispatch", n + 1, n + 1, TRUE), size)
  BY DEF GoodCall, Call, ShapeFits, Size
<1>3. GoodCall(Call("dispatch", s, t, TRUE), size)
  BY DEF GoodCall, Call, ShapeFits, Size
<1>4. GoodCall(Call("dispatch", n, n, TRUE), size)
  BY DEF GoodCall, Call, ShapeFits, Size
<1> QED BY <1>1, <1>2, <1>3, <1>4, TupleOfCalls DEF Toom5Calls

LEMMA Toom33Good ==
  ASSUME NEW an \in Nat, NEW bn \in Nat, NEW gaps \in Int \X Int, Toom33Shape(an, bn)
  PROVE  GoodCalls(Calls("toom33", an, bn, gaps), an + bn)
<1> DEFINE n == Toom33Part(an)  m == Magnitude(n + 1, gaps[1])  k == Magnitude(n + 1, gaps[2])
<1>1. /\ n \in Nat /\ n >= 2 /\ an - 2 * n \in Nat /\ bn - 2 * n \in Nat
      /\ an - 2 * n <= n /\ bn - 2 * n <= n /\ an + bn > 4 * n
  BY DEF Toom33Shape, Toom33Part
<1> HIDE DEF n
<1>2. m \in Nat /\ m <= n + 1 /\ k \in Nat /\ k <= n + 1
  <2>1. n + 1 \in Nat
    BY <1>1
  <2> QED BY <1>1, <2>1, MagnitudesBound DEF m, k
<1> HIDE DEF m, k
<1>3. GoodCalls(Toom5Calls(n, an - 2 * n, bn - 2 * n, m, k), an + bn)
  BY SMTT(40), <1>1, <1>2, Toom5Good
<1> QED BY <1>3 DEF Calls, n, m, k

LEMMA Toom42Good ==
  ASSUME NEW an \in Nat, NEW bn \in Nat, NEW gaps \in Int \X Int, Toom42Shape(an, bn)
  PROVE  GoodCalls(Calls("toom42", an, bn, gaps), an + bn)
<1> DEFINE n == Toom42Part(an, bn)  m == Magnitude(n + 1, gaps[1])  k == Magnitude(n, gaps[2])
<1>1. /\ n \in Nat /\ n >= 2 /\ an - 3 * n \in Nat /\ bn - n \in Nat
      /\ an - 3 * n <= n /\ bn - n <= n /\ an + bn > 4 * n
  BY DEF Toom42Shape, Toom42Part
<1> HIDE DEF n
<1>2. m \in Nat /\ m <= n + 1 /\ k \in Nat /\ k <= n
  <2>1. n + 1 \in Nat
    BY <1>1
  <2> QED BY <1>1, <2>1, MagnitudesBound DEF m, k
<1> HIDE DEF m, k
<1>3. GoodCalls(Toom5Calls(n, an - 3 * n, bn - n, m, k), an + bn)
  BY SMTT(40), <1>1, <1>2, Toom5Good
<1> QED BY <1>3 DEF Calls, n, m, k

LEMMA StripmineGood ==
  ASSUME NEW an \in Nat, NEW bn \in Nat, bn > 3, 2 * an >= 5 * bn
  PROVE  /\ GoodCalls(StripCalls(an, bn), an + bn)
         /\ \A j \in 1 .. Len(StripCalls(an, bn)) :
              Size(StripCalls(an, bn)[j]) <= Vector * ((4 * bn + Vector - 1) \div Vector)
<1> DEFINE w == Strips(an, bn)  c == StripCalls(an, bn)
           room == Vector * ((4 * bn + Vector - 1) \div Vector)
           full(k) == ~Equalized(an, bn) /\ k < Len(w)
<1>1. /\ Len(w) \in Nat /\ w = [k \in 1 .. Len(w) |-> w[k]]
      /\ \A k \in 1 .. Len(w) :
           w[k] \in Nat /\ w[k] <= 3 * bn /\ w[k] < an /\ (full(k) => w[k] = 2 * bn)
  BY StripsBounds
<1>2. DOMAIN w = 1 .. Len(w)
  BY <1>1
<1>3. c = [k \in 1 .. Len(w) |-> IF full(k) THEN Call("toom42", w[k], bn, FALSE)
                                 ELSE Call("dispatch", w[k], bn, TRUE)]
  BY <1>2 DEF StripCalls
<1> HIDE DEF c, w
<1>4. IsSequence(c) /\ Len(c) = Len(w)
  <2>1. c = [k \in 1 .. Len(w) |-> c[k]]
    BY <1>3
  <2> QED BY <1>1, <2>1, FunctionIsSequence
<1>5. ASSUME NEW k \in 1 .. Len(w)
      PROVE  GoodCall(c[k], an + bn) /\ Size(c[k]) <= room
  <2>1. w[k] \in Nat /\ w[k] <= 3 * bn /\ w[k] + bn < an + bn /\ (full(k) => w[k] = 2 * bn)
    BY <1>1
  <2> DEFINE x == w[k]
  <2>2. x + bn <= room
    BY <2>1, StripBuffer
  <2>3. c[k] = IF full(k) THEN Call("toom42", x, bn, FALSE) ELSE Call("dispatch", x, bn, TRUE)
    BY <1>3
  <2>4. x \in Nat /\ x + bn < an + bn /\ (full(k) => x = 2 * bn)
    BY <2>1
  <2> HIDE DEF x, full, room
  <2>5. CASE full(k)
    <3>1. c[k] = Call("toom42", x, bn, FALSE) /\ Toom42Shape(x, bn) /\ x >= bn
      BY <2>3, <2>4, <2>5, FullStrip
    <3> QED BY <2>2, <2>4, <3>1 DEF GoodCall, Call, ShapeFits, Size
  <2>6. CASE ~full(k)
    BY <2>2, <2>3, <2>4, <2>6 DEF GoodCall, Call, ShapeFits, Size
  <2> QED BY <2>5, <2>6
<1>6. GoodCalls(c, an + bn)
  BY <1>4, <1>5 DEF GoodCalls
<1> QED BY <1>4, <1>5, <1>6 DEF c

(* The choice of an algorithm tests what the algorithm relies on. *)
Algorithms == {"basecase", "karatsuba", "toom32", "toom33", "toom42", "stripmine"}
LEMMA ChoiceFits ==
  ASSUME NEW an \in Nat, NEW bn \in Nat, an >= bn, bn > 0
  PROVE  LET alg == Choice(an, bn)
         IN  /\ alg \in Algorithms /\ ShapeFits(alg, an, bn)
             /\ alg = "stripmine" => bn > 3 /\ 2 * an >= 5 * bn
<1>1. T22 \in Nat /\ T33 \in Nat /\ T22 > 3 /\ T22 <= T33
  BY MulDispatchAssumption
<1>2. LET alg == ToomX2(an, bn)
      IN  /\ alg \in Algorithms /\ ShapeFits(alg, an, bn)
          /\ alg = "stripmine" => 2 * an >= 5 * bn
  BY DEF ToomX2, Algorithms, ShapeFits
<1>3. LET alg == ToomX3(an, bn)
      IN  /\ alg \in Algorithms /\ ShapeFits(alg, an, bn)
          /\ alg = "stripmine" => 2 * an >= 5 * bn
  BY DEF ToomX3, Algorithms, ShapeFits
<1>4. ShapeFits("basecase", an, bn) /\ "basecase" \in Algorithms
  BY DEF ShapeFits, Algorithms
<1> QED BY <1>1, <1>2, <1>3, <1>4 DEF Choice

LEMMA CallsGood ==
  ASSUME NEW an \in Nat, NEW bn \in Nat, NEW gaps \in Int \X Int,
         NEW alg \in Algorithms, ShapeFits(alg, an, bn),
         alg = "stripmine" => bn > 3 /\ 2 * an >= 5 * bn
  PROVE  /\ GoodCalls(Calls(alg, an, bn, gaps), an + bn)
         /\ alg = "stripmine" =>
              \A j \in 2 .. Len(Calls(alg, an, bn, gaps)) :
                Size(Calls(alg, an, bn, gaps)[j]) <= Vector * ((4 * bn + Vector - 1) \div Vector)
<1>1. CASE alg = "basecase"
  BY <1>1, NoCalls DEF Calls
<1>2. CASE alg = "karatsuba"
  <2>1. Calls(alg, an, bn, gaps) = IF TooThin(an, bn) THEN << >> ELSE KaratsubaCalls(an, bn, gaps)
    BY <1>2 DEF Calls
  <2>2. an >= bn
    BY <1>2 DEF ShapeFits
  <2>3. CASE TooThin(an, bn)
    BY <1>2, <2>1, <2>3, NoCalls
  <2>4. CASE ~TooThin(an, bn)
    BY <1>2, <2>1, <2>2, <2>4, KaratsubaGood
  <2> QED BY <2>3, <2>4
<1>3. CASE alg = "toom32"
  <2>1. Calls(alg, an, bn, gaps) = Toom32Calls(an, bn, gaps) /\ Toom32Shape(an, bn)
    BY <1>3 DEF Calls, ShapeFits
  <2> QED BY <1>3, <2>1, Toom32Good
<1>4. CASE alg = "toom33"
  BY <1>4, Toom33Good DEF ShapeFits
<1>5. CASE alg = "toom42"
  BY <1>5, Toom42Good DEF ShapeFits
<1>6. CASE alg = "stripmine"
  <2>1. Calls(alg, an, bn, gaps) = StripCalls(an, bn)
    BY <1>6 DEF Calls
  <2> DEFINE c == StripCalls(an, bn)
  <2>2. /\ GoodCalls(c, an + bn)
        /\ \A j \in 1 .. Len(c) : Size(c[j]) <= Vector * ((4 * bn + Vector - 1) \div Vector)
    BY <1>6, StripmineGood
  <2>3. Len(c) \in Nat
    BY <2>2, SequenceFacts DEF GoodCalls
  <2> HIDE DEF c
  <2> QED BY <1>6, <2>1, <2>2, <2>3 DEF c
<1> QED BY <1>1, <1>2, <1>3, <1>4, <1>5, <1>6 DEF Algorithms

-----------------------------------------------------------------------------
(* The stack *)

(* What the updates of a call in progress leave alone. *)
LEMMA UpdatedFrame ==
  ASSUME NEW t, IsFrame(t), NEW v
  PROVE  /\ LET f == [t EXCEPT !.got = v]
            IN  /\ IsFrame(f) /\ f.alg = t.alg /\ f.an = t.an /\ f.bn = t.bn /\ f.canon = t.canon
                /\ f.calls = t.calls /\ f.got = v
         /\ LET f == [t EXCEPT !.calls = v]
            IN  /\ IsFrame(f) /\ f.alg = t.alg /\ f.an = t.an /\ f.bn = t.bn
                /\ f.calls = v /\ f.got = t.got
<1> DEFINE Rec(a, x, y, n, c, g) ==
             [alg |-> a, an |-> x, bn |-> y, canon |-> n, calls |-> c, got |-> g]
<1>1. PICK a, x, y, n, c, g : t = Rec(a, x, y, n, c, g)
  BY DEF IsFrame
<1>2. t.alg = a /\ t.an = x /\ t.bn = y /\ t.canon = n /\ t.calls = c /\ t.got = g
  BY <1>1
<1>3. [Rec(a, x, y, n, c, g) EXCEPT !.got = v] = Rec(a, x, y, n, c, v)
  OBVIOUS
<1>4. [Rec(a, x, y, n, c, g) EXCEPT !.calls = v] = Rec(a, x, y, n, v, g)
  OBVIOUS
<1>5. [t EXCEPT !.got = v] = Rec(a, x, y, n, c, v) /\ [t EXCEPT !.calls = v] = Rec(a, x, y, n, v, g)
  BY <1>1, <1>3, <1>4
<1> QED BY <1>2, <1>5 DEF IsFrame

LEMMA TopGood ==
  ASSUME GoodStack(stack), stack # << >>
  PROVE  Len(stack) \in Nat /\ Len(stack) > 0 /\ GoodFrame(Top)
<1>1. Len(stack) \in Nat /\ Len(stack) > 0
  BY SequenceFacts DEF GoodStack
<1> QED BY <1>1 DEF GoodStack, Top

LEMMA PopGood ==
  ASSUME GoodStack(stack), stack # << >>
  PROVE  GoodStack(Below) /\ Len(Below) = Len(stack) - 1
<1>1. Len(stack) \in Nat /\ Len(stack) > 0
  BY TopGood
<1>2. /\ IsSequence(Below) /\ Len(Below) = Len(stack) - 1
      /\ \A i \in 1 .. Len(stack) - 1 : Below[i] = stack[i]
  BY <1>1, PrefixFacts DEF GoodStack, Below
<1>3. \A k \in 1 .. Len(Below) : GoodFrame(Below[k])
  BY <1>1, <1>2 DEF GoodStack
<1>4. Nested(Below)
  BY <1>1, <1>2 DEF GoodStack, Nested
<1> QED BY <1>2, <1>3, <1>4 DEF GoodStack

LEMMA PushGood ==
  ASSUME NEW s, NEW f, GoodStack(s), GoodFrame(f), Len(s) > 0 => Size(f) < Size(s[Len(s)])
  PROVE  GoodStack(Append(s, f))
<1> DEFINE t == Append(s, f)
<1>1. /\ Len(s) \in Nat /\ IsSequence(t) /\ Len(t) = Len(s) + 1
      /\ \A i \in 1 .. Len(s) : t[i] = s[i]
      /\ t[Len(s) + 1] = f
  BY SequenceFacts, AppendFacts DEF GoodStack
<1> HIDE DEF t
<1>2. \A k \in 1 .. Len(t) : GoodFrame(t[k])
  <2> TAKE k \in 1 .. Len(t)
  <2>1. k \in 1 .. Len(s) \/ k = Len(s) + 1
    BY <1>1
  <2> QED BY <1>1, <2>1 DEF GoodStack
<1>3. Nested(t)
  <2> SUFFICES ASSUME NEW k \in 2 .. Len(t) PROVE Size(t[k]) < Size(t[k - 1])
    BY DEF Nested
  <2>1. CASE k <= Len(s)
    <3>1. t[k] = s[k] /\ t[k - 1] = s[k - 1] /\ k \in 2 .. Len(s)
      BY <1>1, <2>1
    <3> QED BY <3>1 DEF GoodStack, Nested
  <2>2. CASE k = Len(s) + 1
    <3>1. t[k] = f /\ t[k - 1] = s[Len(s)] /\ Len(s) > 0
      BY <1>1, <2>2
    <3> QED BY <3>1
  <2> QED BY <1>1, <2>1, <2>2
<1> QED BY <1>1, <1>2, <1>3 DEF GoodStack, t

(* A call in progress replaced by one of the same size. *)
LEMMA ReplaceGood ==
  ASSUME GoodStack(stack), stack # << >>, NEW f, GoodFrame(f), Size(f) = Size(Top)
  PROVE  GoodStack(Append(Below, f))
<1>1. Len(stack) \in Nat /\ Len(stack) > 0
  BY TopGood
<1>2. GoodStack(Below) /\ Len(Below) = Len(stack) - 1
  BY PopGood
<1>3. ASSUME Len(Below) > 0 PROVE Size(f) < Size(Below[Len(Below)])
  <2>1. Below[Len(Below)] = stack[Len(stack) - 1]
    BY <1>1, <1>2, <1>3, PrefixFacts DEF GoodStack, Below
  <2>2. Size(stack[Len(stack)]) < Size(stack[Len(stack) - 1])
    BY <1>1, <1>2, <1>3 DEF GoodStack, Nested
  <2> QED BY <2>1, <2>2 DEF Top
<1> QED BY <1>2, <1>3, PushGood

LEMMA NewFrame ==
  ASSUME NEW c, NEW size, GoodCall(c, size)
  PROVE  GoodFrame(Frame(c)) /\ Size(Frame(c)) = Size(c)
<1> DEFINE f == Frame(c)
<1>1. /\ IsFrame(f) /\ f.alg = c.alg /\ f.an = c.an /\ f.bn = c.bn
      /\ f.calls = << >> /\ f.got = << >>
  BY DEF Frame, IsFrame
<1> HIDE DEF f
<1>2. IsSequence(f.got) /\ GoodCalls(f.calls, Size(f)) /\ StripsFit(f)
  BY <1>1, EmptyIsSequence, NoCalls DEF StripsFit, GoodCall
<1> QED BY <1>1, <1>2 DEF GoodFrame, GoodCall, Size, f

-----------------------------------------------------------------------------
(* The steps *)

LEMMA ShortfallsAreGaps ==
  ASSUME IsSequence(stack), stack # << >>, NEW gaps \in Shortfalls
  PROVE  gaps \in Int \X Int
<1> DEFINE k == Least(Len(stack), Len(Gaps))
<1>1. Len(stack) \in Nat /\ Len(stack) > 0
  BY SequenceFacts
<1>2. Len(Gaps) \in Nat /\ Len(Gaps) > 0 /\ Gaps \in [1 .. Len(Gaps) -> SUBSET (Int \X Int)]
  BY MulDispatchAssumption, EmptySeq, LenProperties
<1>3. k \in 1 .. Len(Gaps)
  BY <1>1, <1>2 DEF Least
<1> HIDE DEF k
<1>4. Gaps[k] \subseteq Int \X Int
  BY <1>2, <1>3
<1> QED BY <1>4 DEF Shortfalls, k

LEMMA InitGood == Init => IInv
<1> SUFFICES ASSUME Init PROVE IInv
  OBVIOUS
<1>2. PICK s \in Shapes : stack = <<Frame(Call("dispatch", s[1], s[2], FALSE))>>
  BY DEF Init
<1> DEFINE c == Call("dispatch", s[1], s[2], FALSE)  f == Frame(c)
<1>3. s[1] \in Nat /\ s[2] \in Nat
  BY MulDispatchAssumption
<1>4. GoodCall(c, s[1] + s[2] + 1)
  BY <1>3 DEF GoodCall, Call, ShapeFits, Size
<1>5. GoodFrame(f)
  BY <1>4, NewFrame
<1>6. stack = <<f>>
  BY <1>2
<1> HIDE DEF f
<1>7. IsSequence(<<f>>) /\ Len(<<f>>) = 1 /\ <<f>>[1] = f
  BY DEF IsSequence
<1> QED BY <1>5, <1>6, <1>7 DEF IInv, GoodStack, Nested

LEMMA DispatchGood ==
  ASSUME IInv, Dispatch
  PROVE  IInv'
<1> DEFINE o == Ordered(Top)  a == o[1]  b == o[2]  alg == Choice(a, b)
           made(gaps) == [Frame(Call(alg, a, b, Top.canon)) EXCEPT !.calls = Calls(alg, a, b, gaps)]
<1>1. GoodStack(stack) /\ stack # << >> /\ GoodFrame(Top)
  BY TopGood DEF IInv, Dispatch
<1>2. CASE 0 \in {Top.an, Top.bn}
  <2>1. stack' = Below
    BY <1>2 DEF Dispatch
  <2> QED BY <1>1, <2>1, PopGood DEF IInv
<1>3. CASE ~(0 \in {Top.an, Top.bn})
  <2>0. PICK gaps \in Shortfalls : stack' = Append(Below, made(gaps))
    BY <1>3 DEF Dispatch
  <2> DEFINE f == made(gaps)
  <2>1. stack' = Append(Below, f) /\ gaps \in Int \X Int
    BY <1>1, <2>0, ShortfallsAreGaps DEF GoodStack
  <2>2. a \in Nat /\ b \in Nat /\ a >= b /\ b > 0 /\ a + b = Size(Top)
    BY <1>1, <1>3 DEF GoodFrame, Ordered, Size
  <2> HIDE DEF a, b
  <2>3. /\ alg \in Algorithms /\ ShapeFits(alg, a, b)
        /\ alg = "stripmine" => b > 3 /\ 2 * a >= 5 * b
    BY <2>2, ChoiceFits
  <2> HIDE DEF alg
  <2>4. /\ GoodCalls(Calls(alg, a, b, gaps), a + b)
        /\ alg = "stripmine" =>
             \A j \in 2 .. Len(Calls(alg, a, b, gaps)) :
               Size(Calls(alg, a, b, gaps)[j]) <= Vector * ((4 * b + Vector - 1) \div Vector)
    BY <2>1, <2>2, <2>3, CallsGood
  <2>5. /\ IsFrame(f) /\ f.alg = alg /\ f.an = a /\ f.bn = b /\ f.calls = Calls(alg, a, b, gaps)
        /\ f.got = << >>
    <3> DEFINE t == Frame(Call(alg, a, b, Top.canon))
    <3>1. IsFrame(t) /\ t.alg = alg /\ t.an = a /\ t.bn = b /\ t.got = << >>
      BY DEF IsFrame, Frame, Call
    <3> DEFINE v == Calls(alg, a, b, gaps)
    <3> HIDE DEF t, v
    <3>2. LET g == [t EXCEPT !.calls = v]
          IN  /\ IsFrame(g) /\ g.alg = t.alg /\ g.an = t.an /\ g.bn = t.bn
              /\ g.calls = v /\ g.got = t.got
      BY ZenonT(60), <3>1, UpdatedFrame
    <3> QED BY <3>1, <3>2 DEF t, v
  <2> HIDE DEF f
  <2>6. Size(f) = a + b /\ StripsFit(f)
    BY <2>4, <2>5 DEF Size, StripsFit
  <2>7. GoodFrame(f)
    BY <2>2, <2>3, <2>4, <2>5, <2>6, EmptyIsSequence DEF GoodFrame
  <2>8. GoodStack(Append(Below, f))
    BY <1>1, <2>2, <2>6, <2>7, ReplaceGood
  <2> QED BY <1>1, <2>1, <2>8 DEF IInv
<1> QED BY <1>2, <1>3

LEMMA Toom42DirectlyGood ==
  ASSUME IInv, Toom42Directly
  PROVE  IInv'
<1>0. PICK gaps \in Shortfalls :
        stack' = Append(Below, [Top EXCEPT !.calls = Calls("toom42", Top.an, Top.bn, gaps)])
  BY DEF Toom42Directly
<1> DEFINE a == Top.an  b == Top.bn  f == [Top EXCEPT !.calls = Calls("toom42", a, b, gaps)]
<1>1. /\ GoodStack(stack) /\ stack # << >> /\ GoodFrame(Top)
      /\ Top.alg = "toom42" /\ stack' = Append(Below, f) /\ gaps \in Int \X Int
  BY <1>0, TopGood, ShortfallsAreGaps DEF IInv, GoodStack, Toom42Directly
<1>2. a \in Nat /\ b \in Nat /\ Toom42Shape(a, b) /\ ShapeFits("toom42", a, b)
  BY <1>1 DEF GoodFrame, ShapeFits
<1>3. GoodCalls(Calls("toom42", a, b, gaps), a + b)
  BY <1>1, <1>2, Toom42Good
<1>4. /\ IsFrame(f) /\ f.alg = "toom42" /\ f.an = a /\ f.bn = b /\ f.calls = Calls("toom42", a, b, gaps)
      /\ f.got = Top.got
  <2> DEFINE t == Top  v == Calls("toom42", a, b, gaps)
  <2>1. IsFrame(t)
    BY <1>1 DEF GoodFrame
  <2> HIDE DEF t, v
  <2>2. LET g == [t EXCEPT !.calls = v]
        IN  /\ IsFrame(g) /\ g.alg = t.alg /\ g.an = t.an /\ g.bn = t.bn
            /\ g.calls = v /\ g.got = t.got
    BY ZenonT(60), <2>1, UpdatedFrame
  <2> QED BY <1>1, <2>2 DEF t, v
<1> HIDE DEF f
<1>5. GoodFrame(f) /\ Size(f) = Size(Top)
  BY <1>1, <1>2, <1>3, <1>4 DEF GoodFrame, Size, StripsFit
<1> QED BY <1>1, <1>5, ReplaceGood DEF IInv

LEMMA RecurseGood ==
  ASSUME IInv, Recurse
  PROVE  IInv'
<1> DEFINE c == Top.calls[Len(Top.got) + 1]
<1>1. /\ GoodStack(stack) /\ stack # << >> /\ GoodFrame(Top)
      /\ Len(Top.got) < Len(Top.calls) /\ stack' = Append(stack, Frame(c))
  BY TopGood DEF IInv, Recurse
<1>2. Len(Top.got) \in Nat /\ Len(Top.calls) \in Nat
  BY <1>1, SequenceFacts DEF GoodFrame, GoodCalls
<1>3. GoodCall(c, Size(Top))
  BY SMTT(40), <1>1, <1>2 DEF GoodFrame, GoodCalls
<1> HIDE DEF c
<1>4. GoodFrame(Frame(c)) /\ Size(Frame(c)) < Size(stack[Len(stack)])
  BY <1>3, NewFrame DEF GoodCall, Top
<1> QED BY <1>1, <1>4, PushGood DEF IInv

LEMMA ReturnGood ==
  ASSUME IInv, Return
  PROVE  IInv'
BY PopGood DEF IInv, Return

LEMMA ReceiveGood ==
  ASSUME IInv, Receive
  PROVE  IInv'
<1> DEFINE f == [Top EXCEPT !.got = Append(@, result)]
<1>1. /\ GoodStack(stack) /\ stack # << >> /\ GoodFrame(Top)
      /\ stack' = Append(Below, f)
  BY TopGood DEF IInv, Receive
<1>2. /\ IsFrame(f) /\ f.alg = Top.alg /\ f.an = Top.an /\ f.bn = Top.bn /\ f.calls = Top.calls
      /\ f.got = Append(Top.got, result)
  <2> DEFINE t == Top  v == Append(Top.got, result)
  <2>1. IsFrame(t)
    BY <1>1 DEF GoodFrame
  <2> HIDE DEF t, v
  <2> DEFINE g == [t EXCEPT !.got = v]
  <2>2. IsFrame(g)
    BY <2>1, UpdatedFrame
  <2>3. /\ g.alg = t.alg /\ g.an = t.an /\ g.bn = t.bn
        /\ g.calls = t.calls /\ g.got = v
    BY <2>1, UpdatedFrame
  <2> QED BY <2>2, <2>3 DEF t, v
<1> HIDE DEF f
<1>3. IsSequence(f.got)
  BY <1>1, <1>2, AppendFacts DEF GoodFrame
<1>4. GoodFrame(f) /\ Size(f) = Size(Top)
  BY <1>1, <1>2, <1>3 DEF GoodFrame, Size, StripsFit
<1> QED BY <1>1, <1>4, ReplaceGood DEF IInv

LEMMA NextGood ==
  ASSUME IInv, [Next]_vars
  PROVE  IInv'
<1>1. CASE Dispatch
  BY <1>1, DispatchGood
<1>2. CASE Toom42Directly
  BY <1>2, Toom42DirectlyGood
<1>3. CASE Recurse
  BY <1>3, RecurseGood
<1>4. CASE Return
  BY <1>4, ReturnGood
<1>5. CASE Receive
  BY <1>5, ReceiveGood
<1>6. CASE UNCHANGED vars
  BY <1>6 DEF vars, IInv, GoodStack, Nested
<1> QED BY <1>1, <1>2, <1>3, <1>4, <1>5, <1>6 DEF Next

-----------------------------------------------------------------------------
(* Whatever the operands' sizes, the thresholds from 4 on and the lengths   *)
(* the differences have: each algorithm of the recursion is given a shape   *)
(* its code is written for, with the larger operand first; the strips of    *)
(* mul_u52_stripmine fit their buffer; and a call is smaller than its       *)
(* caller.                                                                  *)
THEOREM CallsAlwaysFit == Spec => []CallsWellFormed
<1>1. Init => IInv
  BY InitGood
<1>2. IInv /\ [Next]_vars => IInv'
  BY NextGood
<1>3. IInv => CallsWellFormed
  <2> SUFFICES ASSUME IInv, NEW k \in 1 .. Len(stack)
               PROVE  /\ ShapeFits(stack[k].alg, stack[k].an, stack[k].bn)
                      /\ StripsFit(stack[k])
                      /\ k > 1 => Size(stack[k]) < Size(stack[k - 1])
    BY DEF CallsWellFormed
  <2>1. GoodFrame(stack[k]) /\ Nested(stack) /\ Len(stack) \in Nat
    BY SequenceFacts DEF IInv, GoodStack
  <2> QED BY <2>1 DEF GoodFrame, Nested
<1> QED BY <1>1, <1>2, <1>3, PTL DEF Spec

-----------------------------------------------------------------------------
(* The classes: the strengthening *)

(* What a returned product keeps: its class is 0 or 1, and class 0 tells the *)
(* truth. *)
Answer(p) ==
  /\ p.cls \in {0, 1} /\ DOMAIN p.lo \subseteq Nat /\ DOMAIN p.hi \subseteq Nat
  /\ p.cls = 0 => \A j \in DOMAIN p.lo : p.lo[j] \in Nat

(* The calls whose result is taken to be of class 0 without a look at it:    *)
(* those of mul_u52_dispatch_canon, and toom42, which folds.                 *)
ClassZero(c) == c.canon \/ c.alg = "toom42"
Delivers(p, c) == Answer(p) /\ (ClassZero(c) => p.cls = 0)
Awaited(f) == f.calls[Len(f.got) + 1]

(* A call in progress makes the calls of its algorithm, and what they have   *)
(* returned so far is what it takes them for.                                *)
Honest(f) ==
  /\ \/ f.alg \in Algorithms /\ \E gaps \in Int \X Int : f.calls = Calls(f.alg, f.an, f.bn, gaps)
     \/ f.alg \in {"dispatch", "toom42"} /\ f.calls = << >> /\ f.got = << >>
  /\ \A k \in 1 .. Len(f.got) : Delivers(f.got[k], f.calls[k])
Waits(g) == Len(g.got) < Len(g.calls)
HonestStack(s) ==
  /\ \A k \in 1 .. Len(s) : Honest(s[k])
  /\ \A k \in 2 .. Len(s) :
       Waits(s[k - 1]) /\ (ClassZero(Awaited(s[k - 1])) => ClassZero(s[k]))
HonestResult ==
  result # NoResult =>
    /\ Answer(result)
    /\ stack # << >> => Waits(Top) /\ Delivers(result, Awaited(Top))

CInv == IInv /\ HonestStack(stack) /\ HonestResult

-----------------------------------------------------------------------------
(* A sum of lanes that are not negative *)

IsSum(f, j, parts, n) ==
  f = [k \in 0 .. n |-> IF k = 0 THEN 0 ELSE f[k - 1] + At(parts[k][1], j - parts[k][2])]

LEMMA SumDefined ==
  ASSUME NEW j, NEW parts, NEW n \in Nat
  PROVE  \E f : IsSum(f, j, parts, n)
<1> DEFINE T == {m \in Nat : \E f : IsSum(f, j, parts, m)}
           term(k) == At(parts[k][1], j - parts[k][2])
<1>1. 0 \in T
  <2> DEFINE f == [k \in 0 .. 0 |-> 0]
  <2>1. IsSum(f, j, parts, 0)
    BY DEF IsSum
  <2> QED BY <2>1
<1>2. ASSUME NEW m \in Nat, m \in T PROVE m + 1 \in T
  <2>1. PICK f : IsSum(f, j, parts, m)
    BY <1>2
  <2> DEFINE g == [k \in 0 .. m + 1 |-> IF k = 0 THEN 0 ELSE f[k - 1] + term(k)]
  <2> HIDE DEF term
  <2>2. \A k \in 0 .. m : g[k] = f[k]
    BY <2>1 DEF IsSum, term
  <2>3. g = [k \in 0 .. m + 1 |-> IF k = 0 THEN 0 ELSE g[k - 1] + term(k)]
    <3>1. \A k \in 0 .. m + 1 : k # 0 => g[k - 1] = f[k - 1]
      BY <2>2
    <3> QED BY <3>1, Zenon
  <2> HIDE DEF g
  <2>4. IsSum(g, j, parts, m + 1)
    BY <2>3 DEF IsSum, term
  <2> QED BY <2>4
<1>3. n \in T
  BY <1>1, <1>2, ByInduction
<1> QED BY <1>3

LEMMA SumNatural ==
  ASSUME NEW j, NEW parts, Len(parts) \in Nat,
         \A k \in 1 .. Len(parts) : At(parts[k][1], j - parts[k][2]) \in Nat
  PROVE  Sum(j, parts) \in Nat
<1> DEFINE n == Len(parts)  c == CHOOSE f : IsSum(f, j, parts, n)
           T == {m \in Nat : m <= n => c[m] \in Nat}
<1>1. IsSum(c, j, parts, n)
  BY SumDefined
<1>2. Sum(j, parts) = c[n]
  BY DEF Sum, IsSum
<1> HIDE DEF c
<1>3. 0 \in T
  BY <1>1 DEF IsSum
<1>4. ASSUME NEW m \in Nat, m \in T PROVE m + 1 \in T
  <2> SUFFICES ASSUME m + 1 <= n PROVE c[m + 1] \in Nat
    OBVIOUS
  <2>1. c[m] \in Nat /\ m + 1 \in 1 .. n
    BY <1>4
  <2>2. c[m + 1] = c[m] + At(parts[m + 1][1], j - parts[m + 1][2])
    <3> DEFINE k == m + 1
    <3>1. k \in 0 .. n /\ k # 0 /\ k - 1 = m
      OBVIOUS
    <3> HIDE DEF k
    <3>2. c[k] = c[k - 1] + At(parts[k][1], j - parts[k][2])
      BY <1>1, <3>1, Zenon DEF IsSum
    <3>3. c[k] = c[m] + At(parts[k][1], j - parts[k][2])
      BY <3>1, <3>2, Zenon
    <3> QED BY <3>3, Zenon DEF k
  <2> QED BY <2>1, <2>2
<1>5. n \in T
  BY <1>3, <1>4, ByInduction
<1> QED BY <1>2, <1>5

LEMMA AtNatural ==
  ASSUME NEW f, NEW x, \A j \in DOMAIN f : f[j] \in Nat
  PROVE  At(f, x) \in Nat
BY DEF At

LEMMA AtBelow ==
  ASSUME NEW f, NEW x \in Int, x < 0, DOMAIN f \subseteq Nat
  PROVE  At(f, x) = 0
BY DEF At

-----------------------------------------------------------------------------
(* The products *)

Zeros(p) == \A j \in DOMAIN p.lo : p.lo[j] \in Nat
OnLanes(p) == DOMAIN p.lo \subseteq Nat /\ DOMAIN p.hi \subseteq Nat

LEMMA BasecaseNatural ==
  ASSUME NEW an \in Nat, NEW bn \in Nat
  PROVE  OnLanes(Basecase(an, bn)) /\ Zeros(Basecase(an, bn))
BY DEF Basecase, Lanes, OnLanes, Zeros

LEMMA FoldedNatural ==
  ASSUME NEW x, OnLanes(x), NEW from \in Nat, \A j \in DOMAIN x.lo : j < from => x.lo[j] \in Nat
  PROVE  OnLanes(Folded(x, from)) /\ Zeros(Folded(x, from))
BY DEF Folded, OnLanes, Zeros

LEMMA ToomNatural ==
  ASSUME NEW n \in Nat, NEW an \in Nat, NEW bn \in Nat, NEW p, Answer(p), p.cls = 0
  PROVE  OnLanes(ToomLanes(n, an, bn, p)) /\ Zeros(ToomLanes(n, an, bn, p))
<1> DEFINE x == [lo |-> [j \in Lanes(an + bn) |-> At(p.lo, j)],
                 hi |-> [j \in Lanes(an + bn) |-> At(p.hi, j)]]
<1>1. OnLanes(x)
  BY DEF OnLanes, Lanes
<1>2. \A j \in DOMAIN x.lo : x.lo[j] \in Nat
  BY AtNatural DEF Answer
<1> HIDE DEF x
<1>3. OnLanes(Folded(x, n)) /\ Zeros(Folded(x, n))
  BY <1>1, <1>2, FoldedNatural
<1> QED BY <1>3 DEF ToomLanes, x

LEMMA StripNatural ==
  ASSUME NEW an \in Nat, NEW bn \in Nat, NEW got, NEW n \in Nat, DOMAIN Strips(an, bn) = 1 .. n,
         \A k \in 1 .. n : Answer(got[k]) /\ got[k].cls = 0
  PROVE  OnLanes(StripLanes(an, bn, got)) /\ Zeros(StripLanes(an, bn, got))
<1> DEFINE parts == [k \in 1 .. n |-> <<got[k]["lo"], StripStart(an, bn, k)>>]
           x == StripLanes(an, bn, got)
<1>1. /\ x.lo = [j \in Lanes(an + bn) |-> Sum(j, parts)]
      /\ DOMAIN x.hi = Lanes(an + bn)
  BY DEF StripLanes
<1>2. \A k \in 1 .. n : \A j \in DOMAIN got[k].lo : got[k].lo[j] \in Nat
  BY DEF Answer
<1> HIDE DEF x
<1>3. Len(parts) = n
  <2>1. parts = [k \in 1 .. n |-> parts[k]]
    OBVIOUS
  <2> HIDE DEF parts
  <2> QED BY <2>1, FunctionIsSequence
<1>4. \A k \in 1 .. n : parts[k][1] = got[k].lo
  OBVIOUS
<1> HIDE DEF parts
<1>5. ASSUME NEW j PROVE Sum(j, parts) \in Nat
  <2>1. \A k \in 1 .. Len(parts) : At(parts[k][1], j - parts[k][2]) \in Nat
    BY <1>2, <1>3, <1>4, AtNatural
  <2> QED BY <1>3, <2>1, SumNatural
<1>6. DOMAIN x.lo = Lanes(an + bn) /\ \A j \in DOMAIN x.lo : x.lo[j] \in Nat
  BY <1>1, <1>5
<1> QED BY <1>1, <1>6 DEF OnLanes, Zeros, Lanes, x

LEMMA KaratsubaNatural ==
  ASSUME NEW an \in Nat, NEW bn \in Nat, NEW got,
         Answer(got[1]), Answer(got[2]), Answer(got[3])
  PROVE  LET x == KaratsubaLanes(an, bn, got)
         IN  /\ OnLanes(x)
             /\ got[2].cls = 0 => \A j \in DOMAIN x.lo : j < Split(an) => x.lo[j] \in Nat
<1> DEFINE h == Split(an)  x == KaratsubaLanes(an, bn, got)
           wide == [j \in DOMAIN got[1].hi |-> Most(got[1].hi[j], -got[1].lo[j])]
           parts(j) == <<<<got[2]["lo"], 0>>, <<got[2]["lo"], h>>, <<got[3]["lo"], h>>, <<got[3]["lo"], 2 * h>>>>
<1>1. /\ x.lo = [j \in Lanes(an + bn) |-> Sum(j, parts(j)) + (-1) * At(wide, j - h)]
      /\ DOMAIN x.hi = Lanes(an + bn)
  BY DEF KaratsubaLanes
<1>2. h \in Nat
  BY DEF Split
<1> HIDE DEF x, h
<1>3. ASSUME got[2].cls = 0, NEW j \in Lanes(an + bn), j < h
      PROVE  x.lo[j] \in Nat
  <2> DEFINE low == got[2]["lo"]  high == got[3]["lo"]
             p == <<<<low, 0>>, <<low, h>>, <<high, h>>, <<high, 2 * h>>>>
  <2>1. j \in Nat /\ j - h \in Int /\ j - h < 0 /\ j - 2 * h \in Int /\ j - 2 * h < 0 /\ j - 0 = j
    BY <1>2, <1>3 DEF Lanes
  <2>2. /\ \A i \in DOMAIN low : low[i] \in Nat
        /\ DOMAIN low \subseteq Nat /\ DOMAIN high \subseteq Nat /\ DOMAIN wide \subseteq Nat
    BY <1>3 DEF Answer
  <2> HIDE DEF low, high, wide
  <2>3. At(low, j) \in Nat
    BY <2>2, AtNatural
  <2>4. At(low, j - h) = 0 /\ At(high, j - h) = 0 /\ At(high, j - 2 * h) = 0 /\ At(wide, j - h) = 0
    BY <2>1, <2>2, AtBelow
  <2>5. Len(p) = 4 /\ \A k \in 1 .. 4 : At(p[k][1], j - p[k][2]) \in Nat
    <3>1. /\ p[1] = <<low, 0>> /\ p[2] = <<low, h>> /\ p[3] = <<high, h>> /\ p[4] = <<high, 2 * h>>
          /\ Len(p) = 4
      OBVIOUS
    <3> HIDE DEF p
    <3>2. /\ At(p[1][1], j - p[1][2]) \in Nat /\ At(p[2][1], j - p[2][2]) \in Nat
          /\ At(p[3][1], j - p[3][2]) \in Nat /\ At(p[4][1], j - p[4][2]) \in Nat
      BY <2>1, <2>3, <2>4, <3>1
    <3> QED BY <3>1, <3>2
  <2> HIDE DEF p
  <2>6. Sum(j, p) \in Nat
    <3>1. Len(p) \in Nat /\ \A k \in 1 .. Len(p) : At(p[k][1], j - p[k][2]) \in Nat
      BY <2>5
    <3> QED BY <3>1, SumNatural
  <2>7. x.lo[j] = Sum(j, p) + (-1) * At(wide, j - h)
    BY <1>1 DEF p, low, high, wide
  <2> QED BY <2>4, <2>6, <2>7
<1>4. DOMAIN x.lo = Lanes(an + bn)
  BY <1>1
<1>5. OnLanes(x)
  BY <1>1, <1>4 DEF OnLanes, Lanes
<1> QED BY <1>3, <1>4, <1>5 DEF x, h

(* A product tells the truth when the products it is made of do. *)
Truthful(p) == p.cls \in {0, 1} /\ OnLanes(p.lanes) /\ (p.cls = 0 => Zeros(p.lanes))

LEMMA ProductHonest ==
  ASSUME NEW f, GoodFrame(f), Honest(f), f.alg # "dispatch",
         Len(f.got) = Len(f.calls), f.alg = "toom42" => f.calls # << >>
  PROVE  LET p == Product(f.alg, f.an, f.bn, f.got)
         IN  Truthful(p) /\ (f.alg = "toom42" => p.cls = 0)
<1> DEFINE an == f.an  bn == f.bn  got == f.got  calls == f.calls
           p == Product(f.alg, an, bn, got)
<1>1. an \in Nat /\ bn \in Nat /\ IsSequence(got) /\ IsSequence(calls)
  BY DEF GoodFrame, GoodCalls
<1>2. PICK gaps \in Int \X Int : f.alg \in Algorithms /\ calls = Calls(f.alg, an, bn, gaps)
  BY DEF Honest
<1>3. Len(got) \in Nat /\ Len(got) = Len(calls) /\ DOMAIN calls = 1 .. Len(calls)
      /\ (got # << >> => Len(got) > 0)
  BY <1>1, SequenceFacts
<1>4. \A k \in 1 .. Len(calls) : Answer(got[k]) /\ (ClassZero(calls[k]) => got[k].cls = 0)
  BY DEF Honest, Delivers
<1> HIDE DEF an, bn, got, calls, p
<1>5. CASE f.alg = "basecase" \/ (f.alg = "karatsuba" /\ got = << >>)
  <2>1. p.lanes = Basecase(an, bn) /\ p.cls = 0
    BY <1>5 DEF p, Product
  <2> QED BY <1>1, <1>5, <2>1, BasecaseNatural DEF Truthful, p, an, bn, got
<1>6. CASE f.alg = "karatsuba" /\ got # << >>
  <2> DEFINE x == KaratsubaLanes(an, bn, got)
  <2>1. /\ p.lanes = IF NeedsFold(got) THEN Folded(x, Split(an)) ELSE x
        /\ p.cls = IF NeedsFold(got) THEN got[2].cls ELSE 1
    BY <1>6 DEF p, Product, FoldedClass
  <2>2. Len(calls) = 3
    <3>1. calls = IF TooThin(an, bn) THEN << >> ELSE KaratsubaCalls(an, bn, gaps)
      BY <1>2, <1>6 DEF Calls
    <3>2. Len(calls) > 0
      BY <1>3, <1>6
    <3>3. calls = KaratsubaCalls(an, bn, gaps)
      BY <3>1, <3>2, EmptyIsSequence
    <3> QED BY <3>3 DEF KaratsubaCalls
  <2>3. Answer(got[1]) /\ Answer(got[2]) /\ Answer(got[3])
    BY <1>4, <2>2
  <2>4. OnLanes(x) /\ (got[2].cls = 0 => \A j \in DOMAIN x.lo : j < Split(an) => x.lo[j] \in Nat)
    BY <1>1, <2>3, KaratsubaNatural
  <2> HIDE DEF x
  <2>5. Split(an) \in Nat /\ got[2].cls \in {0, 1}
    BY <1>1, <2>3 DEF Split, Answer
  <2>6. CASE NeedsFold(got)
    <3>1. OnLanes(Folded(x, Split(an)))
      BY <2>4 DEF Folded, OnLanes
    <3>2. got[2].cls = 0 => Zeros(Folded(x, Split(an)))
      BY <2>4, <2>5, FoldedNatural
    <3>3. Truthful(p)
      BY <2>1, <2>5, <2>6, <3>1, <3>2 DEF Truthful
    <3> QED BY <1>6, <3>3 DEF p, an, bn, got
  <2>7. CASE ~NeedsFold(got)
    <3>1. Truthful(p)
      BY <2>1, <2>4, <2>7 DEF Truthful
    <3> QED BY <1>6, <3>1 DEF p, an, bn, got
  <2> QED BY <2>6, <2>7
<1>7. CASE f.alg = "toom32"
  <2> DEFINE n == Toom32Part(an, bn)
  <2>1. p.lanes = ToomLanes(n, an, bn, got[3]) /\ p.cls = 0
    BY <1>7 DEF p, Product
  <2>2. calls = Toom32Calls(an, bn, gaps)
    BY <1>2, <1>7 DEF Calls
  <2>3. Len(calls) = 4 /\ ClassZero(calls[3])
    BY <2>2 DEF Toom32Calls, Call, ClassZero
  <2>4. Answer(got[3]) /\ got[3].cls = 0 /\ n \in Nat
    BY <1>1, <1>4, <2>3 DEF Toom32Part
  <2> HIDE DEF n
  <2> QED BY <1>1, <1>7, <2>1, <2>4, ToomNatural DEF Truthful, p, an, bn, got
<1>8. CASE f.alg \in {"toom33", "toom42"}
  <2> DEFINE n == IF f.alg = "toom33" THEN Toom33Part(an) ELSE Toom42Part(an, bn)
  <2>1. p.lanes = ToomLanes(n, an, bn, got[5]) /\ p.cls = 0
    BY <1>8 DEF p, Product
  <2>2. \E m, s, t, lam, lbm : calls = Toom5Calls(m, s, t, lam, lbm)
    BY <1>2, <1>8 DEF Calls
  <2>3. Len(calls) = 5 /\ ClassZero(calls[5])
    BY <2>2 DEF Toom5Calls, Call, ClassZero
  <2>4. Answer(got[5]) /\ got[5].cls = 0 /\ n \in Nat
    BY <1>1, <1>4, <2>3 DEF Toom33Part, Toom42Part
  <2> HIDE DEF n
  <2> QED BY <1>1, <1>8, <2>1, <2>4, ToomNatural DEF Truthful, p, an, bn, got
<1>9. CASE f.alg = "stripmine"
  <2> DEFINE w == Strips(an, bn)
  <2>1. p.lanes = StripLanes(an, bn, got) /\ p.cls = 0
    BY <1>9 DEF p, Product
  <2>2. calls = StripCalls(an, bn)
    BY <1>2, <1>9 DEF Calls
  <2>3. DOMAIN w = 1 .. Len(calls)
    BY <1>3, <2>2 DEF StripCalls
  <2>4. \A k \in 1 .. Len(calls) : ClassZero(calls[k])
    BY <2>2, <2>3 DEF StripCalls, Call, ClassZero
  <2>5. \A k \in 1 .. Len(calls) : Answer(got[k]) /\ got[k].cls = 0
    BY <1>4, <2>4
  <2>6. Len(calls) \in Nat
    BY <1>3
  <2>7. OnLanes(StripLanes(an, bn, got)) /\ Zeros(StripLanes(an, bn, got))
    BY <1>1, <2>3, <2>5, <2>6, StripNatural
  <2> QED BY <1>9, <2>1, <2>7 DEF Truthful, p, an, bn, got
<1> QED BY <1>2, <1>5, <1>6, <1>7, <1>8, <1>9 DEF Algorithms

-----------------------------------------------------------------------------
(* The stack, again *)

LEMMA PushHonest ==
  ASSUME NEW s, IsSequence(s), HonestStack(s), NEW f, Honest(f),
         Len(s) > 0 => Waits(s[Len(s)]) /\ (ClassZero(Awaited(s[Len(s)])) => ClassZero(f))
  PROVE  HonestStack(Append(s, f))
<1> DEFINE t == Append(s, f)
<1>1. /\ Len(s) \in Nat /\ Len(t) = Len(s) + 1
      /\ \A i \in 1 .. Len(s) : t[i] = s[i]
      /\ t[Len(s) + 1] = f
  BY SequenceFacts, AppendFacts
<1> HIDE DEF t
<1>2. ASSUME NEW k \in 1 .. Len(t) PROVE Honest(t[k])
  <2>1. k \in 1 .. Len(s) \/ k = Len(s) + 1
    BY <1>1
  <2> QED BY <1>1, <2>1 DEF HonestStack
<1>3. ASSUME NEW k \in 2 .. Len(t)
      PROVE  Waits(t[k - 1]) /\ (ClassZero(Awaited(t[k - 1])) => ClassZero(t[k]))
  <2>1. CASE k \in 2 .. Len(s)
    <3>1. t[k] = s[k] /\ t[k - 1] = s[k - 1]
      BY <1>1, <2>1
    <3> QED BY <1>3, <2>1, <3>1 DEF HonestStack
  <2>2. CASE k = Len(s) + 1
    <3>1. t[k] = f /\ t[k - 1] = s[Len(s)] /\ Len(s) > 0
      BY <1>1, <2>2
    <3> QED BY <1>3, <3>1
  <2> QED BY <1>1, <2>1, <2>2
<1> QED BY <1>2, <1>3 DEF HonestStack, t

LEMMA PopHonest ==
  ASSUME GoodStack(stack), HonestStack(stack), stack # << >>
  PROVE  /\ HonestStack(Below) /\ IsSequence(Below) /\ Honest(Top)
         /\ Len(Below) > 0 =>
              /\ Waits(Below[Len(Below)])
              /\ ClassZero(Awaited(Below[Len(Below)])) => ClassZero(Top)
<1>1. Len(stack) \in Nat /\ Len(stack) > 0
  BY TopGood
<1>2. /\ IsSequence(Below) /\ Len(Below) = Len(stack) - 1
      /\ \A i \in 1 .. Len(stack) - 1 : Below[i] = stack[i]
  BY <1>1, PrefixFacts DEF GoodStack, Below
<1>3. HonestStack(Below)
  <2>1. \A k \in 1 .. Len(Below) : Honest(Below[k])
    BY <1>1, <1>2 DEF HonestStack
  <2>2. \A k \in 2 .. Len(Below) : Below[k] = stack[k] /\ Below[k - 1] = stack[k - 1] /\ k \in 2 .. Len(stack)
    BY <1>1, <1>2
  <2>3. \A k \in 2 .. Len(Below) :
          Waits(Below[k - 1]) /\ (ClassZero(Awaited(Below[k - 1])) => ClassZero(Below[k]))
    BY <2>2 DEF HonestStack
  <2> QED BY <2>1, <2>3 DEF HonestStack
<1>4. Honest(Top)
  BY <1>1 DEF HonestStack, Top
<1>5. ASSUME Len(Below) > 0
      PROVE  /\ Waits(Below[Len(Below)])
             /\ ClassZero(Awaited(Below[Len(Below)])) => ClassZero(Top)
  <2>1. Below[Len(Below)] = stack[Len(stack) - 1] /\ Len(stack) \in 2 .. Len(stack)
    BY <1>1, <1>2, <1>5
  <2> QED BY <1>5, <2>1 DEF HonestStack, Top
<1> QED BY <1>2, <1>3, <1>4, <1>5

LEMMA ReplaceHonest ==
  ASSUME GoodStack(stack), HonestStack(stack), stack # << >>,
         NEW f, Honest(f), ClassZero(Top) => ClassZero(f)
  PROVE  HonestStack(Append(Below, f))
<1>1. /\ HonestStack(Below) /\ IsSequence(Below)
      /\ Len(Below) > 0 =>
           /\ Waits(Below[Len(Below)])
           /\ ClassZero(Awaited(Below[Len(Below)])) => ClassZero(f)
  BY PopHonest
<1> QED BY <1>1, PushHonest

LEMMA NewFrameHonest ==
  ASSUME NEW c, c.alg \in {"dispatch", "toom42"}
  PROVE  Honest(Frame(c)) /\ (ClassZero(c) => ClassZero(Frame(c)))
<1> DEFINE f == Frame(c)
<1>1. f.alg = c.alg /\ f.canon = c.canon /\ f.calls = << >> /\ f.got = << >>
  BY DEF Frame
<1> HIDE DEF f
<1>2. Len(f.got) = 0
  BY <1>1, EmptyIsSequence
<1> QED BY <1>1, <1>2 DEF Honest, ClassZero, f

(* An answer is for whoever is on top of the stack. *)
LEMMA Answered ==
  ASSUME NEW p, Answer(p), result' = p,
         stack' # << >> => Waits(Top') /\ (ClassZero(Awaited(Top')) => p.cls = 0)
  PROVE  HonestResult'
BY DEF HonestResult, Delivers
(* When a call returns, its answer is for the call below it. *)
LEMMA PopAnswered ==
  ASSUME GoodStack(stack), HonestStack(stack), stack # << >>, stack' = Below,
         NEW p, Answer(p), result' = p, ClassZero(Top) => p.cls = 0
  PROVE  HonestResult'
<1>1. /\ IsSequence(Below)
      /\ Len(Below) > 0 =>
           /\ Waits(Below[Len(Below)])
           /\ ClassZero(Awaited(Below[Len(Below)])) => ClassZero(Top)
  BY PopHonest
<1>2. stack' # << >> => Len(Below) > 0 /\ Top' = Below[Len(Below)]
  BY <1>1, SequenceFacts DEF Top
<1>3. stack' # << >> => Waits(Top') /\ (ClassZero(Awaited(Top')) => p.cls = 0)
  BY <1>1, <1>2
<1> QED BY <1>3, Answered

LEMMA InitHonest == Init => CInv
<1> SUFFICES ASSUME Init PROVE CInv
  OBVIOUS
<1>1. PICK s \in Shapes : stack = <<Frame(Call("dispatch", s[1], s[2], FALSE))>>
  BY DEF Init
<1> DEFINE c == Call("dispatch", s[1], s[2], FALSE)  f == Frame(c)
<1>2. Honest(f)
  <2>1. c.alg = "dispatch"
    BY DEF Call
  <2> HIDE DEF c
  <2> QED BY <2>1, NewFrameHonest
<1> HIDE DEF f
<1>3. IsSequence(<<f>>) /\ Len(<<f>>) = 1 /\ <<f>>[1] = f
  BY DEF IsSequence
<1>4. HonestStack(<<f>>)
  BY <1>2, <1>3 DEF HonestStack
<1>5. stack = <<f>> /\ result = NoResult
  BY <1>1 DEF f, Init
<1> QED BY <1>4, <1>5, InitGood DEF CInv, HonestResult

LEMMA DispatchHonest ==
  ASSUME CInv, Dispatch
  PROVE  HonestStack(stack') /\ HonestResult'
<1> DEFINE o == Ordered(Top)  a == o[1]  b == o[2]  alg == Choice(a, b)
           made(gaps) == [Frame(Call(alg, a, b, Top.canon)) EXCEPT !.calls = Calls(alg, a, b, gaps)]
<1>1. /\ GoodStack(stack) /\ HonestStack(stack) /\ stack # << >> /\ result = NoResult
      /\ Top.alg = "dispatch" /\ GoodFrame(Top)
  BY TopGood DEF CInv, IInv, Dispatch
<1>2. CASE 0 \in {Top.an, Top.bn}
  <2>1. stack' = Below /\ result' = Empty
    BY <1>2 DEF Dispatch
  <2>2. Answer(Empty) /\ Empty.cls = 0
    BY DEF Empty, Answer
  <2>3. HonestResult'
    BY <1>1, <2>1, <2>2, PopAnswered
  <2> QED BY <1>1, <2>1, <2>3, PopHonest
<1>3. CASE ~(0 \in {Top.an, Top.bn})
  <2>0. PICK gaps \in Shortfalls : stack' = Append(Below, made(gaps))
    BY <1>3 DEF Dispatch
  <2> DEFINE f == made(gaps)
  <2>1. stack' = Append(Below, f) /\ result' = NoResult /\ gaps \in Int \X Int
    BY <1>1, <1>3, <2>0, ShortfallsAreGaps DEF Dispatch, GoodStack
  <2>2. a \in Nat /\ b \in Nat /\ a >= b /\ b > 0
    BY <1>1, <1>3 DEF GoodFrame, Ordered
  <2> HIDE DEF a, b
  <2>3. alg \in Algorithms
    BY <2>2, ChoiceFits
  <2> HIDE DEF alg
  <2>4. /\ f.alg = alg /\ f.an = a /\ f.bn = b /\ f.canon = Top.canon
        /\ f.calls = Calls(alg, a, b, gaps) /\ f.got = << >>
    BY DEF Frame, Call
  <2> HIDE DEF f
  <2>5. Honest(f)
    BY <2>1, <2>3, <2>4, EmptyIsSequence DEF Honest
  <2>6. ClassZero(Top) => ClassZero(f)
    BY <1>1, <2>4 DEF ClassZero
  <2>7. HonestResult'
    BY <2>1 DEF HonestResult, NoResult
  <2> QED BY <1>1, <2>1, <2>5, <2>6, <2>7, ReplaceHonest
<1> QED BY <1>2, <1>3

LEMMA Toom42DirectlyHonest ==
  ASSUME CInv, Toom42Directly
  PROVE  HonestStack(stack') /\ HonestResult'
<1>0. PICK gaps \in Shortfalls :
        stack' = Append(Below, [Top EXCEPT !.calls = Calls("toom42", Top.an, Top.bn, gaps)])
  BY DEF Toom42Directly
<1> DEFINE t == Top  v == Calls("toom42", Top.an, Top.bn, gaps)  f == [Top EXCEPT !.calls = v]
<1>1. /\ GoodStack(stack) /\ HonestStack(stack) /\ stack # << >> /\ result' = NoResult
      /\ Top.alg = "toom42" /\ stack' = Append(Below, f) /\ GoodFrame(Top) /\ Honest(Top)
      /\ Top.calls = << >> /\ gaps \in Int \X Int
  BY <1>0, TopGood, PopHonest, ShortfallsAreGaps DEF CInv, IInv, GoodStack, Toom42Directly
<1>2. f.alg = "toom42" /\ f.an = Top.an /\ f.bn = Top.bn /\ f.calls = v /\ f.got = Top.got
  <2>1. IsFrame(t)
    BY <1>1 DEF GoodFrame
  <2> HIDE DEF t, v
  <2>2. LET g == [t EXCEPT !.calls = v]
        IN  /\ IsFrame(g) /\ g.alg = t.alg /\ g.an = t.an /\ g.bn = t.bn
            /\ g.calls = v /\ g.got = t.got
    BY ZenonT(60), <2>1, UpdatedFrame
  <2> QED BY <1>1, <2>2 DEF t, v
<1> HIDE DEF f
<1>3. f.got = << >>
  <2>1. ASSUME NEW g PROVE Top.calls # Calls(Top.alg, Top.an, Top.bn, g)
    <3> DEFINE none == << >>  made == Calls(Top.alg, Top.an, Top.bn, g)
    <3>1. Len(made) = 5
      BY <1>1 DEF Calls, Toom5Calls
    <3>2. Len(none) = 0 /\ Top.calls = none
      BY <1>1, EmptyIsSequence
    <3> HIDE DEF none, made
    <3>3. Top.calls # made
      BY <3>1, <3>2
    <3> QED BY <3>3 DEF made
  <2>3. Top.got = << >>
    BY <1>1, <2>1 DEF Honest
  <2> QED BY <1>2, <2>3
<1>4. Honest(f)
  BY <1>1, <1>2, <1>3, EmptyIsSequence DEF Honest, Algorithms
<1>5. ClassZero(f) /\ HonestResult'
  BY <1>1, <1>2 DEF ClassZero, HonestResult, NoResult
<1> QED BY <1>1, <1>4, <1>5, ReplaceHonest

LEMMA RecurseHonest ==
  ASSUME CInv, Recurse
  PROVE  HonestStack(stack') /\ HonestResult'
<1> DEFINE c == Awaited(Top)
<1>1. /\ GoodStack(stack) /\ HonestStack(stack) /\ stack # << >> /\ result' = NoResult
      /\ Waits(Top) /\ stack' = Append(stack, Frame(c)) /\ GoodFrame(Top)
  BY TopGood DEF CInv, IInv, Recurse, Waits, Awaited
<1>2. Len(Top.got) \in Nat /\ Len(Top.calls) \in Nat
  BY <1>1, SequenceFacts DEF GoodFrame, GoodCalls
<1>3. c.alg \in {"dispatch", "toom42"}
  BY <1>1, <1>2 DEF GoodFrame, GoodCalls, GoodCall, Waits, Awaited
<1>4. Honest(Frame(c)) /\ (ClassZero(c) => ClassZero(Frame(c)))
  BY <1>3, NewFrameHonest
<1>5. IsSequence(stack) /\ stack[Len(stack)] = Top
  BY <1>1 DEF GoodStack, Top
<1> DEFINE f == Frame(c)
<1> HIDE DEF f
<1>6. Waits(stack[Len(stack)]) /\ (ClassZero(Awaited(stack[Len(stack)])) => ClassZero(f)) /\ Honest(f)
  BY <1>1, <1>4, <1>5 DEF f
<1>7. HonestStack(Append(stack, f))
  BY <1>1, <1>5, <1>6, PushHonest
<1>8. HonestResult'
  BY <1>1 DEF HonestResult
<1> QED BY <1>1, <1>7, <1>8 DEF f

LEMMA CanonicalizedAnswers ==
  ASSUME NEW p, NEW f, Truthful(p), f.an \in Nat, f.bn \in Nat
  PROVE  LET q == Canonicalized(p, f)
         IN  Answer(q) /\ (f.canon \/ p.cls = 0 => q.cls = 0)
<1> DEFINE n == f.an + f.bn  q == Canonicalized(p, f)
<1>1. CASE f.canon /\ p.cls = 1
  <2>1. q.cls = 0 /\ q.lo = [j \in Lanes(n) |-> 0] /\ q.hi = [j \in Lanes(n) |-> 1]
    BY <1>1 DEF Canonicalized, Canonical
  <2> HIDE DEF q
  <2>2. Answer(q)
    BY <2>1 DEF Answer, Lanes
  <2> QED BY <2>1, <2>2 DEF q
<1>2. CASE ~(f.canon /\ p.cls = 1)
  <2>1. q.cls = p.cls /\ q.lo = p.lanes.lo /\ q.hi = p.lanes.hi
    BY <1>2 DEF Canonicalized
  <2> HIDE DEF q
  <2>2. Answer(q)
    BY <2>1 DEF Answer, Truthful, OnLanes, Zeros
  <2> QED BY <1>2, <2>1, <2>2 DEF q, Truthful
<1> QED BY <1>1, <1>2

LEMMA ReturnHonest ==
  ASSUME CInv, Return
  PROVE  HonestStack(stack') /\ HonestResult'
<1> DEFINE p == Product(Top.alg, Top.an, Top.bn, Top.got)  q == Canonicalized(p, Top)
<1>1. /\ GoodStack(stack) /\ HonestStack(stack) /\ stack # << >> /\ stack' = Below
      /\ result' = q /\ GoodFrame(Top) /\ Honest(Top)
      /\ Top.alg # "dispatch" /\ Len(Top.got) = Len(Top.calls)
      /\ Top.alg = "toom42" => Top.calls # << >>
  BY TopGood, PopHonest DEF CInv, IInv, Return
<1>2. Truthful(p) /\ (Top.alg = "toom42" => p.cls = 0)
  BY <1>1, ProductHonest
<1>3. Top.an \in Nat /\ Top.bn \in Nat
  BY <1>1 DEF GoodFrame
<1> HIDE DEF p
<1>4. Answer(q) /\ (Top.canon \/ p.cls = 0 => q.cls = 0)
  BY <1>2, <1>3, CanonicalizedAnswers
<1> HIDE DEF q
<1>5. ClassZero(Top) => q.cls = 0
  BY <1>2, <1>4 DEF ClassZero
<1> QED BY <1>1, <1>4, <1>5, PopAnswered, PopHonest

LEMMA ReceiveHonest ==
  ASSUME CInv, Receive
  PROVE  HonestStack(stack') /\ HonestResult'
<1> DEFINE g == Append(Top.got, result)  t == Top  f == [Top EXCEPT !.got = g]
<1>1. /\ GoodStack(stack) /\ HonestStack(stack) /\ stack # << >> /\ GoodFrame(Top) /\ Honest(Top)
      /\ stack' = Append(Below, f) /\ result # NoResult /\ result' = NoResult
  BY TopGood, PopHonest DEF CInv, IInv, Receive
<1>2. Waits(Top) /\ Delivers(result, Awaited(Top))
  BY <1>1 DEF CInv, HonestResult
<1>3. /\ f.alg = Top.alg /\ f.an = Top.an /\ f.bn = Top.bn /\ f.calls = Top.calls /\ f.got = g
      /\ f.canon = Top.canon
  <2>1. IsFrame(t)
    BY <1>1 DEF GoodFrame
  <2> HIDE DEF t, g
  <2>2. LET h == [t EXCEPT !.got = g]
        IN  /\ h.alg = t.alg /\ h.an = t.an /\ h.bn = t.bn /\ h.canon = t.canon
            /\ h.calls = t.calls /\ h.got = g
    BY <2>1, UpdatedFrame
  <2> QED BY <1>1, <2>2 DEF t
<1> HIDE DEF f
<1>4. /\ Len(Top.got) \in Nat /\ Len(g) = Len(Top.got) + 1
      /\ \A k \in 1 .. Len(Top.got) : g[k] = Top.got[k]
      /\ g[Len(Top.got) + 1] = result
  BY <1>1, SequenceFacts, AppendFacts DEF GoodFrame
<1> HIDE DEF g
<1>5. ASSUME NEW k \in 1 .. Len(g) PROVE Delivers(g[k], Top.calls[k])
  <2>1. CASE k = Len(Top.got) + 1
    BY <1>2, <1>4, <2>1 DEF Awaited
  <2>2. CASE k \in 1 .. Len(Top.got)
    BY <1>1, <1>4, <2>2 DEF Honest
  <2> QED BY <1>4, <2>1, <2>2
<1>6. Top.alg \in Algorithms /\ \E gaps \in Int \X Int : Top.calls = Calls(Top.alg, Top.an, Top.bn, gaps)
  <2>1. CASE Top.calls = << >>
    <3>1. Len(Top.calls) = 0
      BY <2>1, EmptyIsSequence
    <3> QED BY <1>2, <1>4, <3>1 DEF Waits
  <2> QED BY <1>1, <2>1 DEF Honest
<1>7. Honest(f)
  BY <1>3, <1>5, <1>6 DEF Honest
<1>8. ClassZero(Top) => ClassZero(f)
  BY <1>3 DEF ClassZero
<1>9. HonestResult'
  BY <1>1 DEF HonestResult
<1> QED BY <1>1, <1>7, <1>8, <1>9, ReplaceHonest

-----------------------------------------------------------------------------
(* Whatever the sizes, the thresholds and the lengths of the differences:   *)
(* no lane of a product that mul_u52_dispatch, or anything it recurses      *)
(* through, reports as class 0 can be negative - karatsuba's fold may       *)
(* report the class of its low product, the strips and the toom family may  *)
(* report 0 without looking at theirs.                                      *)
THEOREM ClassAlwaysHonest == Spec => []ClassHonest
<1>1. Init => CInv
  BY InitHonest
<1>2. CInv /\ [Next]_vars => CInv'
  <2> SUFFICES ASSUME CInv, [Next]_vars PROVE CInv'
    OBVIOUS
  <2>1. IInv'
    BY NextGood DEF CInv
  <2>2. CASE UNCHANGED vars
    <3>1. stack' = stack /\ result' = result
      BY <2>2 DEF vars
    <3>2. HonestStack(stack)'
      BY <3>1 DEF CInv
    <3>3. HonestResult'
      BY <3>1 DEF CInv, HonestResult, Top
    <3> QED BY <2>1, <3>2, <3>3 DEF CInv
  <2>3. CASE Next
    <3>1. HonestStack(stack') /\ HonestResult'
      BY <2>3, DispatchHonest, Toom42DirectlyHonest, RecurseHonest, ReturnHonest, ReceiveHonest DEF Next
    <3> QED BY <2>1, <3>1 DEF CInv
  <2> QED BY <2>2, <2>3
<1>3. CInv => ClassHonest
  BY DEF CInv, HonestResult, Answer, ClassHonest
<1> QED BY <1>1, <1>2, <1>3, PTL DEF Spec
=============================================================================
