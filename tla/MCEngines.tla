---------------------------- MODULE MCEngines ----------------------------
(* Calls of the NTT engines, of p30 alone, or of the reference FFT, one per   *)
(* behaviour.                                                                 *)
EXTENDS NtEngines, IntFft, TLC

VARIABLES machine, primeSet, chains

(* The NTT engines: limbs of 16 bits, words of 15 and trunks of 23, 24 and    *)
(* 25: on the first rung the shorter operand may have 35 trunks, then 6, then *)
(* 1.                                                                         *)

MCPrimes == <<6529, 7297, 7681, 7937>>
MCTrunkBits == <<23, 24, 25>>

Ones(n) == [i \in 1 .. n |-> Limb - 1]
Varied(n, seed) == [i \in 1 .. n |-> (i * 7919 + 13 * i * i + seed) % Limb]
Top(n) == [i \in 1 .. n |-> IF i = n THEN 2 ^ (LimbBits - 1) ELSE 0]
(* n trunks of T bits, each the value v, in limbs *)
Field(v, from, width) == (v \div 2 ^ from) % 2 ^ width
Trunked(v, n, T) ==
  LET low(k) == (k * LimbBits) % T                \* first bit of limb k in its trunk
      limb(k) == IF low(k) + LimbBits <= T THEN Field(v, low(k), LimbBits)
                 ELSE Field(v, low(k), T - low(k)) + Field(v, 0, (low(k) + LimbBits) - T) * 2 ^ (T - low(k))
      above == (n * T) % LimbBits                 \* the last limb may hold a part of a trunk
      last == IF above = 0 THEN <<>> ELSE <<Field(v, T - above, above)>>
  IN  [k \in 1 .. (n * T) \div LimbBits |-> limb(k - 1)] \o last

Varieties(m, n) == {<<Call(Varied(m, 5), Varied(n, 77))>>, <<Call(Ones(m), Ones(n))>>}
Products == UNION {Varieties(m, n) : m \in {1, 2, 5, 8}, n \in {1, 2, 7, 9, 12, 20, 31}}
            \cup Varieties(40, 37) \cup Varieties(50, 12) \cup Varieties(90, 60)
Squares == {<<Square(Varied(n, 3))>> : n \in {1, 3, 6, 9, 14, 26, 40}}
           \cup {<<Square(Ones(n))>> : n \in {2, 9, 33, 50}}
(* residues at the upper end of a prime's lazy range; coefficients at the bound *)
Adverse == {<<Call(Trunked(MCPrimes[i] - 1, 16, 23), Trunked(MCPrimes[i] - 2, 8, 23))>> : i \in 1 .. 4}
           \cup {<<Call(Ones(100), Ones(100))>>, <<Call(Top(50), Top(50))>>}
(* long ones: the walk over leaf blocks *)
Long == {<<Call(Varied(430, 9), Varied(1, 3))>>, <<Call(Varied(1, 9), Ones(760))>>,
         <<Call(Varied(700, 1), Varied(9, 2))>>, <<Call(Ones(1300), Varied(1, 7))>>,
         <<Call(Varied(7, 1), Varied(900, 2))>>}
(* tables grown for one call and used by the next; engines refusing *)
Mixed == {<<Call(<<>>, Ones(2)), Call(Varied(9, 1), Varied(4, 2)), Square(Varied(2, 2)), Call(Ones(60), Ones(20)),
            Square(Varied(9, 3)), Call(Varied(200, 1), Varied(200, 2)), Call(Varied(3, 1), Varied(2, 1))>>}
MCSessions == Products \cup Squares \cup Adverse \cup Long \cup Mixed

(* The reference FFT: fields of prime order 2^13 - 1, 3 2^11 - 1, 5 2^10 - 1  *)
(* and 7 2^9 - 1.  Its bounds are IntDB, 2 IntDB and 8 IntDB points for u16   *)
(* digits and 8 and 32 IntDB for the narrower ones, as in the code; a         *)
(* cascade's leaf has 16 points, the iterative one starts at 128.             *)
Times(prime, a, b) == <<(a[1] * b[1] - a[2] * b[2]) % prime, (a[1] * b[2] + a[2] * b[1]) % prime>>
(* g^0 .. g^(order - 1), run by run *)
RECURSIVE Cycle(_, _, _, _)
Cycle(prime, g, run, order) ==
  IF Len(run) >= order THEN SubSeq(run, 1, order)
  ELSE LET step == Times(prime, run[Len(run)], g)
       IN  Cycle(prime, g, run \o [i \in 1 .. Len(run) |-> Times(prime, run[i], step)], order)
FieldOf(prime, g) == [q |-> prime, circle |-> Cycle(prime, g, <<<<1, 0>>>>, prime + 1)]
(* with a generator of the numbers of norm 1 of each *)
FieldTable ==
  (1 :> FieldOf(8191, <<3543, 3321>>)) @@ (3 :> FieldOf(6143, <<4915, 2458>>)) @@ (5 :> FieldOf(5119, <<4157, 4511>>)) @@ (7 :> FieldOf(3583, <<2867, 1434>>))

Limb4(d0, d1, d2, d3) == d0 + 16 * d1 + 256 * d2 + 4096 * d3
Uneven(limbs, s) ==
  [i \in 1 .. limbs |-> Limb4((s * i + 3) % 16, (i \div 3 + s) % 16, (7 * i * i + s) % 16, (i * 5) % 16)]
MCFields == FieldTable
MCLimits == [u16 |-> 16, wide |-> 32, centered |-> 128, u15 |-> 128, u14 |-> 512]
MCCascade == [block |-> 16, iterMin |-> 128, cachePairs |-> 16]
ofKind(kind, a, b) == [kind |-> kind, bits |-> 4, a |-> a, b |-> b]
square(kind, a) == ofKind(kind, a, a)
inBits(k, a, b) == [kind |-> "mul_bits", bits |-> k, a |-> a, b |-> b]
squareIn(k, a) == [kind |-> "sqr_bits", bits |-> k, a |-> a, b |-> a]
auto(la, lb) == ofKind("mul_auto", Uneven(la, 3), Uneven(lb, 2))
MCIntSessions == {
  <<ofKind("mul", Ones(4), Ones(4)), ofKind("mul", <<7>>, <<9>>), ofKind("mul", Ones(3), <<5>>),
    ofKind("mul", Ones(6), <<5>>), ofKind("mul", Uneven(5, 3), Uneven(4, 1)), square("sqr", Ones(3)), square("sqr", Ones(4))>>,
  <<ofKind("mul_auto", Uneven(5, 3), Ones(5)), ofKind("mul_auto", Ones(8), Ones(8)),
    ofKind("mul_auto", Ones(6), Ones(6)), square("sqr_auto", Ones(5)), square("sqr_auto", Ones(8))>>,
  <<auto(10, 10), auto(30, 34), auto(20, 7), auto(20, 12)>>,
  <<auto(30, 18), auto(30, 10), auto(21, 7), square("sqr_auto", Uneven(14, 3)), square("sqr_auto", Uneven(10, 3))>>,
  <<auto(40, 40), auto(100, 20)>>, <<auto(50, 50), auto(90, 20)>>,
  <<square("sqr_auto", Ones(64)), square("sqr_auto", Uneven(40, 1)), ofKind("mul_auto", Ones(64), Ones(65))>>,
  <<inBits(3, Ones(6), Ones(4)), inBits(2, Ones(5), <<9>>), inBits(3, Uneven(40, 3), Uneven(50, 5)),
    inBits(3, Ones(64), Ones(64)), inBits(0, <<1>>, <<1>>), inBits(5, <<1>>, <<1>>), inBits(1, <<1>>, <<1>>),
    inBits(4, Ones(2), Ones(3))>>,
  <<squareIn(3, Ones(7)), squareIn(2, Ones(9)), squareIn(2, <<>>), squareIn(4, Ones(3)), inBits(2, <<>>, <<3>>), inBits(2, <<3>>, <<>>)>>,
  <<inBits(3, Ones(12), Uneven(20, 3)), inBits(3, Uneven(12, 3), Ones(3)), inBits(3, Uneven(11, 3), Ones(25))>>}

(* p30 with limbs of 28 bits, words of 14, and primes of 12 bits: no fewer    *)
(* bits to spare than the code's.  The shorter operand may have 14 limbs, both *)
(* together 128; 33 to 48 are a mixed size.                                   *)
P30Limb == 2 ^ 28
P30Ones(n) == [i \in 1 .. n |-> P30Limb - 1]
P30Varied(n, seed) == [i \in 1 .. n |-> ((((i * 7919) + (13 * i * i) + seed) % 65536) * 4099) % P30Limb]
P30Ends(n) == [i \in 1 .. n |-> IF i = n THEN P30Limb - 1 ELSE IF i = 1 THEN 1 ELSE 0]
P30Thirds(n) == [i \in 1 .. n |-> (P30Limb - 1) \div 3]     \* times 3 all ones, plus 1 a carry to the top
P30Pairs(m, n) == {<<P30Varied(m, 5), P30Varied(n, 7)>>, <<P30Ones(m), P30Ones(n)>>,
                   <<P30Thirds(n), P30Ends(m)>>, <<P30Ends(m), P30Ones(n)>>}
P30Operands ==
  {[a |-> o[1], b |-> o[2], sq |-> FALSE] :
     o \in {<<<<>>, <<1>>>>, <<P30Ones(15), P30Ones(15)>>, <<P30Ones(127), P30Ones(3)>>,
            <<P30Thirds(70), <<3>>>>, <<[P30Thirds(70) EXCEPT ![1] = @ + 1], <<3>>>>, <<P30Ones(90), <<P30Limb - 1>>>>}
           \cup P30Pairs(1, 1) \cup P30Pairs(7, 9) \cup P30Pairs(14, 14) \cup P30Pairs(14, 19) \cup P30Pairs(5, 28)
           \cup P30Pairs(14, 20) \cup P30Pairs(3, 46) \cup P30Pairs(3, 47) \cup P30Pairs(9, 56) \cup P30Pairs(9, 57)
           \cup P30Pairs(14, 84) \cup P30Pairs(2, 127)}
  \cup {[a |-> o, b |-> o, sq |-> TRUE] :
          o \in {P30Ones(n) : n \in {1, 9, 14, 15}} \cup {P30Varied(n, 3) : n \in {8, 13}}}
P30 == INSTANCE P30Io WITH
         HalfBits <- 14, Limbs <- 8, Operands <- P30Operands,
         P30_PR <- <<3989, 4003, 4013, 4021, 4049>>, P30_MPR <- <<4057, 4073, 4079, 4091, 4093>>,
         P30_MIN_OPERAND_CAP <- 14, P30_MAX_LG <- 3, P30_MIX_MIN_LG <- 2, P30_MIX_MAX_LG <- 2, P30_OB <- 32

NtIdle == session = <<>> /\ legs = <<>> /\ q = 0 /\ plan = NoPlan /\ shape = <<>> /\ product = <<>>
NtParked ==
  /\ NtIdle
  /\ call = <<>> /\ stage = "parked" /\ ra = <<>> /\ rb = <<>> /\ st = <<>> /\ rp = <<>> /\ ret = Unset
ReferenceParked ==
  /\ calls = <<>> /\ at = "parked" /\ pl = NewPl /\ ws = NewWs /\ fs = Size(0, 0, 1) /\ io = None
  /\ data = <<>> /\ data2 = <<>> /\ result = <<-1>> /\ returned = -1

MCInit ==
  \/ machine = "NtEngines" /\ Init /\ primeSet = <<>> /\ chains = <<>> /\ ReferenceParked
  \/ machine = "P30Io" /\ P30!P30Init /\ NtIdle /\ ReferenceParked
  \/ machine = "IntFft" /\ NtParked /\ primeSet = <<>> /\ chains = <<>> /\ IntInit

MCNext ==
  /\ UNCHANGED machine
  /\ \/ machine = "NtEngines" /\ Next /\ UNCHANGED <<primeSet, chains, intVars>>
     \/ machine = "P30Io" /\ P30!P30Next /\ UNCHANGED <<session, legs, q, plan, shape, product, intVars>>
     \/ machine = "IntFft" /\ IntNext /\ UNCHANGED <<vars, primeSet, chains>>

MCSpec == MCInit /\ [][MCNext]_<<machine, vars, primeSet, chains, intVars>>

-----------------------------------------------------------------------------
(* Both NTT engines put out the product of the limbs they took in, or refuse  *)
(* and write nothing: NtEngines!NtProduct, P30Io!P30Product.                  *)
NttProducts ==
  /\ machine = "NtEngines" => NtProduct
  /\ machine = "P30Io" => P30!P30Product
=============================================================================
