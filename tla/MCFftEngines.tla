--------------------------- MODULE MCFftEngines ---------------------------
(* Both floating point FFT engines, as a thread calls them, in fields of     *)
(* prime order 2^13 - 1, 3 2^11 - 1, 5 2^10 - 1 and 7 2^9 - 1, and calls at  *)
(* the least sizes of every radix.                                           *)
EXTENDS Fft16, Pq16, TLC

Times(q, a, b) == <<(a[1] * b[1] - a[2] * b[2]) % q, (a[1] * b[2] + a[2] * b[1]) % q>>
(* g^0 .. g^(order - 1), run by run *)
RECURSIVE Cycle(_, _, _, _)
Cycle(q, g, run, order) ==
  IF Len(run) >= order THEN SubSeq(run, 1, order)
  ELSE LET step == Times(q, run[Len(run)], g)
       IN  Cycle(q, g, run \o [i \in 1 .. Len(run) |-> Times(q, run[i], step)], order)
FieldOf(q, g) == [q |-> q, circle |-> Cycle(q, g, <<<<1, 0>>>>, q + 1)]
(* with a generator of the numbers of norm 1 of each *)
FieldTable ==
  (1 :> FieldOf(8191, <<3543, 3321>>)) @@ (3 :> FieldOf(6143, <<4915, 2458>>)) @@ (5 :> FieldOf(5119, <<4157, 4511>>)) @@ (7 :> FieldOf(3583, <<2867, 1434>>))
MCFields == FieldTable

Limb(d0, d1, d2, d3) == d0 + 16 * d1 + 256 * d2 + 4096 * d3
Varied(limbs, s) ==
  [i \in 1 .. limbs |-> Limb((s * i + 3) % 16, (i \div 3 + s) % 16, (7 * i * i + s) % 16, (i * 5) % 16)]
Full(limbs) == [i \in 1 .. limbs |-> 65535]
(* times 3 it is 2^k - 1 and more: one carry runs through every front *)
Rippling(limbs) == [i \in 1 .. limbs |-> IF i = 1 THEN 21846 ELSE 21845]

mul(a, b) == [kind |-> "mul", a |-> a, b |-> b]
planOf(m, branch) == [kind |-> "plan", M |-> m, branch |-> branch]
trip(m, branch) == [kind |-> "trip", M |-> m, branch |-> branch, a |-> Varied((m * branch) \div 2, 5)]

Base == [engine |-> "fft16", maxN |-> 131072, maxNC |-> 524288, stageOver |-> 131072, pfa7MaxN |-> 65536,
         pfa7MinBranch |-> 128, twcMinLg |-> 16, tiers |-> <<131072, 32768, 2048>>, pfa3x2 |-> FALSE,
         emitRot |-> FALSE, forceCentered |-> FALSE]
Later == [Base EXCEPT !.pfa7MaxN = 448, !.twcMinLg = 7]
Halves == [Later EXCEPT !.pfa3x2 = TRUE]
Rotated == [Base EXCEPT !.emitRot = TRUE, !.tiers = <<512, 256, 128>>]
Forced == [Base EXCEPT !.forceCentered = TRUE]
(* centring starts above 512 points, tables of 128 and more are compact *)
Small == [Base EXCEPT !.maxN = 512, !.maxNC = 1024, !.stageOver = 512, !.pfa7MaxN = 448, !.twcMinLg = 7,
            !.tiers = <<512, 256, 128>>]
Pq(b) == [b EXCEPT !.engine = "pq16"]

(* both tiers of the arena are in use already *)
Arena == [stack |-> 64 * 2 + 8, heap |-> 32768 * 2 + 24]
Runs(b, list) == {[build |-> b, calls |-> list, arena |-> Arena]}
(* products for both engines *)
Products(b, list) == Runs(b, list) \cup Runs(Pq(b), list)
MCPrograms ==
  Runs(Base, <<mul(<<>>, Full(1)), planOf(1, 1024), mul(Varied(200, 3), Varied(9, 1))>>)
    \cup Products(Base, <<mul(Rippling(370), <<3>>), mul(Varied(1, 3), <<7>>)>>)
    \cup Products(Base, <<mul(Varied(290, 3), Varied(4, 1)), mul(Full(400), Full(3))>>)
    \cup Products(Base, <<mul(Varied(460, 7), Varied(5, 3))>>)
    \cup Products(Later, <<mul(Varied(400, 7), Varied(2, 3)), mul(<<7>>, <<>>), mul(Varied(640, 7), Varied(5, 3))>>)
    \cup Runs(Halves, <<mul(Varied(370, 5), Varied(8, 1)), mul(Varied(640, 7), Varied(5, 3))>>)
    \cup Products(Rotated, <<mul(Varied(340, 5), Varied(3, 1)), mul(Rippling(299), <<3>>)>>)
    \cup Products(Rotated, <<mul(Varied(430, 5), Varied(3, 1))>>)
    \cup Products(Forced, <<mul(Varied(3, 7), Varied(250, 2))>>)
    \cup Products(Forced, <<mul(Varied(400, 7), Varied(4, 2)), mul(Rippling(300), <<3>>)>>)
    \cup Products(Small, <<mul(Varied(100, 7), Varied(6, 2)), mul(Varied(290, 3), Full(3))>>)
    \cup Products(Small, <<mul(Varied(370, 7), Varied(6, 2)), mul(Full(600), Full(1)), mul(Varied(500, 2), Varied(6, 1))>>)
    \cup Runs(Base, <<trip(1, 512), trip(3, 256)>>) \cup Runs(Halves, <<trip(3, 512), trip(3, 256)>>)
    \cup Runs(Small, <<trip(1, 1024), trip(5, 128)>>) \cup Runs(Rotated, <<trip(7, 128)>>)

(* centred, radix 3, with the passes that F16_PFA3X2 switches on *)
MCHalvedPrograms ==
  LET b == [Forced EXCEPT !.pfa3x2 = TRUE]
  IN  Runs(b, <<mul(Varied(1, 3), <<7>>), mul(Varied(370, 7), Varied(6, 2))>>) \cup Runs(b, <<mul(Varied(350, 7), Varied(3, 2))>>)

MCNeeds == {c * 2 ^ k + d : c \in {1, 3, 5, 7}, k \in 1 .. 17, d \in {-1, 0, 1}}

-----------------------------------------------------------------------------
Next == Fft16Next \/ Pq16Next \/ NextCall

Spec == Init /\ [][Next]_vars

-----------------------------------------------------------------------------
(* The size chosen holds the product, is the least of all sizes its band     *)
(* admits, and no more than the precision of its radix allows                *)
(* (fft16.h:2636-2675, pq16.h:1901-1937).                                           *)
Admitted(m, full, maxn, cen) ==
  /\ full <= maxn
  /\ m = 7 => full \div 7 >= build.pfa7MinBranch /\ (cen \/ full <= build.pfa7MaxN)
SizeRight ==
  pc = "call" =>
    \A need \in {x \in Needs : x <= build.maxNC} :
      LET cen == need > build.maxN
          maxn == IF cen THEN build.maxNC ELSE build.maxN
          s == IF build.engine = "fft16" THEN f16_choose(need, maxn, cen) ELSE pq16_choose(need, maxn, cen)
      IN  /\ s.nfull >= need /\ s.nfull = s.M * s.branch /\ Admitted(s.M, s.nfull, maxn, cen)
          /\ \A m \in DOMAIN Fields, k \in 0 .. 12 :
               LET full == LeastFull(m) * 2 ^ k
               IN  full >= need /\ Admitted(m, full, maxn, cen) => s.nfull <= full
=============================================================================
