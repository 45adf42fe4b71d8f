------------------------------ MODULE MCEntries ------------------------------
(* The three machines that take packed words, one per behaviour:              *)
(*   SimdMul   words of 16 bits, digits of 13; every kernel and either order  *)
(*             of the operands, zero words on top and operands of value zero; *)
(*   Divrem64  the same words, divisors of two and three blocks, shifts with  *)
(*             and without whole digits and odd bits, all seven words of the  *)
(*             seed and eight; Padding zero words on top of the dividend;     *)
(*   SbnDiv    words of five bits, divisors of three and four words.         *)
EXTENDS SimdMul, SbnDiv

CONSTANT Padding

VARIABLES
  machine,
  dv, nn64, dn64, npw, dpw, qw, rw, blocksD, shift, blocksN, lane, bi, low, ch, seed, qpb, rpb, lens

entryVars == <<dv, nn64, dn64, npw, dpw, qw, rw, blocksD, shift, blocksN, lane, bi, low, ch, seed,
               qpb, rpb, lens>>

Mixed(n, k) == [x \in 1 .. n |-> ((k * x * x) + (4099 * x) + k) % 65536]
Ones(n) == [x \in 1 .. n |-> 65535]
Zeros(n) == [x \in 1 .. n |-> 0]
Short(n, z) == [x \in 1 .. n |-> IF x > n - z THEN 0 ELSE (31 * x) + 7]
Topped(f, t) == [f EXCEPT ![Len(f)] = t]

MCFactors ==
  {<<Mixed(3, 5), Mixed(6, 9)>>, <<Mixed(7, 5), Ones(7)>>, <<Ones(7), Ones(13)>>,
   <<Short(7, 1), Short(9, 2)>>, <<Zeros(9), Ones(7)>>, <<Ones(14), Mixed(5, 3)>>,
   <<Ones(1), Mixed(8, 3)>>, <<Short(8, 7), Ones(1)>>}
MCExcess == {<<0>>, <<3, -2, 1>>, <<-1, 2, 0, -3, 1>>}

MCDivides ==
  {<<Len(q) + Len(d) + e, q, d, r>> :
     q \in {Ones(1), Mixed(3, 7), Ones(6), Topped(Mixed(7, 5), 1), Mixed(14, 3)},
     d \in {Topped(Mixed(7, 5), 1024), Topped(Ones(7), 511), Ones(7), Topped(Mixed(8, 3), 1),
            Mixed(14, 9), Topped(Zeros(9), 3)},
     r \in {Zeros(1), Mixed(6, 11)}, e \in Padding}
  \cup {<<4, Zeros(1), Ones(8), Mixed(3, 3)>>}
  \cup {<<n, Zeros(1), Ones(8), Mixed(7, 3)>> : n \in {8, 12}}

Tops == {0, 15, 31}
MCDivisions ==
  {<<<<w, x, y, z>>, <<f, g, h>>>> :
     w \in Tops, x \in Tops, y \in Tops, z \in {0, 1, 16, 31}, f \in Tops, g \in {0, 16, 31}, h \in {1, 16, 25}}
  \cup {<<<<w, 0, x, y, z, z>>, <<f, 31, g, h>>>> :
     w \in Tops, x \in Tops, y \in Tops, z \in {15, 31}, f \in Tops, g \in {0, 31}, h \in {3, 15, 31}}

D == INSTANCE Divrem64 WITH
       Divides <- MCDivides, Left <- {0, 65535}, dn <- blocksD, s <- shift, nn <- blocksN

MulParked ==
  /\ pc = "parked" /\ a = <<>> /\ b = <<>> /\ an = 0 /\ bn = 0 /\ mem = <<>> /\ n52a = 0 /\ n52b = 0
  /\ cls = 0 /\ j = 0 /\ chain = NoCarry /\ rp = <<>>
DivremParked ==
  /\ dv = "parked" /\ nn64 = 0 /\ dn64 = 0 /\ npw = <<>> /\ dpw = <<>> /\ qw = <<>> /\ rw = <<>>
  /\ blocksD = 0 /\ shift = 0 /\ blocksN = 0 /\ lane = <<>> /\ bi = 0 /\ low = 0 /\ ch = NoCarry
  /\ seed = <<>> /\ qpb = <<>> /\ rpb = <<>> /\ lens = <<0, 0>>
SbnParked ==
  /\ sbn = "parked" /\ np = <<>> /\ dp = <<>> /\ n2 = <<>> /\ d2 = <<>> /\ cnt = 0 /\ dinv = 0
  /\ n1 = 0 /\ i = 0 /\ qh = 0 /\ qp = <<>> /\ rs = <<>> /\ lengths = <<0, 0>>

MCInit ==
  \/ machine = "SimdMul" /\ Init /\ DivremParked /\ SbnParked
  \/ machine = "Divrem64" /\ MulParked /\ D!DvInit /\ SbnParked
  \/ machine = "SbnDiv" /\ MulParked /\ DivremParked /\ SbnInit

MCNext ==
  /\ UNCHANGED machine
  /\ \/ machine = "SimdMul" /\ Next /\ UNCHANGED <<entryVars, sbnVars>>
     \/ machine = "Divrem64" /\ D!DvNext /\ UNCHANGED <<vars, sbnVars>>
     \/ machine = "SbnDiv" /\ SbnNext /\ UNCHANGED <<vars, entryVars>>

MCSpec == MCInit /\ [][MCNext]_<<machine, vars, entryVars, sbnVars>>

-----------------------------------------------------------------------------
(* The properties of Divrem64 *)

(* Packed quotients and remainders are right: Divrem64!DivremRight. *)
DivremRight == D!DivremRight

(* The quotient's words are right: Divrem64!QuotientWhole. *)
QuotientWhole == D!QuotientWhole
=============================================================================
