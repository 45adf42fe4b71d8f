------------------------------ MODULE MCProducts ------------------------------
(* The two ways products are computed that everything else comes down to, one *)
(* per behaviour: the transform of the p30 engine - every truncation of up to *)
(* 16 vectors, through every entry, and the walks over leaf blocks of 64 to   *)
(* 512 vectors - and the products, block operations and additions on vectors  *)
(* of eight lanes, of base 128 and headroom 64.                               *)
EXTENDS TruncatedNtt, AddSubN

VARIABLE machine                                    \* which one runs

(* A call whose product takes tv vectors exactly. *)
Sized(tv, pattern, sq, ladder, fin) ==
  LET n == tv * W
      m == IF sq THEN n \div 2 ELSE (2 * n) \div 3
  IN  [an |-> m, bn |-> n + 1 - m, pattern |-> pattern, sq |-> sq, ladder |-> ladder,
       finMinM |-> fin]
(* One long operand and a short one. *)
Thin(tv, ladder, fin) ==
  [an |-> tv * W - 2, bn |-> 3, pattern |-> "varied", sq |-> FALSE, ladder |-> ladder,
   finMinM |-> fin]

Small == {<<Sized(tv, p, sq, ladder, fin)>> :
            tv \in 1 .. 16, p \in Fillings, sq \in BOOLEAN, ladder \in BOOLEAN, fin \in {8, 1000}}
Blocks == {<<Thin(64, FALSE, 1000)>>, <<Thin(100, FALSE, 8)>>, <<Thin(128, FALSE, 1000)>>,
           <<Thin(150, TRUE, 1000)>>, <<Thin(256, FALSE, 1000)>>, <<Thin(512, FALSE, 1000)>>}
(* Tables grown, not grown, and both sets in use. *)
Mixing == {<<Thin(3, FALSE, 1000), Thin(9, TRUE, 1000), Thin(13, FALSE, 8), Thin(5, FALSE, 8)>>,
           <<Thin(11, TRUE, 8), Thin(513, FALSE, 1000), Sized(450, "varied", TRUE, FALSE, 8),
             Thin(6, TRUE, 8)>>}
MCSessions == Small \cup Blocks \cup Mixing

-----------------------------------------------------------------------------
(* The programs on vectors.  A middle product reads the larger operand's      *)
(* prefix; an addition of n limbs has a carry in.                             *)
Middle == {s \in (1 .. 17) \X {9, 16, 17, 20, 24, 31} : s[1] < s[2]}
VectorShapes ==
  [narrow |-> {s \in (1 .. 18) \X (1 .. 8) : s[1] >= s[2]},
   wide   |-> {s \in (9 .. 25) \X {9, 10, 12, 15, 16, 17, 23, 24} : s[1] >= s[2]},
   vec    |-> (1 .. 17) \X {8},
   fast   |-> (1 .. 17) \X {8},
   estimate |-> {<<8, 8>>}, backmul |-> {<<16, 8>>}, order |-> {<<2, 2>>},
   addc |-> {<<3, 3>>}, subb |-> {<<3, 3>>},
   mid |-> Middle, midtail |-> Middle,
   add_n |-> (1 .. 56) \X {0, 1}, sub_n |-> (1 .. 56) \X {0, 1}]

VectorDigits ==
  LET mixed == [j \in 0 .. 63 |-> IF j % 3 = 0 THEN 1 ELSE IF j % 3 = 1 THEN 127 ELSE 0]
  IN  {[j \in 0 .. 63 |-> 127], [j \in 0 .. 63 |-> (37 * j * j + 11 * j + 5) % 128], mixed,
       [j \in 0 .. 63 |-> IF j < 3 THEN 126 ELSE 127 - mixed[j]],
       [j \in 0 .. 63 |-> IF j = 17 THEN 64 ELSE mixed[j]]}

(* Full words: runs that pass a carry or a borrow on over several vectors. *)
FullWords ==
  {[j \in 0 .. 63 |-> 8191], [j \in 0 .. 63 |-> IF j % 19 = 0 THEN 1 ELSE 0],
   [j \in 0 .. 63 |-> IF j % 19 = 0 THEN 8191 ELSE 8190],
   [j \in 0 .. 63 |-> (4099 * j * j + 77 * j) % 8192]}

VectorPatterns ==
  [p \in DOMAIN VectorShapes |-> IF p \in {"add_n", "sub_n"} THEN FullWords ELSE VectorDigits]

ASSUME Inputs == ProductInputs /\ DigitInputs /\ MiddleInputs /\ AddSubInputs

-----------------------------------------------------------------------------
TransformParked == session = <<>> /\ call = NoCall /\ todo = <<>> /\ product = <<>>
                     /\ RA = Blank(0) /\ RB = Blank(0) /\ plan = <<>>
VectorsParked ==
  /\ prog = "none" /\ an = 0 /\ bn = 0 /\ ap = <<>> /\ bp = <<>> /\ vi = 0
  /\ kept = <<>> /\ chain = <<>> /\ rp = <<>> /\ done = TRUE

MCInit ==
  \/ machine = "TruncatedNtt" /\ NttInit /\ VectorsParked
  \/ machine = "AddSubN" /\ TransformParked /\ Init

MCNext ==
  /\ UNCHANGED machine
  /\ \/ machine = "TruncatedNtt" /\ NttNext /\ UNCHANGED vars
     \/ machine = "AddSubN" /\ (Next \/ AddSubNext) /\ UNCHANGED nttVars

MCSpec == MCInit /\ [][MCNext]_<<machine, nttVars, vars>>

-----------------------------------------------------------------------------
(* Every machine's properties also hold of it when it is parked. *)
=============================================================================
