----------------------------- MODULE MCBlockDiv -----------------------------
(* The block division and the reciprocal it starts from, one per behaviour.   *)
(*                                                                            *)
(* Divisions with exact seeds have base 4, so that the largest dividend, of   *)
(* 15 blocks, is an integer of TLC.  4/2 problems are exhaustive, 5/3         *)
(* problems for four divisors; the others have quotients and, below the top   *)
(* block, divisors that are a run of blocks 3 between blocks 0, and extreme   *)
(* remainders: the numbers that bring estimates to their limits.              *)
EXTENDS BlockDiv, Recip3by2

VARIABLE machine

Runs(n) == {4^s[1] - 4^s[2] : s \in {t \in (0 .. n) \X (0 .. n) : t[2] < t[1]}}
Quotients(n) == Runs(n) \cup {3 * 4^k - 1 : k \in 0 .. n - 1}
DivisorsOf(n) == {top * 4^(n - 1) + low : top \in {2, 3}, low \in {0} \cup Runs(n - 1)}

All(nn, dn) == [nn : {nn}, dn : {dn}, num : 0 .. 4^(nn - 1) - 1, den : (4^dn) \div 2 .. 4^dn - 1]
Rests(d, n) == {r \in {0, 2 * 4^(n - 1), d - 4^(n - 1), d - 1} : r < d}
Extreme(nn, dn) ==
  {p \in UNION {[nn : {nn}, dn : {dn}, num : {q * d + r : q \in Quotients(nn - dn), r \in Rests(d, dn)},
                 den : {d}] : d \in DivisorsOf(dn)} :
     p.num < 4^(nn - 1)}

(* The long divisions have most of the states: a selection of their problems, *)
(* and of the divisors of three blocks, the least and largest among them.     *)
MCProblems ==
  All(4, 2) \cup {p \in All(5, 3) : p.den \in {32, 42, 47, 63}} \cup
  Extreme(9, 4) \cup Extreme(9, 5) \cup
  {p \in Extreme(11, 6) : p.num % 4 = 1} \cup {p \in Extreme(15, 7) : p.num % 18 = 1}

(* Base 128: divisors next to Beta^3 / m, and dividends with a top block one  *)
(* below theirs.                                                              *)
NearIntegers == {(128^3) \div m - 1 : m \in 129 .. 255}
SeedProblems ==
  UNION {[nn : {4}, dn : {2}, den : {d},
          num : {((d \div 128 - 1) * 128 + u1) * 128 + u0 : u1 \in 0 .. 127, u0 \in {0, 127}}] :
           d \in {e \in NearIntegers : e >= 64 * 128}}

SeedUlps == {-1, 0, 1}

(* Reciprocals have words of 16 bits, lanes of 13: 2^312 / I is next to an    *)
(* integer, on the side where the seed is V - 1, where it is V + 1, or I has  *)
(* extreme words.                                                             *)
BelowV == {
  <<110, 45, 212, 166, 198, 17, 139, 242, 227, 216, 9, 204, 189, 170, 239, 1, 2, 129, 138, 74, 229, 162, 76, 4, 232, 131>>,
  <<145, 228, 47, 47, 4, 110, 99, 55, 174, 161, 214, 200, 32, 152, 210, 58, 227, 46, 171, 222, 121, 99, 5, 0, 0, 128>>,
  <<208, 32, 241, 63, 181, 131, 83, 113, 52, 208, 217, 74, 163, 191, 198, 126, 18, 25, 32, 174, 253, 251, 194, 97, 179, 211>>,
  <<197, 203, 229, 217, 44, 34, 123, 30, 64, 139, 117, 88, 195, 61, 227, 51, 241, 94, 74, 106, 0, 0, 0, 0, 0, 128>>,
  <<100, 53, 3, 0, 0, 0, 0, 0, 0, 0, 0, 0, 64, 68, 1, 0, 0, 0, 0, 0, 0, 0, 0, 0, 0, 128>>,
  <<59, 195, 211, 182, 111, 128, 47, 218, 175, 56, 205, 253, 161, 78, 1, 93, 223, 20, 105, 230, 74, 200, 161, 32, 1, 236>>}
AboveV == {
  <<141, 32, 130, 141, 27, 111, 242, 198, 139, 57, 65, 181, 86, 219, 26, 166, 225, 226, 62, 161, 68, 11, 154, 199, 103, 144>>,
  <<140, 51, 35, 47, 141, 144, 33, 40, 4, 50, 228, 213, 211, 171, 129, 130, 39, 45, 227, 122, 154, 1, 0, 0, 0, 128>>,
  <<244, 50, 72, 75, 66, 4, 9, 165, 76, 224, 206, 159, 195, 241, 242, 186, 6, 241, 21, 177, 93, 119, 147, 59, 34, 161>>,
  <<131, 229, 206, 135, 221, 30, 14, 223, 235, 77, 25, 106, 225, 214, 57, 66, 65, 28, 156, 118, 10, 108, 225, 0, 0, 128>>,
  <<222, 215, 231, 86, 107, 222, 105, 177, 59, 139, 182, 109, 149, 230, 145, 253, 89, 106, 22, 219, 154, 2, 1, 0, 0, 128>>}
Patterned == {
  [k \in 1 .. 26 |-> IF k = 26 THEN top ELSE IF k \in from .. to THEN byte ELSE 255 - byte] :
     top \in {128, 255}, byte \in {0, 255}, from \in {1, 12, 13, 14, 23}, to \in {12, 14, 22, 25}}
Uneven == {[k \in 1 .. 26 |-> IF k = 26 THEN 128 + s ELSE (s * k * k + 31 * k + 7 * s) % 256] : s \in 0 .. 39}
MCDivisors == BelowV \cup AboveV \cup Patterned \cup Uneven

DivisionParked == np = <<>> /\ qp = <<>> /\ dp = <<>> /\ v = 0 /\ stack = <<>> /\ ret = NoReturn
ReciprocalParked == rpc = "done" /\ divisor = <<>> /\ estimate = <<>> /\ seed = <<>>

MCInit ==
  \/ machine = "BlockDiv" /\ Init /\ ReciprocalParked
  \/ machine = "Recip3by2" /\ DivisionParked /\ RecipInit

MCNext ==
  /\ UNCHANGED machine
  /\ \/ machine = "BlockDiv" /\ Next /\ UNCHANGED recipVars
     \/ machine = "Recip3by2" /\ RecipNext /\ UNCHANGED vars

MCSpec == MCInit /\ [][MCNext]_<<machine, vars, recipVars>> /\ WF_vars(Next /\ UNCHANGED <<machine, recipVars>>)

-----------------------------------------------------------------------------
(* The reciprocal's seed is V or a neighbour, and recip_3by2's result is V:   *)
(* Recip3by2!ReciprocalRight.                                                 *)
SeedAndReciprocal == machine = "Recip3by2" => ReciprocalRight
=============================================================================
