----------------------------- MODULE MCMulPlans -----------------------------
(* The two machines of a multiplication's plan, one per behaviour:            *)
(*   MulDispatch   the code's thresholds, on shapes at and around every        *)
(*                 cutpoint;                                                   *)
(*   ProductPlans  real vectors of 8 limbs and, for every algorithm, shapes    *)
(*                 whose parts end before, at and after a vector boundary,     *)
(*                 with the shortest and longest top pieces its shape test     *)
(*                 admits.                                                     *)
EXTENDS MulDispatch, ProductPlans

VARIABLE machine

MCShapes ==
  {<<95, 95>>, <<96, 96>>, <<97, 97>>, <<191, 96>>, <<192, 97>>, <<288, 96>>, <<300, 100>>,
   <<191, 191>>, <<200, 131>>, <<300, 131>>, <<384, 384>>, <<400, 200>>, <<617, 617>>,
   <<135, 108>>, <<188, 108>>, <<230, 132>>, <<263, 132>>, <<482, 96>>, <<387, 96>>,
   <<655, 524>>, <<618, 618>>, <<700, 620>>, <<900, 620>>, <<1200, 618>>, <<1545, 618>>,
   <<1900, 620>>, <<565, 370>>, <<754, 378>>, <<570, 570>>, <<1143, 1143>>}
MCGaps == <<{-1, 0, 1} \X {-1, 0, 1}, {<<0, 0>>, <<-1, 0>>}, {<<0, 0>>}>>

Lengths(k) == {0, 8, k} \cap (0 .. k)
Jobs(alg, an, bn, la, lb) ==
  [alg : {alg}, an : {an}, bn : {bn}, sa : Lengths(la), sb : Lengths(lb), neg : BOOLEAN, cls : {0}]
Karatsuba(an, bn) ==
  [alg : {"karatsuba"}, an : {an}, bn : {bn}, sa : Lengths(an - Split(an)),
   sb : Lengths(Most(Split(an), bn - Split(an))), neg : BOOLEAN, cls : {0, 1}]
Stripmine(an, bn) ==
  [alg : {"stripmine"}, an : {an}, bn : {bn}, sa : {0}, sb : {0}, neg : {FALSE}, cls : {0}]

MCProducts ==
  UNION {Karatsuba(s[1], s[2]) : s \in {<<3, 2>>, <<16, 16>>, <<17, 9>>, <<19, 18>>}}
  \cup UNION {Jobs("toom32", s[1], s[2], Toom32Part(s[1], s[2]) + 1, Toom32Part(s[1], s[2])) :
                s \in {<<5, 4>>, <<6, 4>>, <<20, 14>>, <<21, 14>>, <<22, 17>>, <<24, 16>>, <<28, 17>>}}
  \cup UNION {Jobs("toom33", s[1], s[2], Toom33Part(s[1]) + 1, Toom33Part(s[1]) + 1) :
                s \in {<<5, 5>>, <<21, 21>>, <<22, 17>>, <<25, 20>>}}
  \cup UNION {Jobs("toom42", s[1], s[2], Toom42Part(s[1], s[2]) + 1, Toom42Part(s[1], s[2])) :
                s \in {<<7, 3>>, <<28, 14>>, <<25, 8>>, <<30, 14>>, <<32, 16>>}}
  \cup UNION {Stripmine(s[1], s[2]) :
                s \in {<<23, 7>>, <<26, 10>>, <<51, 10>>, <<69, 10>>, <<80, 16>>, <<41, 10>>, <<64, 10>>, <<64, 16>>}}

DispatchParked == stack = <<>> /\ result = NoResult /\ peak = 0
PlansParked ==
  /\ job = [alg |-> "none", an |-> 0, bn |-> 0, cls |-> 0] /\ code = <<>> /\ at = 0
  /\ mem = <<>> /\ mixed = {} /\ intact = TRUE

MCInit ==
  \/ machine = "MulDispatch" /\ Init /\ PlansParked
  \/ machine = "ProductPlans" /\ DispatchParked /\ PlansInit

MCNext ==
  /\ UNCHANGED machine
  /\ \/ machine = "MulDispatch" /\ Next /\ UNCHANGED planVars
     \/ machine = "ProductPlans" /\ PlansNext /\ UNCHANGED vars

MCSpec == MCInit /\ [][MCNext]_<<machine, vars, planVars>>
=============================================================================
