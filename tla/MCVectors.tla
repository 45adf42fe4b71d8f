------------------------------ MODULE MCVectors ------------------------------
(* The three machines on vectors of digits, one per behaviour:               *)
(*   CarryOps     operands of one to five limbs made of the digits 0 and 7:  *)
(*                every pattern of generated and propagated carries over one *)
(*                to three vectors;                                          *)
(*   LaneKernels  a single vector with a tail, and several with and without  *)
(*                one; chains of one operand see every pair of lane values;  *)
(*   DivExact3    four lanes of base 4, blocks of two vectors, lengths with  *)
(*                and without an unrolled block and a tail of every size.    *)
(* The first two have two lanes of base 8 with headroom 4: signed words      *)
(* -16 .. 15.                                                                *)
EXTENDS CarryOps, LaneKernels, DivExact3

VARIABLE machine                                                 \* which one runs

LaneWords == <<0 .. 31, {0, 7, 27, 31}, {0, 7, 27}, {1, 3}>>
SmallCarries == {-1, 0, 1}

ASSUME KernelInputs == KernelParameters
ASSUME ThirdInputs == D3Parameters

(* A machine that does not run, in a state from which it has no step. *)
NoKernel == Kernel("none", <<>>, <<>>, "none", FALSE, "vec", FALSE)
CarryParked ==
  /\ op = "none" /\ pc = "parked" /\ target = "r" /\ size = <<>> /\ extra = FALSE
  /\ mem = [name \in Arrays |-> [j \in Limbs |-> Foreign]] /\ before = mem
  /\ big = "a" /\ small = "b" /\ na = 0 /\ nb = 0 /\ at = 0 /\ bt = 0 /\ sig = FALSE
  /\ vi = 0 /\ carry = 0 /\ ret = 0
LanesParked ==
  /\ kernel = NoKernel /\ n = 0 /\ len = <<>> /\ i = 0 /\ phase = "parked" /\ lanes = Zero
  /\ chain = NoCarry /\ prev = Zero /\ debt = 0 /\ wrote = {} /\ digits = TRUE
ThirdParked == dn = 0 /\ di = 0 /\ inBlock = 0 /\ cv = 0 /\ ddebt = 0

MCInit ==
  \/ machine = "CarryOps" /\ CarryInit /\ LanesParked /\ ThirdParked
  \/ machine = "LaneKernels" /\ CarryParked /\ Init /\ ThirdParked
  \/ machine = "DivExact3" /\ CarryParked /\ LanesParked /\ D3Init

MCNext ==
  /\ UNCHANGED machine
  /\ \/ machine = "CarryOps" /\ CarryNext /\ UNCHANGED <<vars, d3Vars>>
     \/ machine = "LaneKernels" /\ Next /\ UNCHANGED <<carryVars, d3Vars>>
     \/ machine = "DivExact3" /\ D3Next /\ UNCHANGED <<carryVars, vars>>

MCSpec == MCInit /\ [][MCNext]_<<machine, carryVars, vars, d3Vars>>

-----------------------------------------------------------------------------
(* Every machine's properties also hold of it when it is parked. *)
=============================================================================
