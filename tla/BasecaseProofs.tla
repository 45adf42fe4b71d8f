--------------------------- MODULE BasecaseProofs ---------------------------
(***************************************************************************)
(* The products of include/mul.h, mul_vec.h, mulmid.h and div.h are right  *)
(* and store nothing past their result, and mpn_add_n and mpn_sub_n of     *)
(* include/addsub_n.h write the sum's and difference's words, for vectors  *)
(* of every length, every base and headroom, operands of all lengths and   *)
(* contents.                                                               *)
(***************************************************************************)
EXTENDS AddSubN, LaneProofs

-----------------------------------------------------------------------------
(* The products' footprint *)

FootRoom == IF prog \in {"vec", "fast"} THEN ((Count + L - 1) \div L) * L ELSE Count
Beyond(mem, room) == DOMAIN mem = Limbs /\ \A j \in Limbs : j >= room => mem[j] = Untouched

(* The lengths a call comes with. *)
FootShape ==
  /\ an \in Nat \ {0} /\ bn \in Nat \ {0}
  /\ prog = "narrow" => bn <= L
  /\ prog \in {"vec", "fast"} => bn = L

FootInv == prog \in Products => vi \in Nat /\ FootShape /\ Beyond(rp, FootRoom)

(* A store stays below the end of what it is given. *)
LEMMA StoredBelow ==
  ASSUME NEW mem, NEW room \in Nat, Beyond(mem, room), NEW k \in Nat, NEW v, NEW count \in Nat,
         k * L + (IF count >= L THEN L ELSE count) <= room
  PROVE  Beyond(Stored(mem, k, v, count), room)
<1> DEFINE s == Stored(mem, k, v, count)
<1>1. DOMAIN s = Limbs /\ \A j \in Limbs : s[j] = v[j % L] \/ s[j] = mem[j]
  BY DEF Stored
<1>2. ASSUME NEW j \in Limbs, j >= room PROVE s[j] = Untouched
  <2>1. L \in Nat \ {0} /\ j \in Nat
    BY Parameters, RoomAssumption DEF Limbs
  <2>2. ~(j \div L = k /\ (j % L) \in LimbMask(count))
    <3> SUFFICES ASSUME j \div L = k, (j % L) \in LimbMask(count) PROVE FALSE
      OBVIOUS
    <3> DEFINE q == j \div L
    <3>4. j = q * L + (j % L) /\ j % L \in 0 .. L - 1
      <4>1. j \in Int
        BY <2>1
      <4> QED BY <2>1, <4>1, DivMod
    <3>5. q = k
      OBVIOUS
    <3> HIDE DEF q
    <3>1. j = k * L + (j % L) /\ j % L \in 0 .. L - 1
      BY <3>4, <3>5
    <3>2. j % L < IF count >= L THEN L ELSE count
      BY <2>1, <3>1 DEF LimbMask, FirstLanes
    <3> DEFINE a == k * L
    <3>3. a \in Nat
      BY <2>1
    <3> HIDE DEF a
    <3> QED BY <1>2, <2>1, <3>1, <3>2, <3>3 DEF a
  <2> QED BY <1>2, <2>2 DEF Stored, Beyond
<1> QED BY <1>1, <1>2 DEF Beyond

LEMMA FootSizes ==
  ASSUME prog \in Products, FootShape
  PROVE  /\ L \in Nat \ {0} /\ an \in Nat \ {0} /\ bn \in Nat \ {0} /\ FootRoom \in Nat
         /\ prog \in {"narrow", "wide", "order"} => FootRoom = an + bn
         /\ prog \in {"estimate", "backmul"} => FootRoom = 2 * L
         /\ prog \in {"addc", "subb"} => FootRoom = an * L
         /\ prog \in {"vec", "fast"} => FootRoom = ((an + bn + L - 1) \div L) * L
<1>1. L \in Nat \ {0} /\ an \in Nat \ {0} /\ bn \in Nat \ {0}
  BY Parameters DEF FootShape
<1>2. CASE prog \in {"narrow", "wide", "order"}
  BY <1>1, <1>2 DEF FootRoom, Count
<1>3. CASE prog \in {"estimate", "backmul"}
  BY <1>1, <1>3 DEF FootRoom, Count
<1>4. CASE prog \in {"addc", "subb"}
  <2>1. an * L \in Nat
    BY <1>1
  <2> QED BY <1>1, <1>4, <2>1 DEF FootRoom, Count
<1>5. CASE prog \in {"vec", "fast"}
  <2> DEFINE q == (an + bn + L - 1) \div L
  <2>1. FootRoom = q * L
    BY <1>1, <1>5 DEF FootRoom, Count
  <2>2. q \in Nat
    BY <1>1
  <2> HIDE DEF q
  <2>3. q * L \in Nat
    BY <1>1, <2>2
  <2> QED BY <1>1, <1>5, <2>1, <2>3 DEF q
<1> QED BY <1>2, <1>3, <1>4, <1>5 DEF Products

LEMMA FootKept ==
  ASSUME prog \in Products, FootShape, UNCHANGED <<prog, an, bn>>, vi' \in Nat, Beyond(rp', FootRoom)
  PROVE  FootInv'
<1>1. FootShape' /\ FootRoom' = FootRoom
  BY DEF FootShape, FootRoom, Count
<1> QED BY <1>1 DEF FootInv, Beyond, Limbs

(* A whole output vector, .. *)
LEMMA FootTurn ==
  ASSUME prog \in Products, FootInv, NEW regs, Turn(regs), vi * L + L <= FootRoom
  PROVE  FootInv'
<1>1. L \in Nat \ {0} /\ FootRoom \in Nat /\ vi \in Nat /\ FootShape /\ Beyond(rp, FootRoom)
  BY FootSizes DEF FootInv
<1>2. rp' = Stored(rp, vi, Harvest(regs), L) /\ vi' \in Nat /\ UNCHANGED <<prog, an, bn>>
  BY <1>1 DEF Turn
<1>3. Beyond(rp', FootRoom)
  BY <1>1, <1>2, StoredBelow
<1> QED BY <1>1, <1>2, <1>3, FootKept

(* .. and the last one or two. *)
LEMMA FootFinish ==
  ASSUME prog \in Products, FootInv, NEW regs, NEW count \in Nat, Finish(regs, count),
         count <= 2 * L, vi * L + count <= FootRoom
  PROVE  FootInv'
<1> DEFINE first == Stored(rp, vi, Harvest(regs), count)  a == vi * L
<1>1. L \in Nat \ {0} /\ FootRoom \in Nat /\ vi \in Nat /\ FootShape /\ Beyond(rp, FootRoom)
  BY FootSizes DEF FootInv
<1>2. rp' = (IF count <= L THEN first ELSE Stored(first, vi + 1, Flush(regs), count - L))
  BY DEF Finish
<1>3. vi' \in Nat /\ UNCHANGED <<prog, an, bn>>
  BY <1>1 DEF Finish
<1>4. a \in Nat /\ (vi + 1) * L = a + L /\ vi * L = a
  BY <1>1
<1>5. Beyond(first, FootRoom)
  <2>1. vi * L + (IF count >= L THEN L ELSE count) <= FootRoom
    <3> HIDE DEF a
    <3> QED BY <1>1, <1>4
  <2> QED BY <1>1, <2>1, StoredBelow
<1>6. CASE count > L
  <2> HIDE DEF first
  <2> DEFINE more == count - L
  <2>1. more \in Nat /\ (vi + 1) * L + (IF more >= L THEN L ELSE more) <= FootRoom
    <3> HIDE DEF a
    <3> QED BY <1>1, <1>4, <1>6
  <2> HIDE DEF more
  <2>2. vi + 1 \in Nat
    BY <1>1
  <2>3. Beyond(Stored(first, vi + 1, Flush(regs), more), FootRoom)
    BY <1>1, <1>5, <2>1, <2>2, StoredBelow
  <2>4. rp' = Stored(first, vi + 1, Flush(regs), more)
    BY <1>1, <1>2, <1>6 DEF more
  <2> QED BY <1>1, <1>3, <2>3, <2>4, FootKept
<1>7. CASE count <= L
  <2>1. Beyond(rp', FootRoom)
    BY <1>2, <1>5, <1>7
  <2> QED BY <1>1, <1>3, <2>1, FootKept
<1> QED BY <1>1, <1>6, <1>7

(* How many vectors a length takes, and what is left of it. *)
LEMMA Vectors ==
  ASSUME NEW n \in Nat
  PROVE  n \div L \in Nat /\ n % L \in 0 .. L - 1 /\ (n \div L) * L \in Nat /\ n = (n \div L) * L + (n % L)
<1> DEFINE q == n \div L
<1>1. L \in Nat \ {0}
  BY Parameters
<1>2. q \in Nat /\ n % L \in 0 .. L - 1 /\ n = q * L + (n % L)
  <2>1. n \in Int /\ q \in Nat
    BY <1>1
  <2>2. n % L \in 0 .. L - 1 /\ n = q * L + (n % L)
    BY <1>1, <2>1, DivMod
  <2> QED BY <2>1, <2>2
<1> HIDE DEF q
<1>3. q * L \in Nat
  BY <1>1, <1>2
<1> QED BY <1>2, <1>3 DEF q

LEMMA BelowProduct ==
  ASSUME NEW k \in Nat, NEW q \in Nat, k < q
  PROVE  k * L + L <= q * L /\ k * L \in Nat /\ (k + 1) * L = k * L + L
<1>1. L \in Nat /\ k + 1 \in Int /\ q \in Int /\ k + 1 <= q
  BY Parameters
<1>2. (k + 1) * L <= q * L
  BY <1>1, MulLe
<1>3. (k + 1) * L = k * L + L /\ k * L \in Nat
  BY <1>1
<1> QED BY <1>2, <1>3

LEMMA NarrowFoot ==
  ASSUME FootInv, NarrowTurn \/ NarrowTail \/ NarrowFlush
  PROVE  FootInv'
<1> DEFINE q == an \div L  r == an % L  c == q * L
<1>1. prog = "narrow" /\ prog \in Products /\ vi \in Nat /\ FootShape
  BY DEF NarrowTurn, NarrowTail, NarrowFlush, FootInv, Products
<1>2. /\ L \in Nat \ {0} /\ an \in Nat /\ bn \in Nat \ {0} /\ FootRoom \in Nat /\ FootRoom = an + bn /\ bn <= L
  BY <1>1, FootSizes DEF FootShape
<1>3. q \in Nat /\ r \in 0 .. L - 1 /\ c \in Nat /\ an = c + r /\ q * L = c
  BY <1>2, Vectors
<1>4. CASE NarrowTurn
  <2>1. vi < q /\ \E regs : Turn(regs)
    BY <1>4 DEF NarrowTurn
  <2> HIDE DEF q, r, c
  <2>2. vi * L + L <= FootRoom
    <3>1. vi * L + L <= c /\ vi * L \in Nat
      BY <1>1, <1>3, <2>1, BelowProduct
    <3> QED BY <1>2, <1>3, <3>1
  <2> QED BY <1>1, <2>1, <2>2, FootTurn
<1>5. CASE NarrowTail
  <2>1. vi = q /\ \E regs : Finish(regs, r + bn)
    BY <1>5 DEF NarrowTail
  <2> HIDE DEF q, r, c
  <2>2. r + bn \in Nat /\ r + bn <= 2 * L /\ vi * L + (r + bn) <= FootRoom
    BY <1>2, <1>3, <2>1
  <2> QED BY <1>1, <2>1, <2>2, FootFinish
<1>6. CASE NarrowFlush
  <2>1. vi = q /\ r = 0 /\ Finish(NoTerms, bn)
    BY <1>6 DEF NarrowFlush
  <2> HIDE DEF q, r, c
  <2>2. bn \in Nat /\ bn <= 2 * L /\ vi * L + bn <= FootRoom
    BY <1>2, <1>3, <2>1
  <2> QED BY <1>1, <2>1, <2>2, FootFinish
<1> QED BY <1>4, <1>5, <1>6

LEMMA WideFoot ==
  ASSUME FootInv, WideTurn \/ WideEnd
  PROVE  FootInv'
<1> DEFINE c == LastA * L  d == LastB * L
<1>1. prog = "wide" /\ prog \in Products /\ vi \in Nat /\ FootShape
  BY DEF WideTurn, WideEnd, FootInv, Products
<1>2. /\ L \in Nat \ {0} /\ an \in Nat \ {0} /\ bn \in Nat \ {0} /\ FootRoom \in Nat /\ FootRoom = an + bn
  BY <1>1, FootSizes
<1>3. /\ LastA \in Nat /\ TopA \in 0 .. L - 1 /\ c \in Nat /\ an - 1 = c + TopA
      /\ LastB \in Nat /\ TopB \in 0 .. L - 1 /\ d \in Nat /\ bn - 1 = d + TopB
  <2>1. an - 1 \in Nat /\ bn - 1 \in Nat
    BY <1>2
  <2> QED BY <2>1, Vectors DEF LastA, LastB, TopA, TopB
<1>4. (LastA + LastB) * L = c + d /\ LastA + LastB \in Nat
  <2>1. \A x, y, z \in Nat : (x + y) * z = x * z + y * z
    OBVIOUS
  <2> QED BY <1>2, <1>3, <2>1
<1> HIDE DEF c, d
<1>5. CASE WideTurn
  <2>1. vi < LastA + LastB /\ \E regs : Turn(regs)
    BY <1>5 DEF WideTurn
  <2>2. vi * L + L <= FootRoom
    <3>1. vi * L + L <= c + d /\ vi * L \in Nat
      BY <1>1, <1>4, <2>1, BelowProduct
    <3> QED BY <1>2, <1>3, <3>1
  <2> QED BY <1>1, <2>1, <2>2, FootTurn
<1>6. CASE WideEnd
  <2> DEFINE count == TopA + TopB + 2
  <2>1. vi = LastA + LastB /\ \E regs : Finish(regs, count)
    BY <1>6 DEF WideEnd
  <2>2. count \in Nat /\ count <= 2 * L /\ vi * L + count <= FootRoom
    BY <1>2, <1>3, <1>4, <2>1
  <2> HIDE DEF count
  <2> QED BY <1>1, <2>1, <2>2, FootFinish
<1> QED BY <1>5, <1>6

(* Whole vectors: to the end of the last one. *)
LEMMA StreamFoot ==
  ASSUME FootInv, NEW p \in {"vec", "fast"}, StreamTurn(p) \/ StreamEnd(p)
  PROVE  FootInv'
<1> DEFINE q == an \div L  r == an % L  c == q * L
<1>1. prog = p /\ prog \in Products /\ vi \in Nat /\ FootShape /\ Beyond(rp, FootRoom)
  BY DEF StreamTurn, StreamEnd, FootInv, Products
<1>2. /\ L \in Nat \ {0} /\ an \in Nat \ {0} /\ bn = L /\ FootRoom \in Nat
      /\ FootRoom = ((an + bn + L - 1) \div L) * L
  BY <1>1, FootSizes DEF FootShape
<1>3. q \in Nat /\ r \in 0 .. L - 1 /\ c \in Nat /\ an = c + r /\ q * L = c /\ (q + 1) * L = c + L
  <2>1. q \in Nat /\ r \in 0 .. L - 1 /\ c \in Nat /\ an = c + r
    BY <1>2, Vectors
  <2> HIDE DEF q
  <2> QED BY <1>2, <2>1
<1> HIDE DEF q, r
<1>4. FootRoom = IF r = 0 THEN c + L ELSE c + 2 * L
  <2> DEFINE x == an + bn + L - 1
  <2>1. CASE r = 0
    <3>1. x \in Int /\ L - 1 \in 0 .. L - 1 /\ x = L * (q + 1) + (L - 1) /\ q + 1 \in Int
      BY <1>2, <1>3, <2>1
    <3>2. x \div L = q + 1
      BY <1>2, <3>1, Quotient
    <3> QED BY <1>2, <1>3, <2>1, <3>2
  <2>2. CASE r # 0
    <3>1. x \in Int /\ r - 1 \in 0 .. L - 1 /\ x = L * (q + 2) + (r - 1) /\ q + 2 \in Int
      BY <1>2, <1>3, <2>2
    <3>2. x \div L = q + 2
      BY <1>2, <3>1, Quotient
    <3>3. (q + 2) * L = c + 2 * L
      BY <1>2, <1>3
    <3> QED BY <1>2, <2>2, <3>2, <3>3
  <2> QED BY <2>1, <2>2
<1>5. CASE StreamTurn(p)
  <2>1. vi < q /\ vi' = vi + 1 /\ UNCHANGED <<prog, an, bn>> /\ \E v : rp' = Stored(rp, vi, v, L)
    BY <1>5 DEF StreamTurn, q
  <2>2. vi * L + L <= c /\ vi * L \in Nat /\ vi' \in Nat
    BY <1>1, <1>3, <2>1, BelowProduct
  <2>3. Beyond(rp', FootRoom)
    <3>1. vi * L + (IF L >= L THEN L ELSE L) <= FootRoom
      <4> HIDE DEF c
      <4> QED BY <1>2, <1>3, <1>4, <2>2
    <3> QED BY <1>1, <1>2, <2>1, <3>1, StoredBelow
  <2> QED BY <1>1, <2>1, <2>2, <2>3, FootKept
<1>6. CASE StreamEnd(p)
  <2>1. vi = q /\ vi' = vi + 1 /\ UNCHANGED <<prog, an, bn>>
    BY <1>6 DEF StreamEnd, q
  <2>2. \E v, w : rp' = IF r = 0 THEN Stored(rp, vi, v, L) ELSE Stored(Stored(rp, vi, v, L), vi + 1, w, L)
    BY <1>6 DEF StreamEnd, r
  <2>3. PICK v, w : rp' = IF r = 0 THEN Stored(rp, vi, v, L) ELSE Stored(Stored(rp, vi, v, L), vi + 1, w, L)
    BY <2>2
  <2> DEFINE first == Stored(rp, vi, v, L)
  <2>4. vi * L = c /\ (vi + 1) * L = c + L /\ vi + 1 \in Nat
    BY <1>1, <1>3, <2>1
  <2> HIDE DEF c
  <2>5. Beyond(first, FootRoom)
    <3>1. vi * L + (IF L >= L THEN L ELSE L) <= FootRoom
      BY <1>2, <1>3, <1>4, <2>4
    <3> QED BY <1>1, <1>2, <3>1, StoredBelow
  <2> HIDE DEF first
  <2>6. r # 0 => Beyond(Stored(first, vi + 1, w, L), FootRoom)
    <3> SUFFICES ASSUME r # 0 PROVE Beyond(Stored(first, vi + 1, w, L), FootRoom)
      OBVIOUS
    <3>1. (vi + 1) * L + (IF L >= L THEN L ELSE L) <= FootRoom
      BY <1>2, <1>3, <1>4, <2>4
    <3> QED BY <1>2, <2>4, <2>5, <3>1, StoredBelow
  <2>7. Beyond(rp', FootRoom) /\ vi' \in Nat
    BY <2>1, <2>3, <2>4, <2>5, <2>6 DEF first
  <2> QED BY <1>1, <2>1, <2>7, FootKept
<1> QED BY <1>5, <1>6

(* The block operations store a vector at a time, or two. *)
LEMMA BlockFoot ==
  ASSUME FootInv, AddBlock \/ SubBlock
  PROVE  FootInv'
<1>1. /\ prog \in {"addc", "subb"} /\ prog \in Products /\ vi \in Nat /\ FootShape /\ Beyond(rp, FootRoom)
      /\ vi < an /\ vi' = vi + 1 /\ UNCHANGED <<prog, an, bn>>
  BY DEF AddBlock, SubBlock, FootInv, Products
<1>2. \E v : rp' = Stored(rp, vi, v, L)
  BY DEF AddBlock, SubBlock
<1>3. L \in Nat \ {0} /\ an \in Nat /\ FootRoom \in Nat /\ FootRoom = an * L
  BY <1>1, FootSizes
<1>4. vi * L + (IF L >= L THEN L ELSE L) <= FootRoom /\ vi' \in Nat
  BY <1>1, <1>3, BelowProduct
<1>5. Beyond(rp', FootRoom)
  BY <1>1, <1>2, <1>3, <1>4, StoredBelow
<1> QED BY <1>1, <1>4, <1>5, FootKept

LEMMA PairFoot ==
  ASSUME FootInv, Estimate \/ Backmul
  PROVE  FootInv'
<1>1. /\ prog \in {"estimate", "backmul"} /\ prog \in Products /\ vi \in Nat /\ FootShape /\ Beyond(rp, FootRoom)
      /\ UNCHANGED <<prog, an, bn, vi>>
  BY DEF Estimate, Backmul, FootInv, Products
<1>2. \E v, w : rp' = Stored(Stored(rp, 0, v, L), 1, w, L)
  BY DEF Estimate, Backmul
<1>3. PICK v, w : rp' = Stored(Stored(rp, 0, v, L), 1, w, L)
  BY <1>2
<1>4. L \in Nat \ {0} /\ FootRoom \in Nat /\ FootRoom = 2 * L
  BY <1>1, FootSizes
<1>5. /\ 0 * L + (IF L >= L THEN L ELSE L) <= FootRoom
      /\ 1 * L + (IF L >= L THEN L ELSE L) <= FootRoom
      /\ 0 \in Nat /\ 1 \in Nat /\ L \in Nat
  BY <1>4
<1> DEFINE first == Stored(rp, 0, v, L)
<1>6. Beyond(first, FootRoom)
  BY <1>1, <1>4, <1>5, StoredBelow
<1> HIDE DEF first
<1>7. Beyond(Stored(first, 1, w, L), FootRoom)
  BY <1>4, <1>5, <1>6, StoredBelow
<1>8. vi' \in Nat /\ Beyond(rp', FootRoom)
  BY <1>1, <1>3, <1>7 DEF first
<1> QED BY <1>1, <1>8, FootKept

LEMMA OrderFoot == ASSUME FootInv, OrderBlocks PROVE FootInv'
<1>1. /\ prog = "order" /\ prog \in Products /\ vi \in Nat /\ FootShape /\ Beyond(rp, FootRoom)
      /\ UNCHANGED <<prog, an, bn, vi>>
  BY DEF OrderBlocks, FootInv, Products
<1>2. PICK x : rp' = [rp EXCEPT ![0] = x]
  BY DEF OrderBlocks
<1>3. FootRoom \in Nat /\ FootRoom > 0
  BY <1>1, FootSizes
<1>4. vi' \in Nat /\ Beyond(rp', FootRoom)
  BY <1>1, <1>2, <1>3 DEF Beyond
<1> QED BY <1>1, <1>4, FootKept

(* The other programs are not products and stay what they are. *)
LEMMA OtherFoot ==
  ASSUME prog \notin Products, [Next \/ AddSubNext]_vars
  PROVE  FootInv'
<1>1. CASE UNCHANGED vars
  BY <1>1 DEF vars, FootInv
<1>2. CASE AddSubNext
  BY <1>2 DEF AddSubNext, BlockVector, OneVector, MaskedTail, SingleLimb, Words, FootInv
<1>3. CASE MidTurn \/ MidEnd \/ VerticalEnd
  BY <1>3 DEF MidTurn, MidEnd, VerticalEnd, FootInv
<1>4. ~NarrowTurn /\ ~NarrowTail /\ ~NarrowFlush /\ ~WideTurn /\ ~WideEnd
  BY DEF NarrowTurn, NarrowTail, NarrowFlush, WideTurn, WideEnd, Products
<1>5. ~VecTurn /\ ~VecEnd /\ ~FastTurn /\ ~FastEnd
  BY DEF VecTurn, VecEnd, FastTurn, FastEnd, StreamTurn, StreamEnd, Products
<1>6. ~Estimate /\ ~Backmul /\ ~AddBlock /\ ~SubBlock /\ ~OrderBlocks
  BY DEF Estimate, Backmul, AddBlock, SubBlock, OrderBlocks, Products
<1> QED BY <1>1, <1>2, <1>3, <1>4, <1>5, <1>6 DEF Next

LEMMA InitFoot == ProductInputs /\ Init => FootInv
<1> SUFFICES ASSUME ProductInputs, Init, prog \in Products PROVE vi \in Nat /\ FootShape /\ Beyond(rp, FootRoom)
  BY DEF FootInv
<1>1. FootShape
  BY DEF ProductInputs, Init, FootShape
<1> QED BY <1>1 DEF Init, Beyond

LEMMA NextFoot == FootInv /\ [Next \/ AddSubNext]_vars => FootInv'
<1> SUFFICES ASSUME FootInv, [Next \/ AddSubNext]_vars, prog \in Products PROVE FootInv'
  BY OtherFoot
<1>1. CASE UNCHANGED vars
  BY <1>1 DEF vars, FootInv, FootShape, Beyond, FootRoom, Count, Limbs
<1>2. ~AddSubNext
  BY DEF AddSubNext, BlockVector, OneVector, MaskedTail, SingleLimb, Running, Products
<1>3. ~MidTurn /\ ~MidEnd /\ ~VerticalEnd
  BY DEF MidTurn, MidEnd, VerticalEnd, Products
<1>4. CASE VecTurn \/ VecEnd
  BY <1>4, StreamFoot DEF VecTurn, VecEnd
<1>5. CASE FastTurn \/ FastEnd
  BY <1>5, StreamFoot DEF FastTurn, FastEnd
<1> QED BY <1>1, <1>2, <1>3, <1>4, <1>5, NarrowFoot, WideFoot, BlockFoot, PairFoot, OrderFoot DEF Next

(* ExactFootprint: no store of a product or a block operation reaches past    *)
(* the result's last limb, or past its last vector where whole vectors are    *)
(* promised, for operands of every length.                                    *)
THEOREM FootprintKept ==
  ASSUME ProductInputs
  PROVE  ProductsSpec => []ExactFootprint
<1>1. Init => FootInv
  BY InitFoot
<1>2. FootInv /\ [Next \/ AddSubNext]_vars => FootInv'
  BY NextFoot
<1>3. FootInv => ExactFootprint
  BY DEF FootInv, ExactFootprint, Beyond, FootRoom
<1> QED BY <1>1, <1>2, <1>3, PTL DEF ProductsSpec

-----------------------------------------------------------------------------
(* mpn_add_n and mpn_sub_n *)

(* The carry into limb t, from the one below. *)
NextCarry(x, y, c) == IF prog = "add_n" THEN (x + y + c) \div Width ELSE IF x < y + c THEN 1 ELSE 0
IsCarryChain(into, t) == into = [k \in 0 .. t |-> IF k = 0 THEN bn ELSE NextCarry(ap[k - 1], bp[k - 1], into[k - 1])]

LEMMA CarryDefined ==
  ASSUME NEW t \in Nat
  PROVE  \E into : IsCarryChain(into, t) /\ Carry(t) = into[t]
<1> DEFINE T == {k \in Nat : \E into : IsCarryChain(into, k)}
<1>1. 0 \in T
  <2> DEFINE into == [k \in 0 .. 0 |-> bn]
  <2>1. IsCarryChain(into, 0)
    BY DEF IsCarryChain
  <2> QED BY <2>1
<1>2. ASSUME NEW n \in Nat, n \in T PROVE n + 1 \in T
  <2>1. PICK below : IsCarryChain(below, n)
    BY <1>2
  <2>2. /\ below[0] = bn
        /\ \A k \in 1 .. n : below[k] = NextCarry(ap[k - 1], bp[k - 1], below[k - 1])
    BY <2>1 DEF IsCarryChain
  <2> DEFINE into == [k \in 0 .. n + 1 |-> IF k = n + 1 THEN NextCarry(ap[n], bp[n], below[n]) ELSE below[k]]
  <2>3. \A k \in 0 .. n + 1 :
          into[k] = IF k = 0 THEN bn ELSE NextCarry(ap[k - 1], bp[k - 1], into[k - 1])
    BY <2>2
  <2> HIDE DEF NextCarry
  <2>4. into = [k \in 0 .. n + 1 |-> IF k = 0 THEN bn ELSE NextCarry(ap[k - 1], bp[k - 1], into[k - 1])]
    BY <2>3
  <2>5. IsCarryChain(into, n + 1)
    <3> HIDE DEF into
    <3> QED BY <2>4 DEF IsCarryChain
  <2> QED BY <2>5
<1>3. t \in T
  <2> HIDE DEF T
  <2>1. T \subseteq Nat
    BY DEF T
  <2> QED BY <1>1, <1>2, <2>1, ByInduction
<1>4. PICK into : IsCarryChain(into, t)
  BY <1>3
<1>5. Carry(t) = (CHOOSE f : IsCarryChain(f, t))[t]
  BY DEF Carry, IsCarryChain, NextCarry
<1> QED BY <1>4, <1>5

LEMMA CarriesAgree ==
  ASSUME NEW t \in Nat, NEW p, NEW q, IsCarryChain(p, t), IsCarryChain(q, t + 1)
  PROVE  q[t] = p[t]
<1> DEFINE T == {n \in Nat : n <= t => p[n] = q[n]}
<1>1. 0 \in T
  BY DEF IsCarryChain
<1>2. ASSUME NEW n \in Nat, n \in T PROVE n + 1 \in T
  BY <1>2 DEF IsCarryChain
<1>3. t \in T
  <2> HIDE DEF T
  <2>1. T \subseteq Nat
    BY DEF T
  <2> QED BY <1>1, <1>2, <2>1, ByInduction
<1> QED BY <1>3

LEMMA CarrySteps ==
  Carry(0) = bn /\ \A t \in Nat : Carry(t + 1) = NextCarry(ap[t], bp[t], Carry(t))
<1>1. Carry(0) = bn
  BY CarryDefined DEF IsCarryChain
<1>2. ASSUME NEW t \in Nat PROVE Carry(t + 1) = NextCarry(ap[t], bp[t], Carry(t))
  <2>1. PICK p : IsCarryChain(p, t) /\ Carry(t) = p[t]
    BY CarryDefined
  <2>2. PICK q : IsCarryChain(q, t + 1) /\ Carry(t + 1) = q[t + 1]
    BY CarryDefined
  <2>3. q[t + 1] = NextCarry(ap[t], bp[t], q[t])
    BY <2>2 DEF IsCarryChain
  <2> QED BY <2>1, <2>2, <2>3, CarriesAgree
<1> QED BY <1>1, <1>2

LEMMA CarryKept ==
  ASSUME UNCHANGED <<prog, bn, ap, bp>>
  PROVE  \A t : Carry(t)' = Carry(t)
BY DEF Carry

LEMMA CarryReached ==
  ASSUME UNCHANGED <<prog, bn, ap, bp>>, NEW t, vi' = t
  PROVE  Carry(vi)' = Carry(t)
BY DEF Carry

LEMMA FullWord == Width \in Nat /\ Width >= 4 /\ MAX = Width - 1
BY Parameters DEF MAX

(* A number that is a word, or off by one wrap. *)
LEMMA WordNear ==
  ASSUME NEW x \in Int, NEW r, IsWord(r), x = r \/ x = r + Width \/ x = r - Width
  PROVE  Word(x) = r
<1>1. r \in Int /\ Width \in Int
  BY FullWord DEF IsWord
<1>2. CASE x = r
  <2>1. x = Width * 0 + r
    BY <1>1, <1>2
  <2> QED BY <2>1, WordIs
<1>3. CASE x = r + Width
  <2>1. x = Width * 1 + r
    BY <1>1, <1>3
  <2> QED BY <2>1, WordIs
<1>4. CASE x = r - Width
  <2>1. x = Width * (-1) + r /\ -1 \in Int
    BY <1>1, <1>4
  <2> QED BY <2>1, WordIs
<1> QED BY <1>2, <1>3, <1>4

(* A sum of two words: what its wrapping shows. *)
LEMMA WordAdds ==
  ASSUME NEW x, IsWord(x), NEW y, IsWord(y), NEW c \in {0, 1}
  PROVE  /\ Word(x + y) < x <=> x + y >= Width
         /\ Word(x + y) = MAX <=> x + y = Width - 1
         /\ (x + y + c) \div Width = IF x + y + c >= Width THEN 1 ELSE 0
         /\ Word(Word(x + y) - MAX) = Word(x + y + 1)
<1> DEFINE w == Width  s == Word(x + y)
<1>1. w \in Nat /\ w >= 4 /\ MAX = w - 1 /\ x \in 0 .. w - 1 /\ y \in 0 .. w - 1 /\ Width = w
  BY FullWord DEF IsWord
<1> HIDE DEF w
<1>2. s = IF x + y < w THEN x + y ELSE x + y - w
  <2>1. CASE x + y < w
    <3> DEFINE r == x + y  z == x + y
    <3>1. IsWord(r) /\ z \in Int /\ z = r
      BY <1>1, <2>1 DEF IsWord
    <3>2. Word(z) = r
      <4> HIDE DEF r, z
      <4> QED BY <3>1, WordNear
    <3> QED BY <1>1, <2>1, <3>2
  <2>2. CASE x + y >= w
    <3> DEFINE r == x + y - w  z == x + y
    <3>1. IsWord(r) /\ z \in Int /\ z = r + Width
      BY <1>1, <2>2 DEF IsWord
    <3>2. Word(z) = r
      <4> HIDE DEF r, z
      <4> QED BY <3>1, WordNear
    <3> QED BY <1>1, <2>2, <3>2
  <2> QED BY <1>1, <2>1, <2>2
<1>3. (x + y + c) \div w = IF x + y + c >= w THEN 1 ELSE 0
  <2>1. CASE x + y + c >= w
    <3> DEFINE r == x + y + c - w
    <3>1. r \in 0 .. w - 1 /\ x + y + c = w * 1 + r /\ x + y + c \in Int
      BY <1>1, <2>1
    <3> QED BY <1>1, <2>1, <3>1, Quotient
  <2>2. CASE x + y + c < w
    <3> DEFINE r == x + y + c
    <3>1. r \in 0 .. w - 1 /\ x + y + c = w * 0 + r /\ x + y + c \in Int
      BY <1>1, <2>2
    <3> QED BY <1>1, <2>2, <3>1, Quotient
  <2> QED BY <1>1, <2>1, <2>2
<1> HIDE DEF s
<1>4. Word(s - MAX) = Word(x + y + 1)
  <2> DEFINE r == Word(s - MAX)
  <2>1. s - MAX \in Int
    BY <1>1, <1>2
  <2>2. PICK q \in Int : s - MAX = Width * q + r
    BY <2>1, WordOf
  <2>3. IsWord(r)
    BY <2>1, WordOf
  <2> HIDE DEF r
  <2>4. x + y + 1 = Width * (q + 1) + r \/ x + y + 1 = Width * (q + 2) + r
    <3>1. Width * (q + 1) = Width * q + w /\ Width * (q + 2) = Width * q + 2 * w /\ Width * q \in Int
      BY <1>1
    <3> DEFINE z == Width * q
    <3>2. r \in Int
      BY <1>1, <2>3 DEF IsWord
    <3> HIDE DEF z
    <3> QED BY <1>1, <1>2, <2>2, <3>1, <3>2 DEF z
  <2>5. x + y + 1 \in Int /\ q + 1 \in Int /\ q + 2 \in Int
    BY <1>1
  <2>6. Word(x + y + 1) = r
    BY <2>3, <2>4, <2>5, WordIs
  <2> QED BY <2>6 DEF r
<1> QED BY <1>1, <1>2, <1>3, <1>4 DEF s

(* A difference of two words. *)
LEMMA WordSubtracts ==
  ASSUME NEW x, IsWord(x), NEW y, IsWord(y)
  PROVE  /\ Word(x - y) > x <=> x < y
         /\ Word(x - y) = 0 <=> x = y
         /\ Word(Word(x - y) + MAX) = Word(x - y - 1)
<1> DEFINE w == Width  s == Word(x - y)
<1>1. w \in Nat /\ w >= 4 /\ MAX = w - 1 /\ x \in 0 .. w - 1 /\ y \in 0 .. w - 1 /\ Width = w
  BY FullWord DEF IsWord
<1> HIDE DEF w
<1>2. s = IF x >= y THEN x - y ELSE x - y + w
  <2>1. CASE x >= y
    <3> DEFINE r == x - y  z == x - y
    <3>1. IsWord(r) /\ z \in Int /\ z = r
      BY <1>1, <2>1 DEF IsWord
    <3>2. Word(z) = r
      <4> HIDE DEF r, z
      <4> QED BY <3>1, WordNear
    <3> QED BY <1>1, <2>1, <3>2
  <2>2. CASE x < y
    <3> DEFINE r == x - y + w  z == x - y
    <3>1. IsWord(r) /\ z \in Int /\ z = r - Width
      BY <1>1, <2>2 DEF IsWord
    <3>2. Word(z) = r
      <4> HIDE DEF r, z
      <4> QED BY <3>1, WordNear
    <3> QED BY <1>1, <2>2, <3>2
  <2> QED BY <1>1, <2>1, <2>2
<1> HIDE DEF s
<1>3. Word(s + MAX) = Word(x - y - 1)
  <2> DEFINE r == Word(s + MAX)
  <2>1. s + MAX \in Int
    BY <1>1, <1>2
  <2>2. PICK q \in Int : s + MAX = Width * q + r
    BY <2>1, WordOf
  <2>3. IsWord(r)
    BY <2>1, WordOf
  <2> HIDE DEF r
  <2>4. x - y - 1 = Width * (q - 1) + r \/ x - y - 1 = Width * (q - 2) + r
    <3>1. Width * (q - 1) = Width * q - w /\ Width * (q - 2) = Width * q - 2 * w /\ Width * q \in Int
      BY <1>1
    <3> DEFINE z == Width * q
    <3>2. r \in Int
      BY <1>1, <2>3 DEF IsWord
    <3> HIDE DEF z
    <3> QED BY <1>1, <1>2, <2>2, <3>1, <3>2 DEF z
  <2>5. x - y - 1 \in Int /\ q - 1 \in Int /\ q - 2 \in Int
    BY <1>1
  <2>6. Word(x - y - 1) = r
    BY <2>3, <2>4, <2>5, WordIs
  <2> QED BY <2>6 DEF r
<1> QED BY <1>1, <1>2, <1>3 DEF s

(* The ripple over the lowest `count` lanes. *)
LEMMA RippleWordsRight ==
  ASSUME NEW count \in 0 .. L, NEW gen, NEW prop, gen \cap prop = {},
         gen \subseteq FirstLanes(count), prop \subseteq FirstLanes(count),
         chain.cin \in {0, 1}, NEW c, BitCarries(c, gen, prop, chain.cin, count)
  PROVE  /\ RippleWords(gen, prop, count).out = c[count]
         /\ \A l \in 0 .. count - 1 : l \in RippleWords(gen, prop, count).into <=> c[l] = 1
<1> DEFINE p == [l \in Lane |-> IF l \in prop THEN 1 ELSE 0]
           g == [l \in Lane |-> IF l \in gen THEN 1 ELSE 0]
           s == [l \in Lane |-> p[l] + 2 * g[l]]
           b == [l \in Lane |-> IF (l \in prop) # (c[l] = 1) THEN 1 ELSE 0]
           x == chain.cin + 2 * MaskInt(gen) + MaskInt(prop)
           two == 2
<1> HIDE DEF p, g, s, b, x, two
<1>1. /\ L \in Nat /\ L > 0 /\ Lane = 0 .. L - 1 /\ two \in Nat /\ two > 0
      /\ count \in Nat /\ count <= L /\ FirstLanes(count) = 0 .. count - 1
  BY LanesAssumption DEF Lane, two, FirstLanes
<1>2. /\ \A l \in 0 .. count : c[l] \in {0, 1}
      /\ c[0] = chain.cin
      /\ \A l \in 0 .. count - 1 : CarryStep(c, gen, prop, l)
  BY DEF BitCarries
<1>3. \A l \in 0 .. L - 1 : /\ p[l] \in Int /\ g[l] \in Int /\ s[l] \in Int /\ b[l] \in 0 .. two - 1
                            /\ b[l] \in Int /\ s[l] = p[l] + two * g[l]
  BY <1>1 DEF p, g, s, b, two
<1>4. \A l \in 0 .. count - 1 : b[l] + two * c[l + 1] = s[l] + c[l]
  BY SMTT(60), <1>1, <1>2 DEF p, g, s, b, two, CarryStep
<1>5. count \in 0 .. count /\ \A l \in 0 .. count : c[l] \in Int
  BY <1>1, <1>2
<1>6. MaskInt(prop) = Number(p, L, two) /\ MaskInt(gen) = Number(g, L, two)
  BY DEF MaskInt, p, g, two
<1>7. \A l \in 0 .. count - 1 : b[l] = 1 <=> ((l \in prop) # (c[l] = 1))
  BY <1>1 DEF b
<1>8. Number(b, count, two) + Power(two, count) * c[count] = Number(s, count, two) + c[0]
  <2>1. \A l \in 0 .. count - 1 : b[l] \in Int /\ s[l] \in Int
    BY <1>1, <1>3
  <2>2. Exchanges(b, s, c, two, count)
    BY <1>4, <1>5, <2>1 DEF Exchanges
  <2> QED BY <1>1, <2>2, Telescope
<1>9. Number(s, count, two) = Number(p, count, two) + two * Number(g, count, two)
  <2>1. \A l \in 0 .. count - 1 : p[l] \in Int /\ g[l] \in Int /\ s[l] = p[l] + two * g[l]
    BY <1>1, <1>3
  <2>2. two \in Nat /\ two > 0 /\ two \in Int /\ count \in Nat
    BY <1>1
  <2> QED BY SMTT(40), <2>1, <2>2, NumberLinear
<1>10. Number(p, L, two) = Number(p, count, two) /\ Number(g, L, two) = Number(g, count, two)
  <2>1. \A l \in 0 .. L - 1 : p[l] \in Int /\ g[l] \in Int
    BY <1>3
  <2>2. \A l \in count .. L - 1 : p[l] = 0 /\ g[l] = 0
    BY <1>1 DEF p, g
  <2>3. count \in 0 .. L
    BY <1>1
  <2> QED BY <1>1, <2>1, <2>2, <2>3, NumberPadded
<1>11. x = Number(b, count, two) + Power(two, count) * c[count]
  <2> DEFINE y == Number(p, count, two)  z == Number(g, count, two)  n == Number(s, count, two)
             e == Number(b, count, two) + Power(two, count) * c[count]
  <2>1. y \in Int /\ z \in Int
    <3>1. \A l \in 0 .. count - 1 : p[l] \in Int /\ g[l] \in Int
      BY <1>1, <1>3
    <3> QED BY <1>1, <1>5, <3>1, NumberSteps
  <2>2. x = c[0] + two * z + y
    BY <1>2, <1>6, <1>10 DEF x, two
  <2>3. e = n + c[0] /\ n = y + two * z
    BY <1>8, <1>9
  <2> HIDE DEF y, z, n, e
  <2>4. x = e
    BY <1>1, <1>5, <2>1, <2>2, <2>3 DEF two
  <2> QED BY <2>4 DEF e
<1>12. c[count] \in Int /\ \A l \in 0 .. count - 1 : b[l] \in 0 .. two - 1
  BY <1>1, <1>3, <1>5
<1>13. x \div Power(two, count) = c[count] /\ \A l \in 0 .. count - 1 : (x \div Power(two, l)) % two = b[l]
  BY SMTT(40), <1>1, <1>11, <1>12, DigitOf
<1>14. /\ RippleWords(gen, prop, count).out = x \div Power(two, count)
       /\ RippleWords(gen, prop, count).into = {l \in Lane : (l \in prop) # ((x \div Power(two, l)) % two = 1)}
  BY DEF RippleWords, Bit, x, two
<1>15. ASSUME NEW l \in 0 .. count - 1 PROVE l \in RippleWords(gen, prop, count).into <=> c[l] = 1
  <2>1. l \in Lane
    BY <1>1
  <2>2. l \in RippleWords(gen, prop, count).into <=> ((l \in prop) # ((x \div Power(two, l)) % two = 1))
    BY <1>14, <2>1
  <2>3. (x \div Power(two, l)) % two = b[l]
    BY <1>13
  <2> QED BY <1>7, <2>2, <2>3
<1> QED BY <1>13, <1>14, <1>15

(* Two vectors of words, all lanes from `count` on zero, and the carries into *)
(* their lanes.                                                               *)
WordOperands(u, v, count) ==
  /\ \A l \in Lane : IsWord(u[l]) /\ IsWord(v[l])
  /\ \A l \in Lane : l >= count => u[l] = 0 /\ v[l] = 0
CarriesOf(c, u, v, count) ==
  /\ c[0] = chain.cin /\ \A l \in 0 .. count : c[l] \in {0, 1}
  /\ \A l \in 0 .. count - 1 : c[l + 1] = NextCarry(u[l], v[l], c[l])
LimbResult(x, y, c) == Word(IF prog = "add_n" THEN x + y + c ELSE x - y - c)
StepRight(s, u, v, c, count) ==
  /\ s.out = c[count]
  /\ \A l \in 0 .. count - 1 : s.vec[l] = LimbResult(u[l], v[l], c[l])

LEMMA AddVector ==
  ASSUME prog = "add_n", NEW count \in 0 .. L, NEW u, NEW v, WordOperands(u, v, count),
         NEW c, CarriesOf(c, u, v, count)
  PROVE  StepRight(AddStep(u, v, count), u, v, c, count)
<1> DEFINE s == Plus(u, v)
           gen == {l \in Lane : s[l] < u[l]}
           prop == Equal(s, MAX)
           ripple == RippleWords(gen, prop, count)
<1>1. /\ L \in Nat /\ L > 0 /\ Lane = 0 .. L - 1 /\ count \in Nat /\ count <= L
      /\ FirstLanes(count) = 0 .. count - 1 /\ Width \in Nat /\ Width >= 4 /\ MAX = Width - 1
  BY Parameters, FullWord DEF FirstLanes
<1>2. \A l \in Lane : s[l] = Word(u[l] + v[l])
  BY DEF Plus
<1>3. /\ \A l \in Lane : l \in gen <=> u[l] + v[l] >= Width
      /\ \A l \in Lane : l \in prop <=> u[l] + v[l] = Width - 1
  <2> SUFFICES ASSUME NEW l \in Lane
               PROVE (l \in gen <=> u[l] + v[l] >= Width) /\ (l \in prop <=> u[l] + v[l] = Width - 1)
    OBVIOUS
  <2>1. IsWord(u[l]) /\ IsWord(v[l])
    BY DEF WordOperands
  <2>2. (Word(u[l] + v[l]) < u[l] <=> u[l] + v[l] >= Width) /\ (Word(u[l] + v[l]) = MAX <=> u[l] + v[l] = Width - 1)
    BY <2>1, WordAdds
  <2> QED BY <1>2, <2>2 DEF Equal
<1>4. gen \subseteq Lane /\ prop \subseteq Lane
  BY DEF Equal
<1> HIDE DEF s, gen, prop
<1>5. gen \cap prop = {} /\ gen \subseteq FirstLanes(count) /\ prop \subseteq FirstLanes(count)
  <2>1. \A l \in Lane : u[l] \in Int /\ v[l] \in Int
    BY DEF WordOperands, IsWord
  <2>2. \A l \in Lane : l >= count => u[l] + v[l] = 0
    BY DEF WordOperands
  <2> QED BY <1>1, <1>3, <1>4, <2>1, <2>2
<1>6. BitCarries(c, gen, prop, chain.cin, count)
  <2>1. c[0] = chain.cin /\ \A l \in 0 .. count : c[l] \in {0, 1}
    BY DEF CarriesOf
  <2>2. ASSUME NEW l \in 0 .. count - 1 PROVE CarryStep(c, gen, prop, l)
    <3>1. l \in Lane /\ c[l] \in {0, 1} /\ c[l + 1] = (u[l] + v[l] + c[l]) \div Width
      BY <1>1, <2>1 DEF CarriesOf, NextCarry
    <3>2. IsWord(u[l]) /\ IsWord(v[l])
      BY <3>1 DEF WordOperands
    <3>3. c[l + 1] = IF u[l] + v[l] + c[l] >= Width THEN 1 ELSE 0
      BY <3>1, <3>2, WordAdds
    <3>4. u[l] \in Int /\ v[l] \in Int
      BY <3>2 DEF IsWord
    <3> QED BY <1>1, <1>3, <3>1, <3>3, <3>4 DEF CarryStep
  <2> QED BY <2>1, <2>2 DEF BitCarries
<1>7. chain.cin \in {0, 1}
  BY <1>1 DEF CarriesOf
<1>8. ripple.out = c[count] /\ \A l \in 0 .. count - 1 : l \in ripple.into <=> c[l] = 1
  BY <1>5, <1>6, <1>7, RippleWordsRight
<1>9. AddStep(u, v, count) = [vec |-> [l \in Lane |-> IF l \in ripple.into THEN Word(s[l] - MAX) ELSE s[l]],
                              out |-> ripple.out]
  BY DEF AddStep, s, gen, prop
<1> HIDE DEF ripple
<1>10. ASSUME NEW l \in 0 .. count - 1 PROVE AddStep(u, v, count).vec[l] = LimbResult(u[l], v[l], c[l])
  <2>1. l \in Lane /\ c[l] \in {0, 1}
    BY <1>1 DEF CarriesOf
  <2>2. IsWord(u[l]) /\ IsWord(v[l])
    BY <2>1 DEF WordOperands
  <2>3. u[l] \in Int /\ v[l] \in Int
    BY <2>2 DEF IsWord
  <2>4. AddStep(u, v, count).vec[l] = IF c[l] = 1 THEN Word(s[l] - MAX) ELSE s[l]
    BY <1>8, <1>9, <2>1
  <2>5. CASE c[l] = 1
    BY <1>2, <2>1, <2>2, <2>4, <2>5, WordAdds DEF LimbResult
  <2>6. CASE c[l] = 0
    <3>1. u[l] + v[l] + 0 = u[l] + v[l]
      BY <2>3
    <3> QED BY <1>2, <2>1, <2>4, <2>6, <3>1 DEF LimbResult
  <2> QED BY <2>1, <2>5, <2>6
<1> QED BY <1>8, <1>9, <1>10 DEF StepRight

LEMMA SubVector ==
  ASSUME prog = "sub_n", NEW count \in 0 .. L, NEW u, NEW v, WordOperands(u, v, count),
         NEW c, CarriesOf(c, u, v, count)
  PROVE  StepRight(SubStep(u, v, count), u, v, c, count)
<1> DEFINE s == [l \in Lane |-> Word(u[l] - v[l])]
           gen == {l \in Lane : s[l] > u[l]} \cap Active(count)
           prop == Equal(s, 0) \cap Active(count)
           ripple == RippleWords(gen, prop, count)
<1>1. /\ L \in Nat /\ L > 0 /\ Lane = 0 .. L - 1 /\ count \in Nat /\ count <= L
      /\ FirstLanes(count) = 0 .. count - 1 /\ Active(count) = 0 .. count - 1 /\ Width \in Nat /\ MAX = Width - 1
  BY Parameters, FullWord DEF FirstLanes, Active
<1>2. \A l \in Lane : s[l] = Word(u[l] - v[l])
  OBVIOUS
<1>3. /\ \A l \in 0 .. count - 1 : l \in gen <=> u[l] < v[l]
      /\ \A l \in 0 .. count - 1 : l \in prop <=> u[l] = v[l]
  <2> SUFFICES ASSUME NEW l \in 0 .. count - 1
               PROVE (l \in gen <=> u[l] < v[l]) /\ (l \in prop <=> u[l] = v[l])
    OBVIOUS
  <2>1. l \in Lane
    BY <1>1
  <2>2. IsWord(u[l]) /\ IsWord(v[l])
    BY <2>1 DEF WordOperands
  <2>3. (Word(u[l] - v[l]) > u[l] <=> u[l] < v[l]) /\ (Word(u[l] - v[l]) = 0 <=> u[l] = v[l])
    BY <2>2, WordSubtracts
  <2> QED BY <1>1, <1>2, <2>1, <2>3 DEF Equal
<1>4. gen \subseteq FirstLanes(count) /\ prop \subseteq FirstLanes(count)
  BY <1>1
<1> HIDE DEF s, gen, prop
<1>5. gen \cap prop = {}
  <2>1. \A l \in 0 .. count - 1 : u[l] \in Int /\ v[l] \in Int
    BY <1>1 DEF WordOperands, IsWord
  <2> QED BY <1>1, <1>3, <1>4, <2>1
<1>6. BitCarries(c, gen, prop, chain.cin, count)
  <2>1. c[0] = chain.cin /\ \A l \in 0 .. count : c[l] \in {0, 1}
    BY DEF CarriesOf
  <2>2. ASSUME NEW l \in 0 .. count - 1 PROVE CarryStep(c, gen, prop, l)
    <3>1. l \in Lane /\ c[l] \in {0, 1} /\ c[l + 1] = IF u[l] < v[l] + c[l] THEN 1 ELSE 0
      BY <1>1, <2>1 DEF CarriesOf, NextCarry
    <3>2. u[l] \in Int /\ v[l] \in Int
      BY <3>1 DEF WordOperands, IsWord
    <3> QED BY <1>1, <1>3, <3>1, <3>2 DEF CarryStep
  <2> QED BY <2>1, <2>2 DEF BitCarries
<1>7. chain.cin \in {0, 1}
  BY <1>1 DEF CarriesOf
<1>8. ripple.out = c[count] /\ \A l \in 0 .. count - 1 : l \in ripple.into <=> c[l] = 1
  BY <1>4, <1>5, <1>6, <1>7, RippleWordsRight
<1>9. SubStep(u, v, count) = [vec |-> [l \in Lane |-> IF l \in ripple.into THEN Word(s[l] + MAX) ELSE s[l]],
                              out |-> ripple.out]
  BY DEF SubStep, s, gen, prop
<1> HIDE DEF ripple
<1>10. ASSUME NEW l \in 0 .. count - 1 PROVE SubStep(u, v, count).vec[l] = LimbResult(u[l], v[l], c[l])
  <2>1. l \in Lane /\ c[l] \in {0, 1}
    BY <1>1 DEF CarriesOf
  <2>2. IsWord(u[l]) /\ IsWord(v[l])
    BY <2>1 DEF WordOperands
  <2>3. u[l] \in Int /\ v[l] \in Int
    BY <2>2 DEF IsWord
  <2>4. SubStep(u, v, count).vec[l] = IF c[l] = 1 THEN Word(s[l] + MAX) ELSE s[l]
    BY <1>8, <1>9, <2>1
  <2>5. CASE c[l] = 1
    BY <1>2, <2>1, <2>2, <2>4, <2>5, WordSubtracts DEF LimbResult
  <2>6. CASE c[l] = 0
    <3>1. u[l] - v[l] - 0 = u[l] - v[l]
      BY <2>3
    <3> QED BY <1>2, <2>1, <2>4, <2>6, <3>1 DEF LimbResult
  <2> QED BY <2>1, <2>5, <2>6
<1>11. SubStep(u, v, count).out = c[count]
  BY <1>8, <1>9
<1> QED BY <1>10, <1>11 DEF StepRight

-----------------------------------------------------------------------------
(* A call: the words below vi are those of the sum or the difference, and     *)
(* while blocks are left the vectors after the first blocks are whole.        *)

Short == an % (2 * L)
WholeBlocks == \E k \in Nat : left = Short + L * k

AddShape ==
  /\ an \in 1 .. Room /\ bn \in {0, 1} /\ DOMAIN rp = Limbs
  /\ \A j \in Limbs : IsWord(ap[j]) /\ IsWord(bp[j])
  /\ vi \in 0 .. an /\ done = (vi = an)
  /\ left <= Short \/ WholeBlocks
AddInv == prog \in {"add_n", "sub_n"} => AddShape /\ CarryRight

LEMMA AddSizes ==
  ASSUME AddShape
  PROVE  /\ an \in Nat /\ Room \in Nat /\ an <= Room /\ vi \in Nat /\ left \in Nat /\ left = an - vi
         /\ L \in Nat \ {0} /\ Short \in Nat /\ Limbs = 0 .. Room - 1
<1>1. L \in Nat \ {0} /\ Room \in Nat /\ Limbs = 0 .. Room - 1
  BY Parameters, RoomAssumption DEF Limbs
<1>2. an \in Nat /\ an <= Room /\ vi \in Nat /\ left \in Nat /\ left = an - vi
  BY <1>1 DEF AddShape, left
<1>3. Short \in Nat
  BY <1>1, <1>2 DEF Short
<1> QED BY <1>1, <1>2, <1>3

LEMMA CarryIsBit ==
  ASSUME prog \in {"add_n", "sub_n"}, AddShape
  PROVE  \A t \in 0 .. an : Carry(t) \in {0, 1}
<1>1. an \in Nat /\ Room \in Nat /\ an <= Room /\ Limbs = 0 .. Room - 1 /\ bn \in {0, 1}
  BY AddSizes DEF AddShape
<1> DEFINE T == {t \in Nat : t <= an => Carry(t) \in {0, 1}}
<1>2. 0 \in T
  BY <1>1, CarrySteps
<1>3. ASSUME NEW t \in Nat, t \in T PROVE t + 1 \in T
  <2> SUFFICES ASSUME t + 1 <= an PROVE Carry(t + 1) \in {0, 1}
    OBVIOUS
  <2>1. Carry(t) \in {0, 1} /\ t \in Limbs
    BY <1>1, <1>3
  <2>2. IsWord(ap[t]) /\ IsWord(bp[t])
    BY <2>1 DEF AddShape
  <2>3. Carry(t + 1) = NextCarry(ap[t], bp[t], Carry(t))
    BY CarrySteps
  <2>4. (ap[t] + bp[t] + Carry(t)) \div Width \in {0, 1}
    BY <2>1, <2>2, WordAdds
  <2> QED BY <2>3, <2>4 DEF NextCarry
<1>4. \A t \in Nat : t \in T
  <2> HIDE DEF T
  <2>1. T \subseteq Nat
    BY DEF T
  <2> QED BY <1>2, <1>3, <2>1, ByInduction
<1> QED BY <1>1, <1>4

(* What a step has to establish. *)
Wrote(count) ==
  /\ UNCHANGED <<prog, an, bn, ap, bp>> /\ vi' = vi + count /\ done' = (vi + count = an)
  /\ chain'.cin = Carry(vi + count) /\ DOMAIN rp' = Limbs
  /\ \A j \in Limbs : rp'[j] = IF vi <= j /\ j < vi + count THEN LimbResult(ap[j], bp[j], Carry(j)) ELSE rp[j]

LEMMA AfterWrite ==
  ASSUME prog \in {"add_n", "sub_n"}, AddShape, CarryRight, NEW count \in Nat, count > 0, count <= left,
         Wrote(count), left' <= Short' \/ WholeBlocks'
  PROVE  AddInv'
<1>1. /\ an \in Nat /\ vi \in Nat /\ left \in Nat /\ left = an - vi /\ Room \in Nat /\ Limbs = 0 .. Room - 1
  BY AddSizes
<1>2. AddShape'
  <2>1. an' = an /\ bn' = bn /\ Limbs' = Limbs /\ ap' = ap /\ bp' = bp /\ vi' = vi + count
    BY DEF Wrote, Limbs
  <2>2. vi' \in 0 .. an' /\ done' = (vi' = an') /\ DOMAIN rp' = Limbs'
    BY <1>1, <2>1 DEF Wrote
  <2>3. an' \in 1 .. Room /\ bn' \in {0, 1} /\ \A j \in Limbs' : IsWord(ap'[j]) /\ IsWord(bp'[j])
    BY <2>1 DEF AddShape
  <2> QED BY <2>2, <2>3 DEF AddShape, IsWord
<1>3. \A t : Carry(t)' = Carry(t)
  BY CarryKept DEF Wrote
<1>4. CarryRight'
  <2>1. prog' = prog /\ an' = an /\ vi' = vi + count /\ chain'.cin = Carry(vi + count) /\ ap' = ap /\ bp' = bp
    BY DEF Wrote
  <2>2. vi' <= an'
    BY <1>1, <2>1
  <2>3. chain'.cin = Carry(vi)'
    <3>2. PICK t : vi + count = t
      OBVIOUS
    <3>3. vi' = t /\ UNCHANGED <<prog, bn, ap, bp>>
      BY <2>1, <3>2 DEF Wrote
    <3>1. Carry(vi)' = Carry(vi + count)
      BY <3>2, <3>3, CarryReached
    <3> QED BY <2>1, <3>1
  <2>4. ASSUME NEW j \in Limbs
        PROVE  rp'[j] = IF j >= vi' THEN Untouched ELSE LimbResult(ap[j], bp[j], Carry(j))
    <3>1. rp[j] = IF j >= vi THEN Untouched ELSE LimbResult(ap[j], bp[j], Carry(j))
      BY DEF CarryRight, LimbResult
    <3>2. rp'[j] = IF vi <= j /\ j < vi + count THEN LimbResult(ap[j], bp[j], Carry(j)) ELSE rp[j]
      BY DEF Wrote
    <3> QED BY <1>1, <2>1, <3>1, <3>2
  <2>5. \A j \in Limbs : LimbResult(ap[j], bp[j], Carry(j))
           = Word(IF prog' = "add_n" THEN ap'[j] + bp'[j] + Carry(j)' ELSE ap'[j] - bp'[j] - Carry(j)')
    BY <1>3, <2>1 DEF LimbResult
  <2> QED BY <2>1, <2>2, <2>3, <2>4, <2>5 DEF CarryRight, Limbs, Untouched, Word
<1> QED BY <1>2, <1>4 DEF AddInv

(* `count` lanes at once, .. *)
LEMMA WordsWritten ==
  ASSUME prog \in {"add_n", "sub_n"}, AddShape, CarryRight, NEW count \in 1 .. L, count <= left, Words(count)
  PROVE  Wrote(count)
<1> DEFINE u == Masked(At(ap, vi), FirstLanes(count))  v == Masked(At(bp, vi), FirstLanes(count))
           c == [l \in 0 .. count |-> Carry(vi + l)]
           s == Step(u, v, count)
<1>1. /\ an \in Nat /\ vi \in Nat /\ left = an - vi /\ Room \in Nat /\ an <= Room /\ Limbs = 0 .. Room - 1
      /\ L \in Nat /\ Lane = 0 .. L - 1 /\ FirstLanes(count) = 0 .. count - 1
      /\ count \in Nat /\ vi + count <= an
  BY AddSizes, Parameters DEF FirstLanes
<1>2. \A l \in Lane : /\ u[l] = IF l < count THEN ap[vi + l] ELSE 0
                      /\ v[l] = IF l < count THEN bp[vi + l] ELSE 0
  BY <1>1 DEF Masked, At
<1> HIDE DEF u, v
<1>3. WordOperands(u, v, count)
  <2>1. \A j \in Limbs : IsWord(ap[j]) /\ IsWord(bp[j])
    BY DEF AddShape
  <2>2. IsWord(0)
    BY FullWord DEF IsWord
  <2>3. ASSUME NEW l \in Lane PROVE IsWord(u[l]) /\ IsWord(v[l])
    <3>1. l < count => vi + l \in Limbs
      BY <1>1
    <3> QED BY <1>2, <2>1, <2>2, <3>1
  <2> QED BY <1>1, <1>2, <2>3 DEF WordOperands
<1>4. CarriesOf(c, u, v, count)
  <2>1. c[0] = chain.cin
    BY <1>1 DEF CarryRight
  <2>2. ASSUME NEW l \in 0 .. count PROVE c[l] \in {0, 1}
    <3>1. vi + l \in 0 .. an
      BY <1>1
    <3> QED BY <3>1, CarryIsBit
  <2>3. ASSUME NEW l \in 0 .. count - 1 PROVE c[l + 1] = NextCarry(u[l], v[l], c[l])
    <3>1. vi + l \in Nat /\ vi + (l + 1) = (vi + l) + 1 /\ l \in Lane /\ l + 1 \in 0 .. count /\ l \in 0 .. count
      BY <1>1
    <3>2. Carry((vi + l) + 1) = NextCarry(ap[vi + l], bp[vi + l], Carry(vi + l))
      BY <3>1, CarrySteps
    <3>3. u[l] = ap[vi + l] /\ v[l] = bp[vi + l]
      BY <1>2, <3>1
    <3> QED BY <3>1, <3>2, <3>3
  <2> QED BY <2>1, <2>2, <2>3 DEF CarriesOf
<1>5. StepRight(s, u, v, c, count)
  <2>1. count \in 0 .. L
    BY <1>1
  <2>2. CASE prog = "add_n"
    BY <1>3, <1>4, <2>1, <2>2, AddVector DEF Step
  <2>3. CASE prog = "sub_n"
    BY <1>3, <1>4, <2>1, <2>3, SubVector DEF Step
  <2> QED BY <2>2, <2>3
<1>6. /\ rp' = [j \in Limbs |-> IF vi <= j /\ j < vi + count THEN s.vec[j - vi] ELSE rp[j]]
      /\ chain' = [NoCarry EXCEPT !.cin = s.out]
      /\ vi' = vi + count /\ done' = (vi + count = an) /\ UNCHANGED <<prog, an, bn, ap, bp>>
  BY DEF Words, u, v
<1> HIDE DEF s
<1>7. chain'.cin = Carry(vi + count)
  <2>1. chain'.cin = s.out
    BY <1>6 DEF NoCarry
  <2>2. s.out = c[count] /\ count \in 0 .. count
    BY <1>1, <1>5 DEF StepRight
  <2> QED BY <2>1, <2>2
<1>8. ASSUME NEW j \in Limbs, vi <= j, j < vi + count
      PROVE  s.vec[j - vi] = LimbResult(ap[j], bp[j], Carry(j))
  <2> DEFINE l == j - vi
  <2>1. l \in 0 .. count - 1 /\ l \in Lane /\ l \in 0 .. count /\ vi + l = j /\ l < count
    BY <1>1, <1>8
  <2> HIDE DEF l
  <2>2. s.vec[l] = LimbResult(u[l], v[l], c[l])
    BY <1>5, <2>1 DEF StepRight
  <2>3. u[l] = ap[j] /\ v[l] = bp[j] /\ c[l] = Carry(j)
    BY <1>2, <2>1
  <2> QED BY <2>2, <2>3 DEF l
<1> QED BY <1>6, <1>7, <1>8 DEF Wrote

(* .. and a limb by itself. *)
LEMMA LimbWritten ==
  ASSUME prog \in {"add_n", "sub_n"}, AddShape, CarryRight, left > 0, SingleLimb
  PROVE  Wrote(1)
<1>1. /\ an \in Nat /\ vi \in Nat /\ left = an - vi /\ Room \in Nat /\ an <= Room /\ Limbs = 0 .. Room - 1
      /\ vi \in Limbs /\ vi < an
  BY AddSizes
<1> DEFINE s == Adc(ap[vi], bp[vi])
<1>2. /\ rp' = [rp EXCEPT ![vi] = s.word] /\ chain' = [NoCarry EXCEPT !.cin = s.out]
      /\ vi' = vi + 1 /\ done' = (left = 1) /\ UNCHANGED <<prog, an, bn, ap, bp>>
  BY DEF SingleLimb
<1>3. chain.cin = Carry(vi)
  BY DEF CarryRight
<1>4. s.word = LimbResult(ap[vi], bp[vi], Carry(vi)) /\ s.out = NextCarry(ap[vi], bp[vi], Carry(vi))
  BY <1>3 DEF Adc, LimbResult, NextCarry
<1> HIDE DEF s
<1>5. chain'.cin = Carry(vi + 1)
  <2>1. chain'.cin = s.out
    BY <1>2 DEF NoCarry
  <2> QED BY <1>1, <1>4, <2>1, CarrySteps
<1>6. DOMAIN rp = Limbs
  BY DEF AddShape
<1>7. DOMAIN rp' = Limbs /\ \A j \in Limbs : rp'[j] = IF j = vi THEN s.word ELSE rp[j]
  BY <1>1, <1>2, <1>6
<1>8. done' = (vi + 1 = an)
  <2>1. (left = 1) = (vi + 1 = an)
    BY <1>1
  <2> QED BY <1>2, <2>1
<1>9. \A j \in Limbs : vi <= j /\ j < vi + 1 <=> j = vi
  BY <1>1
<1> QED BY <1>2, <1>4, <1>5, <1>7, <1>8, <1>9 DEF Wrote

LEMMA InitAdd == AddSubInputs /\ Init => AddInv
<1> SUFFICES ASSUME AddSubInputs, Init, prog \in {"add_n", "sub_n"} PROVE AddShape /\ CarryRight
  BY DEF AddInv
<1>1. PICK shape \in Shapes[prog] : an = shape[1] /\ bn = shape[2]
  BY DEF Init
<1>2. prog \in {"add_n", "sub_n"} \cap DOMAIN Shapes
  BY DEF Init
<1>3. an \in 1 .. Room /\ bn \in {0, 1}
  BY <1>1, <1>2 DEF AddSubInputs
<1>4. \A j \in Limbs : IsWord(ap[j]) /\ IsWord(bp[j])
  <2>1. ap \in Patterns[prog] /\ bp \in Patterns[prog]
    BY DEF Init
  <2>2. \A j \in Limbs : ap[j] \in 0 .. Width - 1 /\ bp[j] \in 0 .. Width - 1
    BY <1>2, <2>1 DEF AddSubInputs
  <2> QED BY <2>2, FullWord DEF IsWord
<1>5. vi = 0 /\ done = FALSE /\ rp = [j \in Limbs |-> Untouched] /\ chain.cin = bn
  BY DEF Init, NoCarry
<1>6. L \in Nat \ {0} /\ Room \in Nat /\ an \in Nat /\ an > 0 /\ Limbs = 0 .. Room - 1
  BY <1>3, Parameters, RoomAssumption DEF Limbs
<1>7. vi \in 0 .. an /\ done = (vi = an)
  <2>1. vi \in 0 .. an /\ vi # an
    BY <1>5, <1>6
  <2>2. (vi = an) = FALSE
    BY <2>1
  <2> QED BY <1>5, <2>1, <2>2
<1>8. WholeBlocks
  <2> DEFINE m == 2 * L  q == an \div m
  <2>1. m \in Nat \ {0} /\ q \in Nat
    BY <1>6
  <2>5. Short = an % m /\ an \in Int
    BY <1>6 DEF Short
  <2>2. an = q * m + Short
    <3> HIDE DEF m
    <3>1. an = q * m + (an % m)
      BY <2>1, <2>5, DivMod
    <3> QED BY <2>5, <3>1
  <2>3. q * m = L * (2 * q) /\ 2 * q \in Nat
    <3> HIDE DEF q
    <3> QED BY <1>6, <2>1
  <2>4. left = Short + L * (2 * q)
    <3>1. left = an /\ Short \in Int /\ q * m \in Int
      <4>1. q * m \in Int
        <5> HIDE DEF q, m
        <5> QED BY <2>1
      <4> QED BY <1>5, <1>6, <4>1 DEF left, Short
    <3> HIDE DEF q, m
    <3> QED BY <2>2, <2>3, <3>1
  <2> QED BY <2>3, <2>4 DEF WholeBlocks
<1>9. CarryRight
  <2>1. Carry(0) = bn
    BY CarrySteps
  <2>2. \A j \in Limbs : rp[j] = Untouched /\ j >= vi
    BY <1>5, <1>6
  <2> QED BY <1>5, <1>7, <2>1, <2>2, <1>6 DEF CarryRight
<1>10. DOMAIN rp = Limbs
  BY <1>5
<1> QED BY <1>3, <1>4, <1>7, <1>8, <1>9, <1>10 DEF AddShape

(* Every step ends what it began, and blocks are left whole. *)
LEMMA AddStepKeeps ==
  ASSUME prog \in {"add_n", "sub_n"}, AddShape, CarryRight, AddSubNext
  PROVE  AddInv'
<1>1. /\ an \in Nat /\ vi \in Nat /\ left \in Nat /\ left = an - vi /\ L \in Nat \ {0} /\ Short \in Nat
      /\ left <= Short \/ WholeBlocks
  BY AddSizes DEF AddShape
<1>2. left > 0
  <2>1. ~done
    BY DEF AddSubNext, BlockVector, OneVector, MaskedTail, SingleLimb, Running
  <2>2. vi # an
    BY <2>1 DEF AddShape
  <2> QED BY <1>1, <2>2
<1>3. ASSUME NEW count \in Nat, count > 0, count <= left, Wrote(count),
             left - count <= Short \/ \E k \in Nat : left - count = Short + L * k
      PROVE  AddInv'
  <2>1. left' = left - count /\ Short' = Short
    BY <1>1, <1>3 DEF left, Short, Wrote
  <2>2. left' <= Short' \/ WholeBlocks'
    BY <1>3, <2>1 DEF WholeBlocks
  <2> QED BY <1>3, <2>2, AfterWrite
<1>4. ASSUME NEW k \in Nat, k > 0 PROVE L * k >= L /\ k - 1 \in Nat /\ L * (k - 1) = L * k - L /\ L * k \in Nat
  <2>1. L * (k - 1) = L * k - L /\ L * (k - 1) \in Nat /\ L * k \in Nat
    BY <1>1, <1>4
  <2> QED BY <1>1, <1>4, <2>1
<1>5. left > Short => \E k \in Nat : k > 0 /\ left = Short + L * k
  <2> SUFFICES ASSUME left > Short PROVE \E k \in Nat : k > 0 /\ left = Short + L * k
    OBVIOUS
  <2>1. PICK k \in Nat : left = Short + L * k
    BY <1>1 DEF WholeBlocks
  <2>2. k # 0
    BY <1>1, <2>1
  <2> QED BY <2>1, <2>2
<1>6. CASE BlockVector
  <2>1. left > Short /\ Words(L)
    BY <1>6 DEF BlockVector, Short
  <2>2. PICK k \in Nat : k > 0 /\ left = Short + L * k
    BY <1>5, <2>1
  <2> DEFINE m == L * k
  <2>3. m >= L /\ k - 1 \in Nat /\ L * (k - 1) = m - L /\ m \in Nat /\ left = Short + m
    BY <1>4, <2>2
  <2> HIDE DEF m
  <2>4. L <= left /\ left - L = Short + L * (k - 1) /\ L \in 1 .. L /\ L > 0
    BY <1>1, <2>3
  <2>5. Wrote(L)
    BY <2>1, <2>4, WordsWritten
  <2> QED BY <1>1, <1>3, <2>3, <2>4, <2>5
<1>7. CASE OneVector
  <2>1. left <= Short /\ L <= left /\ Words(L)
    BY <1>7 DEF OneVector, Short
  <2>2. L \in 1 .. L /\ L > 0 /\ left - L <= Short
    BY <1>1, <2>1
  <2>3. Wrote(L)
    BY <2>1, <2>2, WordsWritten
  <2> QED BY <1>1, <1>3, <2>1, <2>2, <2>3
<1>8. ASSUME left < L PROVE left <= Short
  <2> SUFFICES ASSUME left > Short PROVE FALSE
    BY <1>1
  <2>1. PICK k \in Nat : k > 0 /\ left = Short + L * k
    BY <1>5
  <2> DEFINE m == L * k
  <2>2. m >= L /\ m \in Nat /\ left = Short + m
    BY <1>4, <2>1
  <2> HIDE DEF m
  <2> QED BY <1>1, <1>8, <2>2
<1>9. CASE MaskedTail
  <2>1. left < L /\ Words(left)
    BY <1>9 DEF MaskedTail
  <2>2. left \in 1 .. L /\ left <= left /\ left - left <= Short
    BY <1>1, <1>2, <2>1
  <2>3. Wrote(left)
    BY <2>1, <2>2, WordsWritten
  <2> QED BY <1>1, <1>2, <1>3, <2>2, <2>3
<1>10. CASE SingleLimb
  <2>1. left < L \div 2
    BY <1>10 DEF SingleLimb
  <2>2. left < L /\ 1 \in Nat /\ 1 <= left
    BY <1>1, <1>2, <2>1
  <2>3. left - 1 <= Short
    BY <1>1, <1>8, <2>2
  <2>4. Wrote(1)
    BY <1>2, <1>10, LimbWritten
  <2> QED BY <1>3, <2>2, <2>3, <2>4
<1> QED BY <1>6, <1>7, <1>9, <1>10 DEF AddSubNext

LEMMA NextAdd == AddInv /\ [Next \/ AddSubNext]_vars => AddInv'
<1> SUFFICES ASSUME AddInv, [Next \/ AddSubNext]_vars PROVE AddInv'
  OBVIOUS
<1>1. CASE UNCHANGED vars
  <2>1. UNCHANGED <<prog, an, bn, ap, bp, vi, chain, rp, done>>
    BY <1>1 DEF vars
  <2>2. AddShape => AddShape'
    BY <2>1 DEF AddShape, Limbs, IsWord, left, Short, WholeBlocks
  <2>3. CarryRight => CarryRight'
    <3>1. PICK t : vi = t
      OBVIOUS
    <3>2. Carry(vi)' = Carry(vi)
      BY <2>1, <3>1, CarryReached
    <3>3. \A j \in Limbs : Carry(j)' = Carry(j)
      BY <2>1, CarryKept
    <3> QED BY <2>1, <3>2, <3>3 DEF CarryRight, Limbs, Word, Untouched
  <2> QED BY <2>1, <2>2, <2>3 DEF AddInv
<1>2. CASE AddSubNext
  <2>1. prog \in {"add_n", "sub_n"}
    BY <1>2 DEF AddSubNext, BlockVector, OneVector, MaskedTail, SingleLimb, Running
  <2> QED BY <1>2, <2>1, AddStepKeeps DEF AddInv
<1>3. CASE Next
  <2>1. prog \notin {"add_n", "sub_n"}
    BY <1>3 DEF Next, NarrowTurn, NarrowTail, NarrowFlush, WideTurn, WideEnd, VecTurn, VecEnd, FastTurn, FastEnd,
                StreamTurn, StreamEnd, Estimate, Backmul, AddBlock, SubBlock, OrderBlocks, MidTurn, MidEnd, VerticalEnd
  <2>2. prog' = prog
    BY <1>3 DEF Next, NarrowTurn, NarrowTail, NarrowFlush, WideTurn, WideEnd, VecTurn, VecEnd, FastTurn, FastEnd,
                StreamTurn, StreamEnd, Estimate, Backmul, AddBlock, SubBlock, OrderBlocks, MidTurn, MidEnd, VerticalEnd,
                Turn, Finish
  <2> QED BY <2>1, <2>2 DEF AddInv
<1> QED BY <1>1, <1>2, <1>3

(* CarryRight: at every step of a call, for every number of lanes, every base *)
(* and headroom, every length and all words, the words written are those of   *)
(* the sum or difference and the carry handed on is theirs.                   *)
THEOREM AdditionRight ==
  ASSUME AddSubInputs
  PROVE  ProductsSpec => []CarryRight
<1>1. Init => AddInv
  BY InitAdd
<1>2. AddInv /\ [Next \/ AddSubNext]_vars => AddInv'
  BY NextAdd
<1>3. AddInv => CarryRight
  BY DEF AddInv, CarryRight
<1> QED BY <1>1, <1>2, <1>3, PTL DEF ProductsSpec

-----------------------------------------------------------------------------
(* What the words of a finished call are worth *)

LEMMA LimbExact ==
  ASSUME prog \in {"add_n", "sub_n"}, NEW x, IsWord(x), NEW y, IsWord(y), NEW c \in {0, 1}
  PROVE  /\ LimbResult(x, y, c) \in Int
         /\ prog = "add_n" => LimbResult(x, y, c) + Width * NextCarry(x, y, c) = x + y + c
         /\ prog = "sub_n" => LimbResult(x, y, c) - Width * NextCarry(x, y, c) = x - y - c
<1> DEFINE w == Width
<1>1. w \in Nat /\ w >= 4 /\ x \in 0 .. w - 1 /\ y \in 0 .. w - 1 /\ Width = w
  BY FullWord DEF IsWord
<1> HIDE DEF w
<1>2. CASE prog = "add_n"
  <2> DEFINE n == IF x + y + c >= w THEN 1 ELSE 0  r == x + y + c - w * n  z == x + y + c
  <2>1. NextCarry(x, y, c) = n
    <3>1. (x + y + c) \div Width = IF x + y + c >= Width THEN 1 ELSE 0
      BY WordAdds
    <3> QED BY <1>1, <1>2, <3>1 DEF NextCarry
  <2>2. IsWord(r) /\ r + w * n = x + y + c /\ r \in Int /\ z \in Int /\ (z = r \/ z = r + Width)
    BY <1>1 DEF IsWord
  <2>3. Word(z) = r
    <3> HIDE DEF r, z
    <3> QED BY <2>2, WordNear
  <2>4. LimbResult(x, y, c) = r
    BY <1>2, <2>3 DEF LimbResult
  <2> HIDE DEF n, r
  <2> QED BY <1>1, <1>2, <2>1, <2>2, <2>4
<1>3. CASE prog = "sub_n"
  <2> DEFINE n == IF x < y + c THEN 1 ELSE 0  r == x - y - c + w * n  z == x - y - c
  <2>1. NextCarry(x, y, c) = n
    BY <1>1, <1>3 DEF NextCarry
  <2>2. IsWord(r) /\ r - w * n = x - y - c /\ r \in Int /\ z \in Int /\ (z = r \/ z = r - Width)
    BY <1>1 DEF IsWord
  <2>3. Word(z) = r
    <3> HIDE DEF r, z
    <3> QED BY <2>2, WordNear
  <2>4. LimbResult(x, y, c) = r
    BY <1>3, <2>3 DEF LimbResult
  <2> HIDE DEF n, r
  <2> QED BY <1>1, <1>3, <2>1, <2>2, <2>4
<1> QED BY <1>2, <1>3

(* The result with the carry or borrow at its weight. *)
SumExact ==
  done =>
    /\ prog = "add_n" => Number(rp, an, Width) + Power(Width, an) * chain.cin
                           = Number(ap, an, Width) + Number(bp, an, Width) + bn
    /\ prog = "sub_n" => Number(rp, an, Width) - Power(Width, an) * chain.cin
                           = Number(ap, an, Width) - Number(bp, an, Width) - bn

LEMMA WholeSum == AddInv => SumExact
<1> SUFFICES ASSUME AddInv, done, prog \in {"add_n", "sub_n"} PROVE SumExact
  BY DEF SumExact
<1> DEFINE w == Width  sign == IF prog = "add_n" THEN 1 ELSE -1
           g == [j \in 0 .. an - 1 |-> ap[j] + sign * bp[j]]
           c == [j \in 0 .. an |-> sign * Carry(j)]
<1>1. AddShape /\ CarryRight /\ an \in Nat /\ Room \in Nat /\ an <= Room /\ Limbs = 0 .. Room - 1 /\ vi = an
  BY AddSizes DEF AddInv, AddShape
<1>2. w \in Nat /\ w >= 4 /\ Width = w
  BY FullWord
<1>3. sign \in {1, -1} /\ sign \in Int /\ (prog = "add_n" => sign = 1) /\ (prog = "sub_n" => sign = -1)
  OBVIOUS
<1> HIDE DEF w, sign
<1>4. \A j \in 0 .. an : Carry(j) \in {0, 1}
  BY <1>1, CarryIsBit
<1>5. ASSUME NEW j \in 0 .. an - 1
      PROVE  /\ rp[j] \in Int /\ ap[j] \in Int /\ bp[j] \in Int
             /\ rp[j] + w * (sign * Carry(j + 1)) = ap[j] + sign * bp[j] + sign * Carry(j)
  <2>1. j \in Limbs /\ j \in Nat /\ j \in 0 .. an /\ j + 1 \in 0 .. an /\ ~(j >= an)
    BY <1>1
  <2>2. IsWord(ap[j]) /\ IsWord(bp[j]) /\ Carry(j) \in {0, 1} /\ Carry(j + 1) \in {0, 1}
    BY <1>1, <1>4, <2>1 DEF AddShape
  <2>3. rp[j] = LimbResult(ap[j], bp[j], Carry(j)) /\ Carry(j + 1) = NextCarry(ap[j], bp[j], Carry(j))
    BY <1>1, <2>1, CarrySteps DEF CarryRight, LimbResult
  <2>4. /\ rp[j] \in Int
        /\ prog = "add_n" => rp[j] + w * Carry(j + 1) = ap[j] + bp[j] + Carry(j)
        /\ prog = "sub_n" => rp[j] - w * Carry(j + 1) = ap[j] - bp[j] - Carry(j)
    BY <1>2, <2>2, <2>3, LimbExact
  <2>5. ap[j] \in Int /\ bp[j] \in Int
    BY <2>2 DEF IsWord
  <2>6. w * (-1 * Carry(j + 1)) = -(w * Carry(j + 1)) /\ w * Carry(j + 1) \in Int
    BY <1>2, <2>2
  <2> DEFINE r == rp[j]  x == ap[j]  y == bp[j]  u == Carry(j)  v == Carry(j + 1)
  <2>7. /\ r \in Int /\ x \in Int /\ y \in Int /\ u \in Int /\ v \in Int
        /\ prog = "add_n" => r + w * v = x + y + u
        /\ prog = "sub_n" => r - w * v = x - y - u
        /\ w * (-1 * v) = -(w * v) /\ w * v \in Int
    BY <2>2, <2>4, <2>5, <2>6
  <2> HIDE DEF r, x, y, u, v
  <2>8. CASE prog = "add_n"
    <3>1. r + w * v = x + y + u
      BY <2>7, <2>8
    <3>2. sign = 1 /\ 1 * v = v /\ 1 * y = y /\ 1 * u = u
      BY <1>3, <2>7, <2>8
    <3> QED BY <2>7, <3>1, <3>2 DEF r, x, y, u, v
  <2>9. CASE prog = "sub_n"
    <3>1. r - w * v = x - y - u
      BY <2>7, <2>9
    <3>2. sign = -1 /\ -1 * y = -y /\ -1 * u = -u
      BY <1>3, <2>7, <2>9
    <3>3. r + w * (-1 * v) = x + (-1 * y) + (-1 * u)
      BY <2>7, <3>1, <3>2
    <3> QED BY <2>7, <3>2, <3>3 DEF r, x, y, u, v
  <2> QED BY <2>8, <2>9
<1>6. Exchanges(rp, g, c, w, an)
  <2>1. ASSUME NEW l \in 0 .. an - 1
        PROVE  /\ rp[l] \in Int /\ g[l] \in Int /\ l \in 0 .. an /\ l + 1 \in 0 .. an
               /\ rp[l] + w * c[l + 1] = g[l] + c[l]
    <3>1. l \in 0 .. an /\ l + 1 \in 0 .. an
      BY <1>1
    <3>2. sign * bp[l] \in Int
      BY <1>5, <1>3
    <3> QED BY <1>5, <3>1, <3>2
  <2>2. ASSUME NEW l \in 0 .. an PROVE c[l] \in Int
    BY <1>4, <1>3
  <2> QED BY <2>1, <2>2 DEF Exchanges
<1>7. Number(rp, an, w) + Power(w, an) * c[an] = Number(g, an, w) + c[0]
  BY <1>1, <1>2, <1>6, Telescope
<1>8. Number(g, an, w) = Number(ap, an, w) + sign * Number(bp, an, w)
  <2>1. \A l \in 0 .. an - 1 : ap[l] \in Int /\ bp[l] \in Int /\ g[l] = ap[l] + sign * bp[l]
    BY <1>5
  <2>2. sign \in Int /\ w > 0 /\ w \in Nat /\ an \in Nat
    BY <1>1, <1>2, <1>3
  <2> HIDE DEF g
  <2> QED BY SMTT(40), <2>1, <2>2, NumberLinear
<1>9. /\ c[an] = sign * chain.cin /\ c[0] = sign * bn /\ chain.cin \in {0, 1} /\ bn \in {0, 1}
  <2>1. chain.cin = Carry(an) /\ Carry(0) = bn /\ bn \in {0, 1} /\ an \in 0 .. an /\ 0 \in 0 .. an
    BY <1>1, CarrySteps DEF CarryRight, AddShape
  <2> QED BY <1>4, <2>1
<1>10. Number(rp, an, w) \in Int /\ Number(bp, an, w) \in Int /\ Number(ap, an, w) \in Int /\ Power(w, an) \in Int
  <2>1. \A l \in 0 .. an - 1 : rp[l] \in Int /\ ap[l] \in Int /\ bp[l] \in Int
    BY <1>5
  <2>2. w > 0 /\ an \in 0 .. an
    BY <1>1, <1>2
  <2>3. Number(rp, an, w) \in Int
    BY <1>1, <1>2, <2>1, <2>2, NumberSteps
  <2>4. Number(ap, an, w) \in Int
    BY <1>1, <1>2, <2>1, <2>2, NumberSteps
  <2>5. Number(bp, an, w) \in Int
    BY <1>1, <1>2, <2>1, <2>2, NumberSteps
  <2>6. Power(w, an) \in Int
    BY <1>1, <1>2, <2>2, PowerPositive
  <2> QED BY <2>3, <2>4, <2>5, <2>6
<1> DEFINE x == Number(rp, an, w)  y == Number(bp, an, w)  z == Number(ap, an, w)  p == Power(w, an)
<1>11. x + p * (sign * chain.cin) = z + sign * y + sign * bn
  BY <1>7, <1>8, <1>9
<1>12. x \in Int /\ y \in Int /\ z \in Int /\ p \in Int
  BY <1>10
<1> HIDE DEF g, c, x, y, z, p
<1>13. CASE prog = "add_n"
  <2>1. x + p * chain.cin = z + y + bn
    BY <1>9, <1>11, <1>12, <1>13, <1>3
  <2> QED BY <1>2, <1>13, <2>1 DEF SumExact, x, y, z, p
<1>14. CASE prog = "sub_n"
  <2>1. x - p * chain.cin = z - y - bn
    BY <1>9, <1>11, <1>12, <1>14, <1>3
  <2> QED BY <1>2, <1>14, <2>1 DEF SumExact, x, y, z, p
<1> QED BY <1>13, <1>14

(* A finished addition or subtraction of n limbs is exact: the words written  *)
(* and the carry or borrow returned are worth the sum or the difference of    *)
(* the operands and the carry handed in.                                      *)
THEOREM AdditionExact ==
  ASSUME AddSubInputs
  PROVE  ProductsSpec => []SumExact
<1>1. Init => AddInv
  BY InitAdd
<1>2. AddInv /\ [Next \/ AddSubNext]_vars => AddInv'
  BY NextAdd
<1> QED BY <1>1, <1>2, WholeSum, PTL DEF ProductsSpec

-----------------------------------------------------------------------------
(* Sums *)

LEMMA TotalSteps ==
  ASSUME NEW n \in Nat, NEW f, IntLimbs(f, n)
  PROVE  /\ Total(f, 0) = 0 /\ \A k \in 0 .. n : Total(f, k) \in Int
         /\ \A k \in 0 .. n - 1 : Total(f, k + 1) = Total(f, k) + f[k]
<1>1. \A k \in Nat : Power(1, k) = 1
  <2> DEFINE T == {k \in Nat : Power(1, k) = 1}
  <2>1. 0 \in T
    BY PowerSteps
  <2>2. ASSUME NEW k \in Nat, k \in T PROVE k + 1 \in T
    <3>1. Power(1, k + 1) = 1 * Power(1, k) /\ Power(1, k) = 1
      BY <2>2, PowerSteps
    <3> QED BY <3>1
  <2>3. T \subseteq Nat
    OBVIOUS
  <2> HIDE DEF T
  <2>4. \A k \in Nat : k \in T
    BY <2>1, <2>2, <2>3, ByInduction
  <2> QED BY <2>4 DEF T
<1>2. /\ Number(f, 0, 1) = 0 /\ \A k \in 0 .. n : Number(f, k, 1) \in Int
      /\ \A k \in 0 .. n - 1 : Number(f, k + 1, 1) = Number(f, k, 1) + Power(1, k) * f[k]
  BY NumberSteps DEF IntLimbs
<1>3. \A k \in 0 .. n - 1 : Power(1, k) * f[k] = f[k]
  <2> SUFFICES ASSUME NEW k \in 0 .. n - 1 PROVE Power(1, k) * f[k] = f[k]
    OBVIOUS
  <2>1. f[k] \in Int /\ Power(1, k) = 1
    BY <1>1 DEF IntLimbs
  <2> QED BY <2>1
<1> QED BY <1>2, <1>3 DEF Total

LEMMA TotalOfSame ==
  ASSUME NEW n \in Nat, NEW f, NEW g, IntLimbs(f, n), \A x \in 0 .. n - 1 : g[x] = f[x]
  PROVE  Total(g, n) = Total(f, n)
<1>1. \A x \in 0 .. n - 1 : f[x] \in Int /\ f[x] = g[x]
  BY DEF IntLimbs
<1>2. Number(f, n, 1) = Number(g, n, 1)
  BY <1>1, NumberOfSame
<1> QED BY <1>2 DEF Total

LEMMA TotalAdds ==
  ASSUME NEW n \in Nat, NEW f, NEW g, NEW h, IntLimbs(f, n), IntLimbs(g, n),
         \A x \in 0 .. n - 1 : h[x] = f[x] + g[x]
  PROVE  Total(h, n) = Total(f, n) + Total(g, n)
<1>1. \A x \in 0 .. n - 1 : f[x] \in Int /\ g[x] \in Int /\ h[x] = f[x] + 1 * g[x]
  BY DEF IntLimbs
<1>2. Number(h, n, 1) = Number(f, n, 1) + 1 * Number(g, n, 1)
  BY <1>1, NumberLinear
<1>3. Number(g, n, 1) \in Int
  <2>1. Total(g, n) \in Int
    BY TotalSteps
  <2> QED BY <2>1 DEF Total
<1> QED BY <1>2, <1>3 DEF Total

LEMMA TotalBounds ==
  ASSUME NEW n \in Nat, NEW f, NEW c \in Nat, \A x \in 0 .. n - 1 : f[x] \in 0 .. c
  PROVE  Total(f, n) \in 0 .. n * c
<1>1. IntLimbs(f, n)
  BY DEF IntLimbs
<1> DEFINE T == {k \in Nat : k <= n => Total(f, k) \in 0 .. k * c}
<1>2. 0 \in T
  BY <1>1, TotalSteps
<1>3. ASSUME NEW k \in Nat, k \in T PROVE k + 1 \in T
  <2> SUFFICES ASSUME k + 1 <= n PROVE Total(f, k + 1) \in 0 .. (k + 1) * c
    OBVIOUS
  <2>1. Total(f, k + 1) = Total(f, k) + f[k] /\ f[k] \in 0 .. c /\ Total(f, k) \in 0 .. k * c
    BY <1>1, <1>3, TotalSteps
  <2>2. (k + 1) * c = k * c + c /\ k * c \in Nat
    OBVIOUS
  <2> QED BY <2>1, <2>2
<1>4. T \subseteq Nat
  OBVIOUS
<1> HIDE DEF T
<1>5. n \in T
  BY <1>2, <1>3, <1>4, ByInduction
<1> QED BY <1>5 DEF T

LEMMA TotalSplit ==
  ASSUME NEW m \in Nat, NEW n \in Nat, NEW f, NEW g, IntLimbs(f, m + n), Piece(g, f, m, n)
  PROVE  Total(f, m + n) = Total(f, m) + Total(g, n)
<1>1. IntLimbs(g, n)
  BY DEF IntLimbs, Piece
<1> DEFINE T == {k \in Nat : k <= n => Total(f, m + k) = Total(f, m) + Total(g, k)}
<1>2. 0 \in T
  <2>1. Total(f, m) \in Int /\ Total(g, 0) = 0 /\ m + 0 = m
    BY <1>1, TotalSteps
  <2> QED BY <2>1
<1>3. ASSUME NEW k \in Nat, k \in T PROVE k + 1 \in T
  <2> SUFFICES ASSUME k + 1 <= n PROVE Total(f, m + (k + 1)) = Total(f, m) + Total(g, k + 1)
    OBVIOUS
  <2>1. /\ k \in 0 .. n - 1 /\ k \in 0 .. n /\ m + k \in 0 .. m + n - 1 /\ m \in 0 .. m + n /\ m + n \in Nat
        /\ m + (k + 1) = (m + k) + 1
    OBVIOUS
  <2>2. Total(f, (m + k) + 1) = Total(f, m + k) + f[m + k] /\ Total(f, m) \in Int
    BY <2>1, TotalSteps
  <2>3. Total(g, k + 1) = Total(g, k) + g[k] /\ Total(g, k) \in Int /\ g[k] = f[m + k] /\ g[k] \in Int
    BY <1>1, <2>1, TotalSteps DEF Piece, IntLimbs
  <2> QED BY <1>3, <2>1, <2>2, <2>3
<1>4. T \subseteq Nat
  OBVIOUS
<1> HIDE DEF T
<1>5. n \in T
  BY <1>2, <1>3, <1>4, ByInduction
<1> QED BY <1>5 DEF T

(* A sum from its end. *)
LEMMA TotalReversed ==
  ASSUME NEW n \in Nat, NEW f, NEW g, IntLimbs(f, n), \A x \in 0 .. n - 1 : g[x] = f[n - 1 - x]
  PROVE  Total(g, n) = Total(f, n)
<1>1. IntLimbs(g, n)
  BY DEF IntLimbs
<1> DEFINE T == {k \in Nat : k <= n => Total(g, k) = Total(f, n) - Total(f, n - k)}
<1>2. 0 \in T
  <2>1. Total(f, n) \in Int /\ Total(g, 0) = 0 /\ n - 0 = n
    BY <1>1, TotalSteps
  <2> QED BY <2>1
<1>3. ASSUME NEW k \in Nat, k \in T PROVE k + 1 \in T
  <2> SUFFICES ASSUME k + 1 <= n PROVE Total(g, k + 1) = Total(f, n) - Total(f, n - (k + 1))
    OBVIOUS
  <2> DEFINE j == n - (k + 1)
  <2>1. k \in 0 .. n - 1 /\ j \in 0 .. n - 1 /\ j \in 0 .. n /\ j + 1 = n - k /\ n - 1 - k = j
    OBVIOUS
  <2> HIDE DEF j
  <2>2. Total(f, j + 1) = Total(f, j) + f[j] /\ Total(f, n) \in Int /\ Total(f, j) \in Int /\ f[j] \in Int
    BY <2>1, TotalSteps DEF IntLimbs
  <2>3. Total(g, k + 1) = Total(g, k) + g[k] /\ g[k] = f[j]
    BY <1>1, <2>1, TotalSteps
  <2>4. Total(g, k) = Total(f, n) - Total(f, j + 1)
    BY <1>3, <2>1
  <2>5. Total(g, k + 1) = Total(f, n) - Total(f, j)
    BY <2>2, <2>3, <2>4
  <2> QED BY <2>5 DEF j
<1>4. T \subseteq Nat
  OBVIOUS
<1> HIDE DEF T
<1>5. n \in T
  BY <1>2, <1>3, <1>4, ByInduction
<1>6. Total(f, 0) = 0 /\ Total(f, n) \in Int /\ n - n = 0
  BY TotalSteps
<1> QED BY <1>5, <1>6 DEF T

(* A sum by blocks of w terms. *)
LEMMA TotalBlocks ==
  ASSUME NEW w \in Nat, NEW q \in Nat, NEW f, NEW s, NEW part, IntLimbs(f, q * w),
         \A k \in 0 .. q - 1 : Piece(part[k], f, k * w, w) /\ s[k] = Total(part[k], w)
  PROVE  IntLimbs(s, q) /\ Total(s, q) = Total(f, q * w)
<1>0. ASSUME NEW k \in 0 .. q - 1
      PROVE  k * w \in Nat /\ k * w + w <= q * w /\ (k + 1) * w = k * w + w /\ q * w \in Nat
  <2>1. k + 1 \in Int /\ q \in Int /\ k + 1 <= q
    OBVIOUS
  <2>2. (k + 1) * w <= q * w
    BY <2>1, MulLe
  <2>3. (k + 1) * w = k * w + w /\ k * w \in Nat /\ q * w \in Nat
    OBVIOUS
  <2> QED BY <2>2, <2>3
<1>1. IntLimbs(s, q)
  <2> SUFFICES ASSUME NEW k \in 0 .. q - 1 PROVE s[k] \in Int
    BY DEF IntLimbs
  <2> DEFINE a == k * w
  <2>2. a \in Nat /\ a + w <= q * w /\ q * w \in Nat
    BY <1>0
  <2>3. Piece(part[k], f, a, w) /\ s[k] = Total(part[k], w)
    OBVIOUS
  <2> HIDE DEF a
  <2>4. IntLimbs(part[k], w)
    BY <2>2, <2>3 DEF IntLimbs, Piece
  <2> QED BY <2>3, <2>4, TotalSteps
<1> DEFINE T == {k \in Nat : k <= q => Total(s, k) = Total(f, k * w)}
<1>2. 0 \in T
  <2>1. Total(s, 0) = 0 /\ 0 * w = 0
    BY <1>1, TotalSteps
  <2>2. q * w \in Nat
    OBVIOUS
  <2>3. Total(f, 0) = 0
    BY <2>2, TotalSteps
  <2> QED BY <2>1, <2>3
<1>3. ASSUME NEW k \in Nat, k \in T PROVE k + 1 \in T
  <2> SUFFICES ASSUME k + 1 <= q PROVE Total(s, k + 1) = Total(f, (k + 1) * w)
    OBVIOUS
  <2> DEFINE a == k * w
  <2>1. k \in 0 .. q - 1
    OBVIOUS
  <2>2. a \in Nat /\ (k + 1) * w = a + w /\ a + w <= q * w /\ q * w \in Nat
    BY <1>0, <2>1
  <2>3. Piece(part[k], f, a, w) /\ s[k] = Total(part[k], w) /\ Total(s, k) = Total(f, a)
    BY <1>3, <2>1
  <2> HIDE DEF a
  <2>4. IntLimbs(f, a + w)
    BY <2>2 DEF IntLimbs
  <2>5. Total(f, a + w) = Total(f, a) + Total(part[k], w)
    BY <2>2, <2>3, <2>4, TotalSplit
  <2>6. Total(s, k + 1) = Total(s, k) + s[k]
    BY <1>1, <2>1, TotalSteps
  <2> QED BY <2>2, <2>3, <2>5, <2>6
<1>4. T \subseteq Nat
  OBVIOUS
<1> HIDE DEF T
<1>5. q \in T
  BY <1>2, <1>3, <1>4, ByInduction
<1> QED BY <1>1, <1>5 DEF T

-----------------------------------------------------------------------------
(* Vectors added up *)

IsSum(acc, v, n) == acc = [x \in 0 .. n |-> IF x = 0 THEN Zero ELSE Plus(acc[x - 1], v[x - 1])]

LEMMA SumDefined ==
  ASSUME NEW v, NEW n \in Nat
  PROVE  \E acc : IsSum(acc, v, n) /\ SumOf(v, n) = acc[n]
<1> DEFINE T == {k \in Nat : \E acc : IsSum(acc, v, k)}
<1>1. 0 \in T
  <2> DEFINE acc == [x \in 0 .. 0 |-> Zero]
  <2>1. IsSum(acc, v, 0)
    BY DEF IsSum
  <2> QED BY <2>1
<1>2. ASSUME NEW k \in Nat, k \in T PROVE k + 1 \in T
  <2>1. PICK below : IsSum(below, v, k)
    BY <1>2
  <2>2. below[0] = Zero /\ \A x \in 1 .. k : below[x] = Plus(below[x - 1], v[x - 1])
    BY <2>1 DEF IsSum
  <2> DEFINE acc == [x \in 0 .. k + 1 |-> IF x = k + 1 THEN Plus(below[k], v[k]) ELSE below[x]]
  <2>3. \A x \in 0 .. k + 1 : acc[x] = IF x = 0 THEN Zero ELSE Plus(acc[x - 1], v[x - 1])
    BY <2>2
  <2>4. acc = [x \in 0 .. k + 1 |-> IF x = 0 THEN Zero ELSE Plus(acc[x - 1], v[x - 1])]
    BY <2>3
  <2> HIDE DEF acc
  <2>5. IsSum(acc, v, k + 1)
    BY <2>4 DEF IsSum
  <2> QED BY <2>5
<1>3. n \in T
  <2>1. T \subseteq Nat
    OBVIOUS
  <2> HIDE DEF T
  <2> QED BY <1>1, <1>2, <2>1, ByInduction
<1>4. PICK acc : IsSum(acc, v, n)
  BY <1>3
<1>5. SumOf(v, n) = (CHOOSE s : IsSum(s, v, n))[n]
  BY DEF SumOf, IsSum
<1> QED BY <1>4, <1>5

LEMMA SumsAgree ==
  ASSUME NEW v, NEW n \in Nat, NEW p, NEW q, IsSum(p, v, n), IsSum(q, v, n + 1)
  PROVE  q[n] = p[n]
<1> DEFINE T == {k \in Nat : k <= n => p[k] = q[k]}
<1>1. 0 \in T
  BY DEF IsSum
<1>2. ASSUME NEW k \in Nat, k \in T PROVE k + 1 \in T
  BY <1>2 DEF IsSum
<1>3. n \in T
  <2>1. T \subseteq Nat
    OBVIOUS
  <2> HIDE DEF T
  <2> QED BY <1>1, <1>2, <2>1, ByInduction
<1> QED BY <1>3

LEMMA SumSteps ==
  ASSUME NEW v
  PROVE  SumOf(v, 0) = Zero /\ \A n \in Nat : SumOf(v, n + 1) = Plus(SumOf(v, n), v[n])
<1>1. SumOf(v, 0) = Zero
  BY SumDefined DEF IsSum
<1>2. ASSUME NEW n \in Nat PROVE SumOf(v, n + 1) = Plus(SumOf(v, n), v[n])
  <2>1. PICK p : IsSum(p, v, n) /\ SumOf(v, n) = p[n]
    BY SumDefined
  <2>2. PICK q : IsSum(q, v, n + 1) /\ SumOf(v, n + 1) = q[n + 1]
    BY SumDefined
  <2>3. q[n + 1] = Plus(q[n], v[n])
    BY <2>2 DEF IsSum
  <2> QED BY <2>1, <2>2, <2>3, SumsAgree
<1> QED BY <1>1, <1>2

LEMMA WordOfWord ==
  ASSUME NEW x \in Int, NEW y \in Int
  PROVE  Word(x) \in Int /\ Word(Word(x) + y) = Word(x + y)
<1> DEFINE w == Width  u == Word(x)  v == Word(u + y)
<1>1. w \in Nat /\ IsWord(u) /\ \E q \in Int : x = w * q + u
  BY WordOf, Parameters
<1>2. u \in Int
  BY <1>1 DEF IsWord
<1> HIDE DEF u
<1>3. IsWord(v) /\ \E q \in Int : u + y = w * q + v
  BY <1>2, WordOf
<1>4. v \in Int
  BY <1>3 DEF IsWord
<1> HIDE DEF v
<1>5. PICK p \in Int : x = w * p + u
  BY <1>1
<1>6. PICK q \in Int : u + y = w * q + v
  BY <1>3
<1>7. x + y = w * (p + q) + v /\ p + q \in Int /\ x + y \in Int
  <2> HIDE DEF w
  <2> QED BY <1>1, <1>2, <1>4, <1>5, <1>6
<1>8. Word(x + y) = v
  BY <1>3, <1>7, WordIs
<1> QED BY <1>2, <1>8 DEF u, v

(* A lane of the sum is the sum of that lane, whatever the others hold. *)
LEMMA SumLane ==
  ASSUME NEW n \in Nat, NEW v, NEW f, NEW l \in Lane, IntLimbs(f, n), \A x \in 0 .. n - 1 : v[x][l] = f[x]
  PROVE  SumOf(v, n)[l] = Word(Total(f, n))
<1> DEFINE T == {k \in Nat : k <= n => SumOf(v, k)[l] = Word(Total(f, k))}
<1>1. 0 \in T
  <2>1. SumOf(v, 0)[l] = 0 /\ Total(f, 0) = 0
    BY SumSteps, TotalSteps DEF Zero
  <2>2. Word(0) = 0
    <3>1. IsWord(0) /\ 0 = Width * 0 + 0
      BY FullWord DEF IsWord
    <3> QED BY <3>1, WordIs
  <2> QED BY <2>1, <2>2
<1>2. ASSUME NEW k \in Nat, k \in T PROVE k + 1 \in T
  <2> SUFFICES ASSUME k + 1 <= n PROVE SumOf(v, k + 1)[l] = Word(Total(f, k + 1))
    OBVIOUS
  <2>1. k \in 0 .. n - 1 /\ k \in 0 .. n /\ k <= n
    OBVIOUS
  <2>2. SumOf(v, k + 1)[l] = Word(SumOf(v, k)[l] + v[k][l])
    <3>1. SumOf(v, k + 1) = Plus(SumOf(v, k), v[k])
      BY SumSteps
    <3> QED BY <3>1 DEF Plus
  <2>3. SumOf(v, k)[l] = Word(Total(f, k)) /\ v[k][l] = f[k] /\ f[k] \in Int /\ Total(f, k) \in Int
    BY <1>2, <2>1, TotalSteps DEF IntLimbs
  <2>4. Total(f, k + 1) = Total(f, k) + f[k]
    BY <2>1, TotalSteps
  <2> QED BY <2>2, <2>3, <2>4, WordOfWord
<1>3. T \subseteq Nat
  OBVIOUS
<1> HIDE DEF T
<1>4. n \in T
  BY <1>1, <1>2, <1>3, ByInduction
<1> QED BY <1>4 DEF T

LEMMA SumIsVector ==
  ASSUME NEW v, NEW n \in Nat
  PROVE  DOMAIN SumOf(v, n) = Lane
<1>1. CASE n = 0
  BY <1>1, SumSteps DEF Zero
<1>2. CASE n # 0
  <2>1. n - 1 \in Nat /\ (n - 1) + 1 = n
    BY <1>2
  <2>2. SumOf(v, (n - 1) + 1) = Plus(SumOf(v, n - 1), v[n - 1])
    BY <2>1, SumSteps
  <2> QED BY <2>1, <2>2 DEF Plus
<1> QED BY <1>1, <1>2

LEMMA SmallWord ==
  ASSUME NEW x \in 0 .. Width - 1
  PROVE  Word(x) = x
<1>1. IsWord(x) /\ x \in Int /\ x = Width * 0 + x
  BY FullWord DEF IsWord
<1> QED BY <1>1, WordIs

(* Words summed in two steps. *)
LEMMA WordOfSum ==
  ASSUME NEW x \in Int, NEW y \in Int
  PROVE  Word(y) \in Int /\ Word(x + Word(y)) = Word(x + y)
<1>1. Word(y) \in Int /\ Word(Word(y) + x) = Word(y + x)
  BY WordOfWord
<1>2. Word(y) + x = x + Word(y) /\ y + x = x + y
  BY <1>1
<1> QED BY <1>1, <1>2

(* A sum whose upper terms are added up by reversed blocks. *)
ReversedBlocks(s, part, f, m, w, q) ==
  \A k \in 0 .. q - 1 : /\ s[k] = Total(part[k], w)
                        /\ \A l \in 0 .. w - 1 : part[k][l] = f[(m + k * w) + (w - 1 - l)]

LEMMA TailSum ==
  ASSUME NEW w \in Nat, NEW q \in Nat, NEW m \in Nat, NEW n \in Nat, n = m + q * w,
         NEW f, IntLimbs(f, n), NEW s, NEW part, ReversedBlocks(s, part, f, m, w, q)
  PROVE  IntLimbs(s, q) /\ Total(f, n) = Total(f, m) + Total(s, q)
<1> DEFINE g == [j \in 0 .. q * w - 1 |-> f[m + j]]
           run == [k \in 0 .. q - 1 |-> [l \in 0 .. w - 1 |-> g[k * w + l]]]
<1>1. q * w \in Nat
  OBVIOUS
<1>2. ASSUME NEW k \in 0 .. q - 1 PROVE k * w \in Nat /\ k * w + w <= q * w
  <2>1. k + 1 \in Int /\ q \in Int /\ k + 1 <= q
    OBVIOUS
  <2>2. (k + 1) * w <= q * w
    BY <2>1, MulLe
  <2>3. (k + 1) * w = k * w + w /\ k * w \in Nat
    OBVIOUS
  <2> QED BY <2>2, <2>3
<1>3. IntLimbs(g, q * w) /\ Piece(g, f, m, q * w)
  <2> DEFINE e == q * w
  <2>1. e \in Nat /\ n = m + e
    BY <1>1
  <2> HIDE DEF e
  <2>2. \A j \in 0 .. e - 1 : m + j \in 0 .. n - 1
    BY <2>1
  <2>3. \A j \in 0 .. e - 1 : g[j] = f[m + j] /\ f[m + j] \in Int
    BY <2>2 DEF IntLimbs, e
  <2>4. IntLimbs(g, e) /\ Piece(g, f, m, e)
    <3> HIDE DEF g
    <3> QED BY <2>3 DEF IntLimbs, Piece
  <2> QED BY <2>4 DEF e
<1>4. ASSUME NEW k \in 0 .. q - 1 PROVE Piece(run[k], g, k * w, w) /\ s[k] = Total(run[k], w)
  <2> DEFINE a == k * w  r == run[k]
  <2>1. a \in Nat /\ a + w <= q * w
    BY <1>2
  <2>2. \A l \in 0 .. w - 1 : r[l] = g[a + l]
    OBVIOUS
  <2>3. \A l \in 0 .. w - 1 : a + l \in 0 .. q * w - 1 /\ g[a + l] = f[m + (a + l)]
    <3>1. \A l \in 0 .. w - 1 : a + l \in 0 .. q * w - 1
      BY <1>1, <2>1
    <3> QED BY <3>1
  <2>4. s[k] = Total(part[k], w) /\ \A l \in 0 .. w - 1 : part[k][l] = f[(m + a) + (w - 1 - l)]
    BY DEF ReversedBlocks
  <2> HIDE DEF r, a
  <2>5. IntLimbs(r, w)
    BY <1>3, <2>2, <2>3 DEF IntLimbs
  <2>6. ASSUME NEW l \in 0 .. w - 1 PROVE part[k][l] = r[w - 1 - l]
    <3> DEFINE y == w - 1 - l
    <3>1. y \in 0 .. w - 1 /\ m + (a + y) = (m + a) + y
      BY <2>1
    <3>2. part[k][l] = f[(m + a) + y]
      BY <2>4
    <3>3. r[y] = g[a + y] /\ g[a + y] = f[m + (a + y)]
      <4> HIDE DEF y, g
      <4> QED BY <2>2, <2>3, <3>1
    <3> HIDE DEF y
    <3>4. part[k][l] = r[y]
      BY <3>1, <3>2, <3>3
    <3> QED BY <3>4 DEF y
  <2>7. Total(part[k], w) = Total(r, w)
    BY <2>5, <2>6, TotalReversed
  <2>8. Piece(r, g, a, w)
    BY <2>2 DEF Piece
  <2> QED BY <2>4, <2>7, <2>8 DEF r, a
<1> HIDE DEF run, g
<1>5. IntLimbs(s, q) /\ Total(s, q) = Total(g, q * w)
  BY <1>3, <1>4, TotalBlocks
<1>6. Total(f, m + q * w) = Total(f, m) + Total(g, q * w)
  <2> DEFINE e == q * w
  <2>1. e \in Nat /\ IntLimbs(f, m + e) /\ Piece(g, f, m, e)
    BY <1>1, <1>3
  <2> HIDE DEF e
  <2>2. Total(f, m + e) = Total(f, m) + Total(g, e)
    BY <2>1, TotalSplit
  <2> QED BY <2>2 DEF e
<1> QED BY <1>5, <1>6

(* What a store leaves where. *)
LEMMA StoredAt ==
  ASSUME NEW mem, NEW k \in Nat, NEW v, NEW count \in Nat, NEW j \in Limbs
  PROVE  Stored(mem, k, v, count)[j]
           = IF k * L <= j /\ j < k * L + L /\ j < k * L + count THEN v[j - k * L] ELSE mem[j]
<1>1. L \in Nat \ {0} /\ j \in Nat /\ j \in Int /\ Lane = 0 .. L - 1
  BY Parameters, RoomAssumption DEF Limbs
<1>2. j \div L \in Int /\ j % L \in 0 .. L - 1 /\ j = (j \div L) * L + (j % L)
  BY <1>1, DivMod
<1> DEFINE a == k * L
<1>3. a \in Nat
  BY <1>1
<1>4. CASE j \div L = k
  <2>1. j = a + (j % L)
    BY <1>2, <1>4
  <2> HIDE DEF a
  <2>2. a <= j /\ j < a + L /\ j - a = j % L
    BY <1>1, <1>2, <1>3, <2>1
  <2>3. (j % L) \in LimbMask(count) <=> j < a + count
    BY <1>1, <1>2, <1>3, <2>1 DEF LimbMask, FirstLanes
  <2>4. Stored(mem, k, v, count)[j] = IF (j % L) \in LimbMask(count) THEN v[j % L] ELSE mem[j]
    BY <1>4 DEF Stored
  <2> QED BY <2>2, <2>3, <2>4 DEF a
<1>5. CASE j \div L # k
  <2>1. ~(a <= j /\ j < a + L)
    <3> SUFFICES ASSUME a <= j, j < a + L PROVE FALSE
      OBVIOUS
    <3> DEFINE r == j - a
    <3>1. r \in 0 .. L - 1 /\ j = a + r
      <4> HIDE DEF a
      <4> QED BY <1>1, <1>3
    <3>2. k \in Int /\ j = k * L + r
      BY <3>1
    <3> HIDE DEF r
    <3>3. j \div L = k
      BY <1>1, <3>1, <3>2, DivModUnique
    <3> QED BY <1>5, <3>3
  <2>2. Stored(mem, k, v, count)[j] = mem[j]
    BY <1>5 DEF Stored
  <2> QED BY <2>1, <2>2
<1> QED BY <1>4, <1>5

-----------------------------------------------------------------------------
(* The middle products *)

(* What diagonal t takes from each digit of a, .. *)
LowAt(t) == [x \in 0 .. an - 1 |-> (ap[x] * bp[Diagonal(t) - x]) % B]
HighAt(t) == [x \in 0 .. an - 1 |-> (ap[x] * bp[Diagonal(t) - x]) \div B]
(* .. and what limb t of the result holds. *)
HighBelow(t) == IF t > 0 THEN DiagonalHighs(t - 1) ELSE 0
MiddleLimb(t) == (IF t < rn THEN DiagonalLows(t) ELSE 0) + HighBelow(t)

(* A call of a middle product: MiddleInputs. *)
MidShape ==
  /\ an \in Nat \ {0} /\ bn \in Nat /\ an <= bn /\ 2 * an <= H /\ rn < Room
  /\ \A j \in 0 .. bn - 1 : ap[j] \in 0 .. B - 1 /\ bp[j] \in 0 .. B - 1

LEMMA MidSizes ==
  ASSUME MidShape
  PROVE  /\ an \in Nat /\ an > 0 /\ bn \in Nat /\ an <= bn /\ rn \in Nat /\ rn > 0 /\ rn = bn - an + 1
         /\ Room \in Nat /\ rn < Room /\ Limbs = 0 .. Room - 1 /\ L \in Nat /\ L > 0 /\ Lane = 0 .. L - 1
         /\ B \in Nat /\ B >= 2 /\ Width \in Nat /\ Width > 0
BY Parameters, RoomAssumption DEF MidShape, rn, Limbs

(* The halves of a product of digits are digits. *)
LEMMA DigitHalves ==
  ASSUME NEW x \in 0 .. B - 1, NEW y \in 0 .. B - 1
  PROVE  (x * y) % B \in 0 .. B - 1 /\ (x * y) \div B \in 0 .. B - 1
<1>1. B \in Nat \ {0} /\ x \in Nat /\ y \in Nat
  BY Parameters
<1> DEFINE p == x * y
<1>2. p \in Nat /\ p < B * B
  <2>1. x * y <= x * B
    <3>1. x * (B - y) >= 0
      BY <1>1
    <3> QED BY <1>1, <3>1
  <2>2. x * B < B * B
    BY <1>1, MulLt
  <2>3. x * y \in Nat /\ x * B \in Nat /\ B * B \in Nat
    BY <1>1
  <2> QED BY <2>1, <2>2, <2>3
<1> HIDE DEF p
<1>3. p \div B \in Int /\ p % B \in 0 .. B - 1 /\ (p \div B >= B <=> p >= B * B) /\ (p \div B >= 0 <=> p >= 0 * B)
  <2>1. p \in Int /\ B \in Nat /\ 0 \in Nat
    BY <1>1, <1>2
  <2> QED BY <1>1, <1>2, <2>1, DivMod, DivGe
<1>4. ~(p >= B * B) /\ p >= 0 * B
  <2>1. B * B \in Nat /\ 0 * B = 0
    BY <1>1
  <2> QED BY <1>2, <2>1
<1>5. p % B \in 0 .. B - 1 /\ p \div B \in 0 .. B - 1
  BY <1>1, <1>3, <1>4
<1> QED BY <1>5 DEF p

LEMMA DiagonalTerms ==
  ASSUME MidShape, NEW t \in 0 .. rn - 1
  PROVE  /\ \A x \in 0 .. an - 1 : LowAt(t)[x] \in 0 .. B - 1 /\ HighAt(t)[x] \in 0 .. B - 1
         /\ IntLimbs(LowAt(t), an) /\ IntLimbs(HighAt(t), an)
         /\ DiagonalLows(t) = Total(LowAt(t), an) /\ DiagonalHighs(t) = Total(HighAt(t), an)
         /\ DiagonalLows(t) \in 0 .. an * (B - 1) /\ DiagonalHighs(t) \in 0 .. an * (B - 1)
<1>1. an \in Nat /\ bn \in Nat /\ an <= bn /\ rn = bn - an + 1 /\ B \in Nat /\ B >= 2
  BY MidSizes
<1>2. ASSUME NEW x \in 0 .. an - 1
      PROVE  LowAt(t)[x] \in 0 .. B - 1 /\ HighAt(t)[x] \in 0 .. B - 1
  <2> DEFINE j == Diagonal(t) - x
  <2>1. j \in 0 .. bn - 1 /\ x \in 0 .. bn - 1
    BY <1>1 DEF Diagonal
  <2>2. LowAt(t)[x] = (ap[x] * bp[j]) % B /\ HighAt(t)[x] = (ap[x] * bp[j]) \div B
    BY DEF LowAt, HighAt
  <2> HIDE DEF j
  <2>3. ap[x] \in 0 .. B - 1 /\ bp[j] \in 0 .. B - 1
    BY <2>1 DEF MidShape
  <2> QED BY <2>2, <2>3, DigitHalves
<1>3. IntLimbs(LowAt(t), an) /\ IntLimbs(HighAt(t), an)
  BY <1>1, <1>2 DEF IntLimbs
<1>4. DiagonalLows(t) = Total(LowAt(t), an) /\ DiagonalHighs(t) = Total(HighAt(t), an)
  BY DEF DiagonalLows, DiagonalHighs, LowAt, HighAt
<1>5. B - 1 \in Nat
  BY <1>1
<1>6. Total(LowAt(t), an) \in 0 .. an * (B - 1)
  BY <1>1, <1>2, <1>5, TotalBounds
<1>7. Total(HighAt(t), an) \in 0 .. an * (B - 1)
  BY <1>1, <1>2, <1>5, TotalBounds
<1> QED BY <1>2, <1>3, <1>4, <1>6, <1>7

(* No lane overflows. *)
LEMMA LimbFits ==
  ASSUME MidShape, NEW t \in 0 .. rn
  PROVE  /\ t < rn => DiagonalLows(t) \in Nat /\ DiagonalLows(t) < Width
         /\ t < rn => DiagonalHighs(t) \in Nat /\ DiagonalHighs(t) < Width
         /\ HighBelow(t) \in Nat /\ MiddleLimb(t) \in 0 .. Width - 1
<1>1. an \in Nat /\ an > 0 /\ rn \in Nat /\ rn > 0 /\ B \in Nat /\ B >= 2
  BY MidSizes
<1> DEFINE top == an * (B - 1)
<1>2. top \in Nat /\ 2 * top < Width
  <2>1. 2 * an <= H /\ H \in Nat /\ Width = B * H /\ 2 * an \in Nat
    BY <1>1, Parameters DEF MidShape
  <2>2. (2 * an) * B <= H * B
    BY <1>1, <2>1, MulLe
  <2>3. 2 * (an * (B - 1)) = (2 * an) * B - 2 * an /\ an * (B - 1) \in Nat
    <3>1. an * (B - 1) = an * B - an /\ an * (B - 1) \in Nat /\ an * B \in Nat /\ (2 * an) * B = 2 * (an * B)
      BY <1>1
    <3> QED BY <1>1, <3>1
  <2>4. H * B = Width /\ (2 * an) * B \in Nat /\ Width \in Nat
    BY <1>1, <2>1
  <2> QED BY <1>1, <2>2, <2>3, <2>4
<1> HIDE DEF top
<1>3. ASSUME NEW u \in 0 .. rn - 1 PROVE DiagonalLows(u) \in 0 .. top /\ DiagonalHighs(u) \in 0 .. top
  BY DiagonalTerms DEF top
<1>4. t < rn => DiagonalLows(t) \in 0 .. top /\ DiagonalHighs(t) \in 0 .. top
  BY <1>1, <1>3
<1>5. HighBelow(t) \in 0 .. top
  <2>1. t > 0 => t - 1 \in 0 .. rn - 1
    BY <1>1
  <2> QED BY <1>2, <1>3, <2>1 DEF HighBelow
<1>6. Width \in Nat
  BY Parameters
<1> QED BY <1>2, <1>4, <1>5, <1>6 DEF MiddleLimb

(* The sums over the n lowest digits of a, where the lane is a diagonal. *)
LEMMA MidLanes ==
  ASSUME MidShape, vi \in Nat, NEW n \in 0 .. an, NEW l \in Lane, NEW t \in 0 .. rn - 1, t = (vi * L) + l
  PROVE  MidLo(n)[l] = Word(Total(LowAt(t), n)) /\ MidHi(n)[l] = Word(Total(HighAt(t), n))
<1>1. an \in Nat /\ bn \in Nat /\ an <= bn /\ rn = bn - an + 1 /\ n \in Nat /\ L \in Nat /\ Lane = 0 .. L - 1
  BY MidSizes
<1>2. IntLimbs(LowAt(t), n) /\ IntLimbs(HighAt(t), n)
  BY <1>1, DiagonalTerms DEF IntLimbs
<1> DEFINE lows == [x \in 0 .. n - 1 |-> Lo(Facing(x), ap[x])]
           highs == [x \in 0 .. n - 1 |-> Hi(Facing(x), ap[x])]
<1>3. ASSUME NEW x \in 0 .. n - 1 PROVE lows[x][l] = LowAt(t)[x] /\ highs[x][l] = HighAt(t)[x]
  <2> DEFINE a == vi * L  j == Diagonal(t) - x
  <2>1. a \in Nat
    BY <1>1
  <2>2. Facing(x)[l] = bp[(a + (an - 1 - x)) + l]
    BY DEF Facing, At
  <2>3. t = a + l
    OBVIOUS
  <2> HIDE DEF a
  <2>4. (a + (an - 1 - x)) + l = j /\ x \in 0 .. an - 1 /\ x \in 0 .. bn - 1 /\ j \in 0 .. bn - 1
    BY <1>1, <2>1, <2>3 DEF Diagonal
  <2>5. LowAt(t)[x] = (ap[x] * bp[j]) % B /\ HighAt(t)[x] = (ap[x] * bp[j]) \div B
    BY <2>4 DEF LowAt, HighAt
  <2>6. lows[x][l] = (Facing(x)[l] * ap[x]) % B /\ highs[x][l] = (Facing(x)[l] * ap[x]) \div B
    BY DEF Lo, Hi
  <2> HIDE DEF j
  <2>7. ap[x] \in Int /\ bp[j] \in Int
    <3>1. B \in Nat
      BY Parameters
    <3> QED BY <2>4, <3>1 DEF MidShape
  <2>8. bp[j] * ap[x] = ap[x] * bp[j]
    BY <2>7
  <2> HIDE DEF lows, highs
  <2> QED BY <2>2, <2>4, <2>5, <2>6, <2>8
<1> HIDE DEF lows, highs
<1>4. SumOf(lows, n)[l] = Word(Total(LowAt(t), n))
  BY <1>1, <1>2, <1>3, SumLane
<1>5. SumOf(highs, n)[l] = Word(Total(HighAt(t), n))
  BY <1>1, <1>2, <1>3, SumLane
<1> QED BY <1>4, <1>5 DEF MidLo, MidHi, lows, highs

(* Where everything the call reads and keeps is in place. *)
MidState ==
  /\ vi \in Nat /\ DOMAIN rp = Limbs /\ DOMAIN kept = Register
  /\ ~done => vi * L < rn /\ kept[1][L - 1] = HighBelow(vi * L)
  /\ done => vi * L >= rn
  /\ \A j \in Limbs : rp[j] = IF j < (IF done THEN rn + 1 ELSE vi * L) THEN MiddleLimb(j) ELSE Untouched

LEMMA MidPlace ==
  ASSUME MidShape, vi \in Nat
  PROVE  /\ vi * L \in Nat /\ (vi + 1) * L = vi * L + L /\ (vi + 1) * L \in Nat /\ Left = rn - vi * L
         /\ 1 \in Register
<1>1. L \in Nat /\ L > 0 /\ rn \in Nat
  BY MidSizes
<1>2. (vi + 1) * L = vi * L + L /\ vi * L \in Nat
  BY <1>1
<1>3. 1 \in Register
  BY <1>1 DEF Register
<1> QED BY <1>1, <1>2, <1>3 DEF Left

(* All digits of a in a lane. *)
LEMMA MidFull ==
  ASSUME MidShape, vi \in Nat, NEW l \in Lane, vi * L + l < rn
  PROVE  MidLo(an)[l] = DiagonalLows(vi * L + l) /\ MidHi(an)[l] = DiagonalHighs(vi * L + l)
<1> DEFINE t == vi * L + l
<1>1. /\ an \in Nat /\ an \in 0 .. an /\ rn \in Nat /\ l \in Nat /\ vi * L \in Nat /\ Width \in Nat
  BY MidSizes, MidPlace
<1>2. t \in 0 .. rn - 1 /\ t \in 0 .. rn /\ t < rn
  <2> DEFINE a == vi * L
  <2>1. a \in Nat /\ a + l < rn
    BY <1>1
  <2> HIDE DEF a
  <2>2. a + l \in 0 .. rn - 1 /\ a + l \in 0 .. rn /\ a + l < rn
    BY <1>1, <2>1
  <2> QED BY <2>2 DEF a
<1>3. t = (vi * L) + l
  OBVIOUS
<1> HIDE DEF t
<1>4. MidLo(an)[l] = Word(Total(LowAt(t), an)) /\ MidHi(an)[l] = Word(Total(HighAt(t), an))
  BY <1>1, <1>2, <1>3, MidLanes
<1>5. DiagonalLows(t) = Total(LowAt(t), an) /\ DiagonalHighs(t) = Total(HighAt(t), an)
  BY <1>2, DiagonalTerms
<1>6. DiagonalLows(t) \in 0 .. Width - 1 /\ DiagonalHighs(t) \in 0 .. Width - 1
  <2>1. DiagonalLows(t) \in Nat /\ DiagonalLows(t) < Width /\ DiagonalHighs(t) \in Nat /\ DiagonalHighs(t) < Width
    BY <1>2, LimbFits
  <2> QED BY <1>1, <2>1
<1>7. MidLo(an)[l] = DiagonalLows(t) /\ MidHi(an)[l] = DiagonalHighs(t)
  BY <1>4, <1>5, <1>6, SmallWord
<1> QED BY <1>3, <1>7

(* The highs one limb up, the first of them from the vector below. *)
LEMMA AlignedLane ==
  ASSUME MidShape, MidState, ~done, NEW hi, NEW l \in Lane
  PROVE  Align(hi, kept[1], L - 1)[l] = IF l = 0 THEN HighBelow(vi * L) ELSE hi[l - 1]
<1>1. L \in Nat /\ L > 0 /\ l \in 0 .. L - 1
  BY MidSizes
<1>2. Align(hi, kept[1], L - 1)[l] = IF l + (L - 1) < L THEN kept[1][l + (L - 1)] ELSE hi[l + ((L - 1) - L)]
  BY DEF Align
<1>3. l = 0 => l + (L - 1) < L /\ l + (L - 1) = L - 1
  BY <1>1
<1>4. l # 0 => ~(l + (L - 1) < L) /\ l + ((L - 1) - L) = l - 1
  BY <1>1
<1>5. kept[1][L - 1] = HighBelow(vi * L)
  BY DEF MidState
<1> QED BY <1>2, <1>3, <1>4, <1>5

LEMMA AlignedFull ==
  ASSUME MidShape, MidState, ~done, NEW l \in Lane, vi * L + l <= rn
  PROVE  Align(MidHi(an), kept[1], L - 1)[l] = HighBelow(vi * L + l)
<1> DEFINE a == vi * L
<1>1. a \in Nat /\ l \in Nat /\ L \in Nat /\ Lane = 0 .. L - 1 /\ rn \in Nat
  BY MidSizes, MidPlace DEF MidState
<1>2. CASE l = 0
  <2>1. a + l = a
    BY <1>1, <1>2
  <2>2. Align(MidHi(an), kept[1], L - 1)[l] = HighBelow(a)
    BY <1>2, AlignedLane
  <2> QED BY <2>1, <2>2
<1>3. CASE l # 0
  <2>1. l - 1 \in Lane /\ a + (l - 1) < rn /\ (a + l) - 1 = a + (l - 1) /\ a + l > 0 /\ vi \in Nat
    <3>1. a + l <= rn /\ vi \in Nat
      BY DEF MidState
    <3> HIDE DEF a
    <3> QED BY <1>1, <1>3, <3>1
  <2>2. MidHi(an)[l - 1] = DiagonalHighs(a + (l - 1))
    BY <2>1, MidFull
  <2>3. HighBelow(a + l) = DiagonalHighs(a + (l - 1))
    <3> HIDE DEF a
    <3> QED BY <2>1 DEF HighBelow
  <2> QED BY <1>3, <2>2, <2>3, AlignedLane
<1> QED BY <1>2, <1>3

(* What a step has to establish. *)
MidWrote(e) ==
  /\ UNCHANGED <<prog, an, bn, ap, bp>> /\ vi' = vi + 1 /\ DOMAIN rp' = Limbs
  /\ \A j \in Limbs : rp'[j] = IF vi * L <= j /\ j < e THEN MiddleLimb(j) ELSE rp[j]

(* A limb of a full sum. *)
LEMMA MiddleLane ==
  ASSUME MidShape, MidState, ~done, NEW l \in Lane, vi * L + l <= rn
  PROVE  Word(HighBelow(vi * L + l) + (IF l < Left THEN DiagonalLows(vi * L + l) ELSE 0)) = MiddleLimb(vi * L + l)
<1> DEFINE a == vi * L  t == a + l
<1>1. a \in Nat /\ l \in Nat /\ rn \in Nat /\ Left = rn - a /\ t <= rn
  BY MidSizes, MidPlace DEF MidState
<1>2. t \in 0 .. rn /\ (l < Left <=> t < rn)
  <2> HIDE DEF a
  <2> QED BY <1>1
<1> HIDE DEF a, t
<1>3. /\ MiddleLimb(t) \in 0 .. Width - 1 /\ HighBelow(t) \in Nat
      /\ t < rn => DiagonalLows(t) \in Nat
  BY <1>2, LimbFits
<1>4. HighBelow(t) + (IF l < Left THEN DiagonalLows(t) ELSE 0) = MiddleLimb(t)
  BY <1>2, <1>3 DEF MiddleLimb
<1>5. Word(HighBelow(t) + (IF l < Left THEN DiagonalLows(t) ELSE 0)) = MiddleLimb(t)
  BY <1>3, <1>4, SmallWord
<1> QED BY <1>5 DEF a, t

(* A vector that is followed by another one. *)
LEMMA TurnWrites ==
  ASSUME MidShape, MidState, MidTurn
  PROVE  ~done /\ MidWrote((vi + 1) * L) /\ kept'[1][L - 1] = HighBelow((vi + 1) * L) /\ DOMAIN kept' = Register
<1> DEFINE a == vi * L  lo == MidLo(an)  hi == MidHi(an)  sum == Plus(lo, Align(hi, kept[1], L - 1))
<1>1. /\ a \in Nat /\ (vi + 1) * L = a + L /\ 1 \in Register /\ vi \in Nat /\ L \in Nat /\ L > 0 /\ Lane = 0 .. L - 1
      /\ rn \in Nat /\ Limbs = 0 .. Room - 1 /\ Room \in Nat /\ DOMAIN kept = Register /\ Left = rn - a
  BY MidSizes, MidPlace DEF MidState
<1>2. a + L < rn /\ rp' = Stored(rp, vi, sum, L) /\ kept' = [kept EXCEPT ![1] = hi] /\ vi' = vi + 1
      /\ UNCHANGED <<prog, an, bn, ap, bp, done>>
  BY <1>1 DEF MidTurn
<1>3. ~done
  <2>1. done => a >= rn
    BY DEF MidState
  <2> HIDE DEF a
  <2> QED BY <1>1, <1>2, <2>1
<1> HIDE DEF hi, lo
<1>4. ASSUME NEW l \in Lane PROVE sum[l] = MiddleLimb(a + l)
  <2>1. l \in Nat /\ a + l < rn /\ a + l <= rn /\ l < Left
    <3> HIDE DEF a
    <3> QED BY <1>1, <1>2
  <2>2. lo[l] = DiagonalLows(a + l)
    BY <1>1, <2>1, MidFull DEF lo
  <2>3. Align(hi, kept[1], L - 1)[l] = HighBelow(a + l)
    BY <1>3, <2>1, AlignedFull DEF hi
  <2>4. sum[l] = Word(DiagonalLows(a + l) + HighBelow(a + l))
    BY <2>2, <2>3 DEF Plus
  <2>5. Word(HighBelow(a + l) + DiagonalLows(a + l)) = MiddleLimb(a + l)
    BY <1>3, <2>1, MiddleLane
  <2>6. DiagonalLows(a + l) + HighBelow(a + l) = HighBelow(a + l) + DiagonalLows(a + l)
    <3>1. a + l \in 0 .. rn
      <4> HIDE DEF a
      <4> QED BY <1>1, <2>1
    <3>2. DiagonalLows(a + l) \in Nat /\ HighBelow(a + l) \in Nat
      BY <2>1, <3>1, LimbFits
    <3> QED BY <3>2
  <2> QED BY <2>4, <2>5, <2>6
<1> HIDE DEF sum
<1>5. ASSUME NEW j \in Limbs
      PROVE  rp'[j] = IF a <= j /\ j < a + L THEN MiddleLimb(j) ELSE rp[j]
  <2>1. rp'[j] = IF a <= j /\ j < a + L /\ j < a + L THEN sum[j - a] ELSE rp[j]
    BY <1>1, <1>2, StoredAt
  <2>2. ASSUME a <= j, j < a + L PROVE sum[j - a] = MiddleLimb(j)
    <3> DEFINE l == j - a
    <3>1. l \in Lane /\ a + l = j
      <4> HIDE DEF a
      <4> QED BY <1>1, <2>2
    <3> HIDE DEF l, a
    <3>2. sum[l] = MiddleLimb(j)
      BY <1>4, <3>1 DEF a
    <3> QED BY <3>2 DEF l
  <2> QED BY <2>1, <2>2
<1>6. DOMAIN rp' = Limbs
  BY <1>2 DEF Stored
<1>7. kept'[1][L - 1] = HighBelow(a + L)
  <2>1. L - 1 \in Lane /\ a + (L - 1) < rn /\ (a + L) - 1 = a + (L - 1) /\ a + L > 0
    <3> HIDE DEF a
    <3> QED BY <1>1, <1>2
  <2>2. kept'[1] = hi
    BY <1>1, <1>2
  <2>3. hi[L - 1] = DiagonalHighs(a + (L - 1))
    BY <1>1, <2>1, MidFull DEF hi
  <2>4. HighBelow(a + L) = DiagonalHighs(a + (L - 1))
    <3> HIDE DEF a
    <3> QED BY <2>1 DEF HighBelow
  <2> QED BY <2>2, <2>3, <2>4
<1>8. DOMAIN kept' = Register
  BY <1>1, <1>2
<1> QED BY <1>1, <1>2, <1>3, <1>5, <1>6, <1>7, <1>8 DEF MidWrote

(* The last vector, whatever way its lanes are summed. *)
LEMMA LastWrites ==
  ASSUME MidShape, MidState, ~done, (vi + 1) * L >= rn, NEW lo, NEW hi1, NEW hi, DOMAIN lo = Lane,
         \A l \in Lane : vi * L + l <= rn
            => Word(hi1[l] + (IF l < Left THEN lo[l] ELSE 0)) = MiddleLimb(vi * L + l),
         Left = L => hi[L - 1] = MiddleLimb(rn),
         rp' = LastStored(lo, hi1, hi), vi' = vi + 1, UNCHANGED <<prog, an, bn, ap, bp>>
  PROVE  MidWrote(rn + 1)
<1> DEFINE a == vi * L  part == Plus(hi1, Masked(lo, LowMask(Left)))  first == Stored(rp, vi, part, Left + 1)
<1>1. /\ a \in Nat /\ (vi + 1) * L = a + L /\ vi \in Nat /\ L \in Nat /\ L > 0 /\ Lane = 0 .. L - 1
      /\ rn \in Nat /\ rn < Room /\ Limbs = 0 .. Room - 1 /\ Room \in Nat /\ Left = rn - a
      /\ DOMAIN rp = Limbs
  BY MidSizes, MidPlace DEF MidState
<1>2. a < rn /\ a + L >= rn
  BY <1>1 DEF MidState
<1>3. Left \in Nat /\ Left > 0 /\ Left <= L /\ Left + 1 \in Nat
  <2> HIDE DEF a
  <2> QED BY <1>1, <1>2
<1>4. ASSUME NEW l \in Lane, a + l <= rn PROVE part[l] = MiddleLimb(a + l)
  <2>1. l \in LowMask(Left) <=> l < Left
    BY <1>1, <1>3 DEF LowMask, FirstLanes
  <2>2. Masked(lo, LowMask(Left))[l] = IF l < Left THEN lo[l] ELSE 0
    BY <2>1 DEF Masked
  <2>3. part[l] = Word(hi1[l] + (IF l < Left THEN lo[l] ELSE 0))
    BY <2>2 DEF Plus
  <2> QED BY <1>4, <2>3
<1> HIDE DEF part
<1>5. ASSUME NEW j \in Limbs
      PROVE  first[j] = IF a <= j /\ j < a + L /\ j < rn + 1 THEN MiddleLimb(j) ELSE rp[j]
  <2>1. first[j] = IF a <= j /\ j < a + L /\ j < a + (Left + 1) THEN part[j - a] ELSE rp[j]
    BY <1>1, <1>3, StoredAt
  <2>2. a + (Left + 1) = rn + 1
    <3> HIDE DEF a
    <3> QED BY <1>1
  <2>3. ASSUME a <= j, j < a + L, j < rn + 1 PROVE part[j - a] = MiddleLimb(j)
    <3> DEFINE l == j - a
    <3>1. l \in Lane /\ a + l = j /\ a + l <= rn
      <4> HIDE DEF a
      <4> QED BY <1>1, <2>3
    <3> HIDE DEF l, a
    <3>2. part[l] = MiddleLimb(j)
      BY <1>4, <3>1 DEF a
    <3> QED BY <3>2 DEF l
  <2> QED BY <2>1, <2>2, <2>3
<1>6. DOMAIN first = Limbs
  BY DEF Stored
<1>7. rp' = IF Left = L THEN [first EXCEPT ![(vi + 1) * L] = hi[L - 1]] ELSE first
  BY DEF LastStored, part
<1> HIDE DEF first
<1>8. ASSUME NEW j \in Limbs PROVE rp'[j] = IF a <= j /\ j < rn + 1 THEN MiddleLimb(j) ELSE rp[j]
  <2> HIDE DEF a
  <2>1. CASE Left = L
    <3>1. rn = a + L /\ rn \in Limbs
      BY <1>1, <2>1
    <3>2. rp'[j] = IF j = rn THEN MiddleLimb(rn) ELSE first[j]
      BY <1>1, <1>6, <1>7, <2>1, <3>1
    <3> QED BY <1>1, <1>5, <3>1, <3>2
  <2>2. CASE Left # L
    <3>1. rn < a + L
      BY <1>1, <1>3, <2>2
    <3> QED BY <1>1, <1>5, <1>7, <2>2, <3>1
  <2> QED BY <2>1, <2>2
<1>9. DOMAIN rp' = Limbs
  BY <1>6, <1>7
<1> QED BY <1>8, <1>9 DEF MidWrote

(* The last vector through the diagonals alone. *)
LEMMA EndWrites ==
  ASSUME MidShape, MidState, MidEnd
  PROVE  ~done /\ MidWrote(rn + 1)
<1> DEFINE a == vi * L  lo == MidLo(an)  hi == MidHi(an)  hi1 == Align(hi, kept[1], L - 1)
<1>1. /\ a \in Nat /\ L \in Nat /\ L > 0 /\ Lane = 0 .. L - 1 /\ vi \in Nat /\ rn \in Nat /\ Left = rn - a /\ an \in Nat
  BY MidSizes, MidPlace DEF MidState
<1>2. ~done /\ (vi + 1) * L >= rn /\ rp' = LastStored(lo, hi1, hi) /\ vi' = vi + 1
      /\ UNCHANGED <<prog, an, bn, ap, bp>>
  BY DEF MidEnd
<1>3. DOMAIN lo = Lane
  BY <1>1, SumIsVector DEF MidLo
<1> HIDE DEF lo, hi
<1>4. ASSUME NEW l \in Lane, a + l <= rn
      PROVE  Word(hi1[l] + (IF l < Left THEN lo[l] ELSE 0)) = MiddleLimb(a + l)
  <2>1. hi1[l] = HighBelow(a + l)
    BY <1>2, <1>4, AlignedFull DEF hi
  <2>2. l < Left => lo[l] = DiagonalLows(a + l)
    <3>1. l < Left => a + l < rn
      <4> HIDE DEF a
      <4> QED BY <1>1
    <3> QED BY <1>1, <3>1, MidFull DEF lo
  <2> HIDE DEF hi1
  <2>3. Word(HighBelow(a + l) + (IF l < Left THEN DiagonalLows(a + l) ELSE 0)) = MiddleLimb(a + l)
    BY <1>2, <1>4, MiddleLane
  <2> QED BY <2>1, <2>2, <2>3
<1>5. Left = L => hi[L - 1] = MiddleLimb(rn)
  <2> SUFFICES ASSUME Left = L PROVE hi[L - 1] = MiddleLimb(rn)
    OBVIOUS
  <2>1. L - 1 \in Lane /\ a + (L - 1) < rn /\ a + (L - 1) = rn - 1 /\ rn > 0 /\ rn \in 0 .. rn
    <3> HIDE DEF a
    <3> QED BY <1>1
  <2>2. hi[L - 1] = DiagonalHighs(rn - 1)
    BY <1>1, <2>1, MidFull DEF hi
  <2>3. HighBelow(rn) \in Nat /\ HighBelow(rn) = DiagonalHighs(rn - 1)
    BY <2>1, LimbFits DEF HighBelow
  <2>4. ~(rn < rn)
    BY <1>1
  <2> QED BY <2>2, <2>3, <2>4 DEF MiddleLimb
<1> HIDE DEF hi1
<1>6. MidWrote(rn + 1)
  BY <1>2, <1>3, <1>4, <1>5, LastWrites
<1> QED BY <1>2, <1>6

(* The transposed tail: the vectors of a above its an % L lowest digits. *)
Rest == an % L
Wholes == an \div L
Crossed(e, k) ==
  [l \in Lane |-> Reversed(Rest + k * L)[l] * At(bp, (vi * L) + (an - L - (Rest + k * L)) + e)[l]]
LowsAcross(e) == [k \in 0 .. Wholes - 1 |-> Across([l \in Lane |-> Crossed(e, k)[l] % B])]
HighsAcross(e) == [k \in 0 .. Wholes - 1 |-> Across([l \in Lane |-> Crossed(e, k)[l] \div B])]

LEMMA RestWholes ==
  ASSUME MidShape
  PROVE  /\ Rest \in Nat /\ Rest <= an /\ Wholes \in Nat /\ an = Rest + Wholes * L
         /\ \A k \in 0 .. Wholes - 1 : k * L \in Nat /\ Rest + k * L + L <= an
<1>1. an \in Nat /\ an \in Int /\ L \in Nat \ {0} /\ L \in Nat
  BY MidSizes
<1>2. Wholes \in Int /\ Rest \in 0 .. L - 1 /\ an = Wholes * L + Rest
  BY <1>1, DivMod DEF Rest, Wholes
<1>3. Wholes \in Nat
  <2>1. Wholes >= 0 <=> an >= 0 * L
    BY <1>1, DivGe DEF Wholes
  <2>2. 0 * L = 0
    BY <1>1
  <2> QED BY <1>1, <1>2, <2>1, <2>2
<1>4. Wholes * L \in Nat /\ Rest \in Nat
  BY <1>1, <1>2, <1>3
<1>5. ASSUME NEW k \in 0 .. Wholes - 1 PROVE k * L \in Nat /\ Rest + k * L + L <= an
  <2>1. k + 1 \in Int /\ Wholes \in Int /\ k + 1 <= Wholes /\ k \in Nat
    BY <1>3
  <2>2. (k + 1) * L <= Wholes * L
    BY <1>1, <2>1, MulLe
  <2>3. (k + 1) * L = k * L + L /\ k * L \in Nat
    BY <1>1, <2>1
  <2> QED BY <1>1, <1>2, <1>4, <2>2, <2>3
<1> QED BY <1>1, <1>2, <1>3, <1>4, <1>5

(* A lane of a reversed vector meets the digit of b that diagonal t takes. *)
LEMMA CrossedLane ==
  ASSUME MidShape, vi \in Nat, NEW e \in Int, NEW t \in 0 .. rn - 1, t = vi * L + e,
         NEW k \in 0 .. Wholes - 1, NEW l \in Lane
  PROVE  LET x == (Rest + k * L) + (L - 1 - l)
         IN  /\ LowAt(t)[x] = Crossed(e, k)[l] % B
             /\ HighAt(t)[x] = Crossed(e, k)[l] \div B
<1> DEFINE a == vi * L  p == Rest + k * L  x == p + (L - 1 - l)
<1>1. /\ a \in Nat /\ an \in Nat /\ L \in Nat /\ Lane = 0 .. L - 1 /\ l \in 0 .. L - 1 /\ t = a + e
      /\ p \in Nat /\ p + L <= an
  <2>1. Rest \in Nat /\ k * L \in Nat /\ Rest + k * L + L <= an
    BY RestWholes
  <2>2. p \in Nat /\ p + L <= an
    BY <2>1
  <2> QED BY <2>2, MidSizes, MidPlace
<1>2. Reversed(p)[l] = ap[p + (L - 1 - l)]
  BY DEF Reversed
<1>3. At(bp, a + (an - L - p) + e)[l] = bp[(a + (an - L - p) + e) + l]
  BY DEF At
<1>4. Crossed(e, k)[l] = Reversed(p)[l] * At(bp, a + (an - L - p) + e)[l]
  BY DEF Crossed
<1> HIDE DEF a, p
<1>5. x \in 0 .. an - 1 /\ (a + (an - L - p) + e) + l = Diagonal(t) - x
  BY <1>1 DEF Diagonal
<1>6. Crossed(e, k)[l] = ap[x] * bp[Diagonal(t) - x]
  BY <1>2, <1>3, <1>4, <1>5
<1> HIDE DEF x
<1>7. LowAt(t)[x] = Crossed(e, k)[l] % B /\ HighAt(t)[x] = Crossed(e, k)[l] \div B
  BY <1>5, <1>6 DEF LowAt, HighAt
<1> QED BY <1>7 DEF x, p

LEMMA CrossedSums ==
  ASSUME MidShape, vi \in Nat, NEW e \in Int, NEW t \in 0 .. rn - 1, t = vi * L + e
  PROVE  /\ IntLimbs(LowsAcross(e), Wholes) /\ IntLimbs(HighsAcross(e), Wholes)
         /\ Total(LowAt(t), an) = Total(LowAt(t), Rest) + Total(LowsAcross(e), Wholes)
         /\ Total(HighAt(t), an) = Total(HighAt(t), Rest) + Total(HighsAcross(e), Wholes)
<1>1. /\ an \in Nat /\ L \in Nat /\ Lane = 0 .. L - 1 /\ Rest \in Nat /\ Wholes \in Nat /\ an = Rest + Wholes * L
      /\ IntLimbs(LowAt(t), an) /\ IntLimbs(HighAt(t), an)
  BY MidSizes, RestWholes, DiagonalTerms
<1> DEFINE lows == [k \in 0 .. Wholes - 1 |-> [l \in Lane |-> Crossed(e, k)[l] % B]]
           highs == [k \in 0 .. Wholes - 1 |-> [l \in Lane |-> Crossed(e, k)[l] \div B]]
<1>2. ASSUME NEW k \in 0 .. Wholes - 1
      PROVE  /\ LowsAcross(e)[k] = Total(lows[k], L)
             /\ \A l \in 0 .. L - 1 : lows[k][l] = LowAt(t)[(Rest + k * L) + (L - 1 - l)]
             /\ HighsAcross(e)[k] = Total(highs[k], L)
             /\ \A l \in 0 .. L - 1 : highs[k][l] = HighAt(t)[(Rest + k * L) + (L - 1 - l)]
  <2>1. LowsAcross(e)[k] = Total(lows[k], L) /\ HighsAcross(e)[k] = Total(highs[k], L)
    BY DEF LowsAcross, HighsAcross, Across
  <2>2. ASSUME NEW l \in 0 .. L - 1
        PROVE  /\ lows[k][l] = LowAt(t)[(Rest + k * L) + (L - 1 - l)]
               /\ highs[k][l] = HighAt(t)[(Rest + k * L) + (L - 1 - l)]
    <3>1. l \in Lane
      BY <1>1
    <3>2. lows[k][l] = Crossed(e, k)[l] % B /\ highs[k][l] = Crossed(e, k)[l] \div B
      BY <3>1
    <3> HIDE DEF lows, highs
    <3> QED BY <3>1, <3>2, CrossedLane
  <2> QED BY <2>1, <2>2
<1> HIDE DEF lows, highs
<1>3. IntLimbs(LowsAcross(e), Wholes) /\ Total(LowAt(t), an) = Total(LowAt(t), Rest) + Total(LowsAcross(e), Wholes)
  <2> DEFINE f == LowAt(t)  s == LowsAcross(e)
  <2>1. IntLimbs(f, an)
    BY <1>1
  <2>2. ReversedBlocks(s, lows, f, Rest, L, Wholes)
    BY <1>2 DEF ReversedBlocks
  <2> HIDE DEF f, s
  <2>3. IntLimbs(s, Wholes) /\ Total(f, an) = Total(f, Rest) + Total(s, Wholes)
    BY <1>1, <2>1, <2>2, TailSum
  <2> QED BY <2>3 DEF f, s
<1>4. IntLimbs(HighsAcross(e), Wholes) /\ Total(HighAt(t), an) = Total(HighAt(t), Rest) + Total(HighsAcross(e), Wholes)
  <2> DEFINE f == HighAt(t)  s == HighsAcross(e)
  <2>1. IntLimbs(f, an)
    BY <1>1
  <2>2. ReversedBlocks(s, highs, f, Rest, L, Wholes)
    BY <1>2 DEF ReversedBlocks
  <2> HIDE DEF f, s
  <2>3. IntLimbs(s, Wholes) /\ Total(f, an) = Total(f, Rest) + Total(s, Wholes)
    BY <1>1, <2>1, <2>2, TailSum
  <2> QED BY <2>3 DEF f, s
<1> QED BY <1>3, <1>4

(* What the transposed vectors add to a lane. *)
TailLows(l) == IF l < Left THEN Total(LowAt(vi * L + l), an) - Total(LowAt(vi * L + l), Rest) ELSE 0
TailHighs(l) ==
  IF 1 <= l /\ l <= Left
  THEN Total(HighAt(vi * L + (l - 1)), an) - Total(HighAt(vi * L + (l - 1)), Rest) ELSE 0

LEMMA TailLane ==
  ASSUME MidShape, vi \in Nat, NEW l \in Lane
  PROVE  /\ TailLows(l) \in Int /\ TailHighs(l) \in Int
         /\ SumOf([k \in 0 .. Wholes - 1 |-> Vertical(Rest + k * L)], Wholes)[l] = Word(TailLows(l) + TailHighs(l))
<1> DEFINE a == vi * L
           lows == [k \in 0 .. Wholes - 1 |-> IF l < Left THEN LowsAcross(l)[k] ELSE 0]
           highs == [k \in 0 .. Wholes - 1 |-> IF 1 <= l /\ l <= Left THEN HighsAcross(l - 1)[k] ELSE 0]
           both == [k \in 0 .. Wholes - 1 |-> lows[k] + highs[k]]
           v == [k \in 0 .. Wholes - 1 |-> Vertical(Rest + k * L)]
<1>1. /\ a \in Nat /\ an \in Nat /\ L \in Nat /\ Lane = 0 .. L - 1 /\ l \in Nat /\ l \in Int /\ l - 1 \in Int
      /\ Left = rn - a /\ rn \in Nat
      /\ Rest \in Nat /\ Rest <= an /\ Wholes \in Nat /\ \A k \in 0 .. Wholes - 1 : 0 \in 0 .. 0
  BY SMTT(60), MidSizes, MidPlace, RestWholes
<1>2. l < Left => a + l \in 0 .. rn - 1
  <2> HIDE DEF a
  <2> QED BY <1>1
<1>3. 1 <= l /\ l <= Left => a + (l - 1) \in 0 .. rn - 1
  <2> HIDE DEF a
  <2> QED BY <1>1
<1>4. Total([k \in 0 .. Wholes - 1 |-> 0], Wholes) = 0 /\ IntLimbs([k \in 0 .. Wholes - 1 |-> 0], Wholes)
  <2> DEFINE z == [k \in 0 .. Wholes - 1 |-> 0]
  <2>1. \A k \in 0 .. Wholes - 1 : z[k] \in 0 .. 0 /\ z[k] \in Int
    OBVIOUS
  <2> HIDE DEF z
  <2>2. Total(z, Wholes) \in 0 .. Wholes * 0
    BY <1>1, <2>1, TotalBounds
  <2>3. Wholes * 0 = 0
    BY <1>1
  <2>4. Total(z, Wholes) = 0 /\ IntLimbs(z, Wholes)
    BY <2>1, <2>2, <2>3 DEF IntLimbs
  <2> QED BY <2>4 DEF z
<1>5. IntLimbs(lows, Wholes) /\ Total(lows, Wholes) = TailLows(l) /\ TailLows(l) \in Int
  <2>1. CASE l < Left
    <3> DEFINE t == a + l
    <3>1. t \in 0 .. rn - 1 /\ t = vi * L + l
      BY <1>2, <2>1
    <3> HIDE DEF t
    <3>2. IntLimbs(LowsAcross(l), Wholes) /\ Total(LowAt(t), an) = Total(LowAt(t), Rest) + Total(LowsAcross(l), Wholes)
      BY <1>1, <3>1, CrossedSums
    <3>3. IntLimbs(LowAt(t), an)
      BY <3>1, DiagonalTerms
    <3>4. Total(LowAt(t), an) \in Int /\ Total(LowAt(t), Rest) \in Int /\ Total(LowsAcross(l), Wholes) \in Int
      BY <1>1, <3>2, <3>3, TotalSteps
    <3>5. \A k \in 0 .. Wholes - 1 : lows[k] = LowsAcross(l)[k]
      BY <2>1
    <3>6. TailLows(l) = Total(LowAt(t), an) - Total(LowAt(t), Rest)
      BY <2>1, <3>1 DEF TailLows
    <3> HIDE DEF lows
    <3>7. Total(lows, Wholes) = Total(LowsAcross(l), Wholes) /\ IntLimbs(lows, Wholes)
      BY <1>1, <3>2, <3>5, TotalOfSame DEF IntLimbs
    <3> QED BY <3>2, <3>4, <3>6, <3>7
  <2>2. CASE ~(l < Left)
    <3>1. lows = [k \in 0 .. Wholes - 1 |-> 0] /\ TailLows(l) = 0
      BY <2>2 DEF TailLows
    <3> HIDE DEF lows
    <3> QED BY <1>4, <3>1
  <2> QED BY <2>1, <2>2
<1>6. IntLimbs(highs, Wholes) /\ Total(highs, Wholes) = TailHighs(l) /\ TailHighs(l) \in Int
  <2>1. CASE 1 <= l /\ l <= Left
    <3> DEFINE e == l - 1  t == a + e
    <3>1. t \in 0 .. rn - 1 /\ t = vi * L + e /\ e \in Int
      BY <1>1, <1>3, <2>1
    <3>5. \A k \in 0 .. Wholes - 1 : highs[k] = HighsAcross(e)[k]
      BY <2>1
    <3>6. TailHighs(l) = Total(HighAt(t), an) - Total(HighAt(t), Rest)
      BY <2>1, <3>1 DEF TailHighs
    <3> HIDE DEF t, e
    <3>2. IntLimbs(HighsAcross(e), Wholes) /\ Total(HighAt(t), an) = Total(HighAt(t), Rest) + Total(HighsAcross(e), Wholes)
      BY <1>1, <3>1, CrossedSums
    <3>3. IntLimbs(HighAt(t), an)
      BY <3>1, DiagonalTerms
    <3>4. Total(HighAt(t), an) \in Int /\ Total(HighAt(t), Rest) \in Int /\ Total(HighsAcross(e), Wholes) \in Int
      BY <1>1, <3>2, <3>3, TotalSteps
    <3> HIDE DEF highs
    <3>7. Total(highs, Wholes) = Total(HighsAcross(e), Wholes) /\ IntLimbs(highs, Wholes)
      BY <1>1, <3>2, <3>5, TotalOfSame DEF IntLimbs
    <3> QED BY <3>2, <3>4, <3>6, <3>7
  <2>2. CASE ~(1 <= l /\ l <= Left)
    <3>1. highs = [k \in 0 .. Wholes - 1 |-> 0] /\ TailHighs(l) = 0
      BY <2>2 DEF TailHighs
    <3> HIDE DEF highs
    <3> QED BY <1>4, <3>1
  <2> QED BY <2>1, <2>2
<1>7. ASSUME NEW k \in 0 .. Wholes - 1 PROVE v[k][l] = both[k]
  <2>1. v[k][l] = Vertical(Rest + k * L)[l] /\ both[k] = lows[k] + highs[k]
    OBVIOUS
  <2>2. lows[k] = (IF l < Left THEN LowsAcross(l)[k] ELSE 0)
        /\ highs[k] = (IF 1 <= l /\ l <= Left THEN HighsAcross(l - 1)[k] ELSE 0)
    OBVIOUS
  <2> HIDE DEF v, both, lows, highs
  <2>3. Vertical(Rest + k * L)[l]
          = (IF l < Left THEN LowsAcross(l)[k] ELSE 0)
              + (IF 1 <= l /\ l <= Left THEN HighsAcross(l - 1)[k] ELSE 0)
    BY DEF Vertical, LowsAcross, HighsAcross, Crossed
  <2> QED BY <2>1, <2>2, <2>3
<1>8. \A k \in 0 .. Wholes - 1 : both[k] = lows[k] + highs[k]
  OBVIOUS
<1> HIDE DEF v, both, lows, highs
<1>9. IntLimbs(both, Wholes) /\ Total(both, Wholes) = Total(lows, Wholes) + Total(highs, Wholes)
  <2>1. IntLimbs(lows, Wholes) /\ IntLimbs(highs, Wholes)
    BY <1>5, <1>6
  <2>2. IntLimbs(both, Wholes)
    BY <1>8, <2>1 DEF IntLimbs
  <2>3. Total(both, Wholes) = Total(lows, Wholes) + Total(highs, Wholes)
    BY <1>1, <1>8, <2>1, TotalAdds
  <2> QED BY <2>2, <2>3
<1>10. SumOf(v, Wholes)[l] = Word(Total(both, Wholes))
  BY <1>1, <1>7, <1>9, SumLane
<1> QED BY <1>5, <1>6, <1>9, <1>10 DEF v

(* The last vector, its upper digits of a transposed. *)
LEMMA VerticalWrites ==
  ASSUME MidShape, MidState, VerticalEnd
  PROVE  ~done /\ MidWrote(rn + 1)
<1> DEFINE a == vi * L  lo == MidLo(Rest)  hi == MidHi(Rest)  aligned == Align(hi, kept[1], L - 1)
           sums == SumOf([k \in 0 .. Wholes - 1 |-> Vertical(Rest + k * L)], Wholes)
           hi1 == Plus(aligned, sums)
<1>1. /\ a \in Nat /\ L \in Nat /\ L > 0 /\ Lane = 0 .. L - 1 /\ vi \in Nat /\ rn \in Nat /\ Left = rn - a
      /\ an \in Nat /\ Rest \in Nat /\ Rest \in 0 .. an /\ an \in 0 .. an /\ (vi + 1) * L = a + L /\ (vi + 1) * L \in Nat
  BY MidSizes, MidPlace, RestWholes DEF MidState
<1>2. ~done /\ (vi + 1) * L > rn /\ rp' = LastStored(lo, hi1, hi) /\ vi' = vi + 1
      /\ UNCHANGED <<prog, an, bn, ap, bp>>
  BY DEF VerticalEnd, Rest, Wholes
<1>3. DOMAIN lo = Lane
  BY <1>1, SumIsVector DEF MidLo
<1>4. Left # L /\ (vi + 1) * L >= rn
  <2> HIDE DEF a
  <2> QED BY <1>1, <1>2
<1> HIDE DEF lo, hi, sums
<1>5. ASSUME NEW l \in Lane, a + l <= rn
      PROVE  Word(hi1[l] + (IF l < Left THEN lo[l] ELSE 0)) = MiddleLimb(a + l)
  <2> DEFINE t == a + l
             lowRest == IF l < Left THEN Total(LowAt(t), Rest) ELSE 0
             highRest == IF l = 0 THEN HighBelow(a) ELSE Total(HighAt(a + (l - 1)), Rest)
             tail == TailLows(l) + TailHighs(l)
  <2>1. /\ l \in Nat /\ t \in 0 .. rn /\ (l < Left => t \in 0 .. rn - 1) /\ (l < Left <=> t < rn)
        /\ (l # 0 => l - 1 \in Lane /\ 1 <= l /\ l <= Left /\ a + (l - 1) \in 0 .. rn - 1 /\ t - 1 = a + (l - 1) /\ t > 0)
        /\ (l = 0 => t = a /\ ~(1 <= l))
        /\ a \in 0 .. rn
    <3> HIDE DEF a
    <3> QED BY <1>1, <1>5
  <2>2. TailLows(l) \in Int /\ TailHighs(l) \in Int /\ sums[l] = Word(tail)
    BY <1>1, TailLane DEF sums
  <2>3. lowRest \in Int /\ (IF l < Left THEN lo[l] ELSE 0) = Word(lowRest)
    <3>1. CASE l < Left
      <4>1. IntLimbs(LowAt(t), an) /\ t \in 0 .. rn - 1 /\ t = (vi * L) + l
        BY <2>1, <3>1, DiagonalTerms
      <4>2. lo[l] = Word(Total(LowAt(t), Rest))
        BY <1>1, <4>1, MidLanes DEF lo
      <4>3. Total(LowAt(t), Rest) \in Int
        BY <1>1, <4>1, TotalSteps
      <4> QED BY <3>1, <4>2, <4>3
    <3>2. CASE ~(l < Left)
      <4>1. 0 \in 0 .. Width - 1
        BY FullWord
      <4>2. Word(0) = 0
        BY <4>1, SmallWord
      <4> QED BY <3>2, <4>2
    <3> QED BY <3>1, <3>2
  <2>4. highRest \in Int /\ aligned[l] = Word(highRest)
    <3>1. CASE l = 0
      <4>1. HighBelow(a) \in Nat /\ aligned[l] = HighBelow(a)
        BY <1>2, <2>1, <3>1, AlignedLane, LimbFits
      <4>2. HighBelow(a) \in 0 .. Width - 1
        <5>1. HighBelow(a) < Width
          <6>1. a > 0 => a - 1 \in 0 .. rn - 1 /\ a - 1 < rn
            <7> HIDE DEF a
            <7> QED BY <1>1, <2>1
          <6>2. ASSUME NEW u \in 0 .. rn - 1 PROVE DiagonalHighs(u) < Width
            <7>1. u \in 0 .. rn /\ u < rn
              BY <1>1
            <7> QED BY <7>1, LimbFits
          <6>3. Width > 0
            BY FullWord
          <6> QED BY <6>1, <6>2, <6>3 DEF HighBelow
        <5> QED BY <4>1, <5>1, FullWord
      <4> QED BY <3>1, <4>1, <4>2, SmallWord
    <3>2. CASE l # 0
      <4> DEFINE u == a + (l - 1)
      <4>1. u \in 0 .. rn - 1 /\ u = (vi * L) + (l - 1) /\ l - 1 \in Lane
        BY <2>1, <3>2
      <4> HIDE DEF u
      <4>2. aligned[l] = hi[l - 1]
        BY <1>2, <3>2, AlignedLane
      <4>3. hi[l - 1] = Word(Total(HighAt(u), Rest))
        BY <1>1, <4>1, MidLanes DEF hi
      <4>4. Total(HighAt(u), Rest) \in Int
        <5>1. IntLimbs(HighAt(u), an)
          BY <4>1, DiagonalTerms
        <5> QED BY <1>1, <5>1, TotalSteps
      <4> QED BY <3>2, <4>2, <4>3, <4>4 DEF u
    <3> QED BY <3>1, <3>2
  <2> HIDE DEF aligned
  <2>5. hi1[l] = Word(Word(highRest) + Word(tail))
    BY <2>2, <2>4 DEF Plus
  <2>6. lowRest + TailLows(l) = IF l < Left THEN DiagonalLows(t) ELSE 0
    <3>1. CASE l < Left
      <4>1. t \in 0 .. rn - 1
        BY <2>1, <3>1
      <4>2. IntLimbs(LowAt(t), an) /\ DiagonalLows(t) = Total(LowAt(t), an)
        BY <4>1, DiagonalTerms
      <4>3. Total(LowAt(t), an) \in Int /\ Total(LowAt(t), Rest) \in Int
        BY <1>1, <4>2, TotalSteps
      <4>4. TailLows(l) = Total(LowAt(t), an) - Total(LowAt(t), Rest)
        BY <3>1 DEF TailLows
      <4> QED BY <3>1, <4>2, <4>3, <4>4
    <3>2. CASE ~(l < Left)
      BY <3>2 DEF TailLows
    <3> QED BY <3>1, <3>2
  <2>7. highRest + TailHighs(l) = HighBelow(t)
    <3>1. CASE l = 0
      <4>1. TailHighs(l) = 0 /\ HighBelow(a) \in Nat
        BY <2>1, <3>1, LimbFits DEF TailHighs
      <4> QED BY <2>1, <3>1, <4>1
    <3>2. CASE l # 0
      <4> DEFINE u == a + (l - 1)
      <4>1. u \in 0 .. rn - 1 /\ t - 1 = u /\ t > 0
        BY <2>1, <3>2
      <4>2. TailHighs(l) = Total(HighAt(u), an) - Total(HighAt(u), Rest)
        BY <2>1, <3>2 DEF TailHighs
      <4>3. highRest = Total(HighAt(u), Rest)
        BY <3>2
      <4> HIDE DEF u, t, highRest
      <4>4. IntLimbs(HighAt(u), an) /\ DiagonalHighs(u) = Total(HighAt(u), an)
        BY <4>1, DiagonalTerms
      <4>5. Total(HighAt(u), an) \in Int /\ Total(HighAt(u), Rest) \in Int
        BY <1>1, <4>4, TotalSteps
      <4>6. HighBelow(t) = DiagonalHighs(u)
        BY <4>1 DEF HighBelow
      <4> QED BY <4>2, <4>3, <4>4, <4>5, <4>6
    <3> QED BY <3>1, <3>2
  <2>8. Word(HighBelow(t) + (IF l < Left THEN DiagonalLows(t) ELSE 0)) = MiddleLimb(t)
    BY <1>2, <1>5, MiddleLane
  <2> HIDE DEF t, lowRest, highRest, hi1
  <2>9. tail \in Int /\ highRest + tail \in Int /\ (highRest + tail) + lowRest = (highRest + TailHighs(l)) + (lowRest + TailLows(l))
    BY <2>2, <2>3, <2>4
  <2> HIDE DEF tail
  <2>10. hi1[l] = Word(highRest + tail)
    <3>1. Word(highRest) \in Int /\ Word(Word(highRest) + Word(tail)) = Word(Word(highRest) + tail)
      <4>1. Word(highRest) \in Int
        BY <2>4, <2>9, WordOfWord
      <4> QED BY <2>9, <4>1, WordOfSum
    <3>2. Word(Word(highRest) + tail) = Word(highRest + tail)
      BY <2>4, <2>9, WordOfWord
    <3> QED BY <2>5, <3>1, <3>2
  <2>11. Word(hi1[l] + Word(lowRest)) = Word((highRest + tail) + lowRest)
    <3> DEFINE s == highRest + tail
    <3>1. s \in Int /\ hi1[l] = Word(s)
      BY <2>9, <2>10
    <3> HIDE DEF s
    <3>2. Word(s) \in Int /\ Word(Word(s) + Word(lowRest)) = Word(Word(s) + lowRest)
      <4>1. Word(s) \in Int
        BY <2>3, <3>1, WordOfWord
      <4> QED BY <2>3, <4>1, WordOfSum
    <3>3. Word(Word(s) + lowRest) = Word(s + lowRest)
      BY <2>3, <3>1, WordOfWord
    <3>4. Word(hi1[l] + Word(lowRest)) = Word(s + lowRest)
      BY <3>1, <3>2, <3>3
    <3> QED BY <3>4 DEF s
  <2>12. (highRest + tail) + lowRest = HighBelow(t) + (IF l < Left THEN DiagonalLows(t) ELSE 0)
    BY <2>6, <2>7, <2>9
  <2>13. Word(hi1[l] + (IF l < Left THEN lo[l] ELSE 0)) = MiddleLimb(t)
    BY <2>3, <2>8, <2>11, <2>12
  <2> QED BY <2>13 DEF t
<1> HIDE DEF hi1
<1>6. MidWrote(rn + 1)
  BY <1>2, <1>3, <1>4, <1>5, LastWrites
<1> QED BY <1>2, <1>6

LEMMA MiddleKept ==
  ASSUME UNCHANGED <<an, bn, ap, bp>>
  PROVE  rn' = rn /\ \A t : MiddleLimb(t)' = MiddleLimb(t) /\ HighBelow(t)' = HighBelow(t)
BY DEF MiddleLimb, HighBelow, DiagonalLows, DiagonalHighs, Diagonal, rn, Total

LEMMA MiddleReached ==
  ASSUME UNCHANGED <<an, bn, ap, bp>>, NEW t, vi' * L = t
  PROVE  HighBelow(vi * L)' = HighBelow(t)
BY DEF HighBelow, DiagonalHighs, Diagonal, Total

MidInv == prog \in {"mid", "midtail"} => MidShape /\ MidState

LEMMA InitMiddle == MiddleInputs /\ Init => MidInv
<1> SUFFICES ASSUME MiddleInputs, Init, prog \in {"mid", "midtail"} PROVE MidShape /\ MidState
  BY DEF MidInv
<1>1. PICK shape \in Shapes[prog] : an = shape[1] /\ bn = shape[2]
  BY DEF Init
<1>2. prog \in {"mid", "midtail"} \cap DOMAIN Shapes /\ ap \in Patterns[prog] /\ bp \in Patterns[prog]
  BY DEF Init
<1>3. MidShape
  BY <1>1, <1>2 DEF MiddleInputs, MidShape, rn
<1>4. vi = 0 /\ done = FALSE /\ rp = [j \in Limbs |-> Untouched] /\ kept = NoTerms
  BY DEF Init
<1>5. L \in Nat /\ L > 0 /\ rn \in Nat /\ rn > 0 /\ Limbs = 0 .. Room - 1 /\ Room \in Nat /\ L - 1 \in Lane
  BY <1>3, MidSizes
<1>6. vi * L = 0 /\ 1 \in Register /\ DOMAIN kept = Register
  BY <1>4, <1>5 DEF Register, NoTerms
<1>7. kept[1][L - 1] = 0
  BY <1>4, <1>5, <1>6 DEF NoTerms, Zero
<1>8. HighBelow(vi * L) = 0
  BY <1>6 DEF HighBelow
<1>9. \A j \in Limbs : rp[j] = Untouched /\ ~(j < 0)
  BY <1>4, <1>5
<1> QED BY <1>3, <1>4, <1>5, <1>6, <1>7, <1>8, <1>9 DEF MidState

LEMMA MidStepKeeps ==
  ASSUME prog \in {"mid", "midtail"}, MidShape, MidState, MidTurn \/ MidEnd \/ VerticalEnd
  PROVE  MidInv'
<1>1. /\ vi * L \in Nat /\ (vi + 1) * L = vi * L + L /\ (vi + 1) * L \in Nat /\ vi \in Nat
      /\ L \in Nat /\ L > 0 /\ rn \in Nat /\ Limbs = 0 .. Room - 1 /\ Room \in Nat
  BY MidSizes, MidPlace DEF MidState
<1>2. ASSUME NEW e \in Nat, ~done, vi * L <= e, MidWrote(e)
      PROVE  /\ MidShape' /\ rn' = rn /\ vi' = vi + 1 /\ vi' \in Nat /\ vi' * L = (vi + 1) * L /\ DOMAIN rp' = Limbs'
             /\ \A j \in Limbs' : rp'[j] = IF j < e THEN MiddleLimb(j)' ELSE Untouched'
  <2>1. an' = an /\ bn' = bn /\ ap' = ap /\ bp' = bp /\ vi' = vi + 1 /\ DOMAIN rp' = Limbs /\ Limbs' = Limbs
    BY <1>2 DEF MidWrote, Limbs
  <2>2. rn' = rn /\ \A t : MiddleLimb(t)' = MiddleLimb(t)
    BY <2>1, MiddleKept
  <2>3. MidShape'
    BY <2>1, <2>2 DEF MidShape
  <2>4. ASSUME NEW j \in Limbs PROVE rp'[j] = IF j < e THEN MiddleLimb(j) ELSE Untouched
    <3>1. rp'[j] = IF vi * L <= j /\ j < e THEN MiddleLimb(j) ELSE rp[j]
      BY <1>2 DEF MidWrote
    <3>2. rp[j] = IF j < vi * L THEN MiddleLimb(j) ELSE Untouched
      BY <1>2 DEF MidState
    <3> DEFINE a == vi * L
    <3>3. a \in Nat /\ j \in Nat /\ a <= e
      BY <1>1, <1>2
    <3>4. rp'[j] = IF a <= j /\ j < e THEN MiddleLimb(j) ELSE IF j < a THEN MiddleLimb(j) ELSE Untouched
      BY <3>1, <3>2
    <3> HIDE DEF a
    <3> QED BY <1>2, <3>3, <3>4
  <2>5. Untouched' = Untouched
    BY DEF Untouched
  <2> QED BY <1>1, <2>1, <2>2, <2>3, <2>4, <2>5
<1>3. CASE MidTurn
  <2> DEFINE e == (vi + 1) * L
  <2>1. /\ ~done /\ MidWrote(e) /\ kept'[1][L - 1] = HighBelow(e) /\ DOMAIN kept' = Register
        /\ e < rn /\ done' = done /\ UNCHANGED <<an, bn, ap, bp>>
    BY <1>3, TurnWrites DEF MidTurn
  <2>2. e \in Nat /\ vi * L <= e
    BY <1>1
  <2>3. /\ MidShape' /\ rn' = rn /\ vi' \in Nat /\ vi' * L = e /\ DOMAIN rp' = Limbs'
        /\ \A j \in Limbs' : rp'[j] = IF j < e THEN MiddleLimb(j)' ELSE Untouched'
    BY <1>2, <2>1, <2>2
  <2> HIDE DEF e
  <2>4. HighBelow(vi * L)' = HighBelow(e)
    BY <2>1, <2>3, MiddleReached
  <2>5. Register' = Register /\ L' = L
    BY DEF Register
  <2>6. MidState'
    BY <2>1, <2>3, <2>4, <2>5 DEF MidState
  <2> QED BY <2>3, <2>6 DEF MidInv
<1>4. CASE MidEnd \/ VerticalEnd
  <2> DEFINE e == rn + 1
  <2>1. ~done /\ MidWrote(e)
    BY <1>4, EndWrites, VerticalWrites
  <2>2. (vi + 1) * L >= rn /\ done' = TRUE /\ kept' = kept
    BY <1>1, <1>4 DEF MidEnd, VerticalEnd
  <2>3. e \in Nat /\ vi * L <= e
    <3>1. vi * L < rn
      BY <2>1 DEF MidState
    <3> DEFINE a == vi * L
    <3> HIDE DEF a
    <3>2. a < rn => a <= rn + 1
      BY <1>1 DEF a
    <3> QED BY <1>1, <3>1, <3>2 DEF a
  <2>4. /\ MidShape' /\ rn' = rn /\ vi' \in Nat /\ vi' * L = (vi + 1) * L /\ DOMAIN rp' = Limbs'
        /\ \A j \in Limbs' : rp'[j] = IF j < rn + 1 THEN MiddleLimb(j)' ELSE Untouched'
    BY <1>2, <2>1, <2>3
  <2>5. DOMAIN kept' = Register'
    BY <2>2 DEF MidState, Register
  <2>6. MidState'
    BY <2>2, <2>4, <2>5 DEF MidState
  <2> QED BY <2>4, <2>6 DEF MidInv
<1> QED BY <1>3, <1>4

LEMMA NextMiddle == MidInv /\ [Next \/ AddSubNext]_vars => MidInv'
<1> SUFFICES ASSUME MidInv, [Next \/ AddSubNext]_vars PROVE MidInv'
  OBVIOUS
<1>1. CASE UNCHANGED vars
  <2>1. UNCHANGED <<prog, an, bn, ap, bp, vi, kept, rp, done>>
    BY <1>1 DEF vars
  <2>2. rn' = rn /\ (\A t : MiddleLimb(t)' = MiddleLimb(t)) /\ Limbs' = Limbs
    BY <2>1, MiddleKept DEF Limbs
  <2>3. MidShape => MidShape'
    BY <2>1, <2>2 DEF MidShape
  <2>4. MidState => MidState'
    <3>1. PICK t : vi * L = t
      OBVIOUS
    <3>2. HighBelow(vi * L)' = HighBelow(vi * L)
      BY <2>1, <3>1, MiddleReached
    <3>3. \A j \in Limbs : MiddleLimb(j)' = MiddleLimb(j)
      BY <2>2
    <3> QED BY <2>1, <2>2, <3>2, <3>3 DEF MidState, Register, Untouched
  <2> QED BY <2>1, <2>3, <2>4 DEF MidInv
<1>2. CASE MidTurn \/ MidEnd \/ VerticalEnd
  <2>1. prog \in {"mid", "midtail"}
    BY <1>2 DEF MidTurn, MidEnd, VerticalEnd
  <2> QED BY <1>2, <2>1, MidStepKeeps DEF MidInv
<1>3. CASE AddSubNext
  <2>1. prog \in {"add_n", "sub_n"} /\ prog' = prog
    BY <1>3 DEF AddSubNext, BlockVector, OneVector, MaskedTail, SingleLimb, Running, Words
  <2> QED BY <2>1 DEF MidInv
<1>4. ASSUME Next, ~(MidTurn \/ MidEnd \/ VerticalEnd) PROVE MidInv'
  <2>1. prog \notin {"mid", "midtail"} /\ prog' = prog
    BY <1>4 DEF Next, NarrowTurn, NarrowTail, NarrowFlush, WideTurn, WideEnd, VecTurn, VecEnd, FastTurn, FastEnd,
                StreamTurn, StreamEnd, Estimate, Backmul, AddBlock, SubBlock, OrderBlocks, Turn, Finish
  <2> QED BY <2>1 DEF MidInv
<1> QED BY <1>1, <1>2, <1>3, <1>4

(* MiddleRight: a middle product of operands of every length, base and        *)
(* headroom holds the lows of its diagonals and their highs one limb up, none *)
(* from outside them, and writes nothing past its rn + 1 limbs, through the    *)
(* diagonals alone and with the transposed tail.                              *)
THEOREM MiddleAlwaysRight ==
  ASSUME MiddleInputs
  PROVE  ProductsSpec => []MiddleRight
<1>1. Init => MidInv
  BY InitMiddle
<1>2. MidInv /\ [Next \/ AddSubNext]_vars => MidInv'
  BY NextMiddle
<1>3. MidInv => MiddleRight
  <2> SUFFICES ASSUME prog \in {"mid", "midtail"}, MidShape, MidState PROVE MiddleRight
    BY DEF MidInv, MiddleRight
  <2>1. rn \in Nat /\ rn < Room /\ Room \in Nat /\ Limbs = 0 .. Room - 1 /\ vi * L \in Nat
    BY MidSizes, MidPlace DEF MidState
  <2>2. ASSUME NEW j \in Limbs, j > rn PROVE rp[j] = Untouched
    <3>1. rp[j] = IF j < (IF done THEN rn + 1 ELSE vi * L) THEN MiddleLimb(j) ELSE Untouched
      BY DEF MidState
    <3>2. ~done => vi * L < rn
      BY DEF MidState
    <3> DEFINE a == vi * L
    <3>3. rp[j] = (IF j < (IF done THEN rn + 1 ELSE a) THEN MiddleLimb(j) ELSE Untouched) /\ (~done => a < rn) /\ a \in Nat
      BY <2>1, <3>1, <3>2
    <3> HIDE DEF a
    <3> QED BY <2>1, <2>2, <3>3
  <2>3. ASSUME done, NEW t \in 0 .. rn PROVE rp[t] = MiddleLimb(t)
    <3>1. t \in Limbs /\ t < rn + 1
      BY <2>1
    <3> QED BY <2>3, <3>1 DEF MidState
  <2> QED BY <2>2, <2>3 DEF MiddleRight, MiddleLimb, HighBelow
<1> QED BY <1>1, <1>2, <1>3, PTL DEF ProductsSpec

-----------------------------------------------------------------------------
(* Sums of sums *)

LEMMA TotalPick ==
  ASSUME NEW n \in Nat, NEW f, NEW p \in 0 .. n - 1, IntLimbs(f, n), \A x \in 0 .. n - 1 : x # p => f[x] = 0
  PROVE  Total(f, n) = f[p]
<1> DEFINE T == {k \in Nat : k <= n => Total(f, k) = IF p < k THEN f[p] ELSE 0}
<1>1. 0 \in T
  BY TotalSteps
<1>2. ASSUME NEW k \in Nat, k \in T PROVE k + 1 \in T
  <2> SUFFICES ASSUME k + 1 <= n PROVE Total(f, k + 1) = IF p < k + 1 THEN f[p] ELSE 0
    OBVIOUS
  <2>1. k \in 0 .. n - 1
    OBVIOUS
  <2>2. Total(f, k + 1) = Total(f, k) + f[k] /\ f[p] \in Int
    BY <2>1, TotalSteps DEF IntLimbs
  <2>3. Total(f, k) = IF p < k THEN f[p] ELSE 0
    BY <1>2, <2>1
  <2>4. k # p => f[k] = 0
    BY <2>1
  <2> QED BY <2>2, <2>3, <2>4
<1>3. T \subseteq Nat
  OBVIOUS
<1> HIDE DEF T
<1>4. n \in T
  BY <1>1, <1>2, <1>3, ByInduction
<1> QED BY <1>4 DEF T

LEMMA TotalOfZeros ==
  ASSUME NEW n \in Nat, NEW f, \A x \in 0 .. n - 1 : f[x] = 0
  PROVE  IntLimbs(f, n) /\ Total(f, n) = 0
<1>1. \A x \in 0 .. n - 1 : f[x] \in 0 .. 0 /\ f[x] \in Int
  OBVIOUS
<1>2. Total(f, n) \in 0 .. n * 0
  BY <1>1, TotalBounds
<1>3. n * 0 = 0
  OBVIOUS
<1> QED BY <1>1, <1>2, <1>3 DEF IntLimbs

(* A sum whose last terms are zero. *)
LEMMA TotalPadded ==
  ASSUME NEW n \in Nat, NEW m \in 0 .. n, NEW f, IntLimbs(f, n), \A x \in m .. n - 1 : f[x] = 0
  PROVE  Total(f, n) = Total(f, m)
<1> DEFINE g == [x \in 0 .. (n - m) - 1 |-> f[m + x]]
<1>1. n - m \in Nat /\ m \in Nat /\ m + (n - m) = n
  OBVIOUS
<1>2. Piece(g, f, m, n - m)
  BY DEF Piece
<1>3. \A x \in 0 .. (n - m) - 1 : g[x] = 0
  OBVIOUS
<1> HIDE DEF g
<1>4. Total(f, m + (n - m)) = Total(f, m) + Total(g, n - m)
  BY <1>1, <1>2, TotalSplit
<1>5. Total(g, n - m) = 0
  BY <1>1, <1>3, TotalOfZeros
<1>6. Total(f, m) \in Int
  BY <1>1, TotalSteps
<1> QED BY <1>1, <1>4, <1>5, <1>6

(* By rows and by columns: row[i] is the sum of f[i], tr[j] is f's column j. *)
Rows(row, f, m, n) == \A i \in 0 .. m - 1 : IntLimbs(f[i], n) /\ row[i] = Total(f[i], n)
Columns(col, tr, f, m, n) ==
  \A j \in 0 .. n - 1 : col[j] = Total(tr[j], m) /\ \A i \in 0 .. m - 1 : tr[j][i] = f[i][j]

LEMMA TotalSwap ==
  ASSUME NEW m \in Nat, NEW n \in Nat, NEW f, NEW row, NEW col, NEW tr,
         Rows(row, f, m, n), Columns(col, tr, f, m, n)
  PROVE  IntLimbs(row, m) /\ IntLimbs(col, n) /\ Total(row, m) = Total(col, n)
<1>1. \A i \in 0 .. m - 1 : \A j \in 0 .. n - 1 : f[i][j] \in Int
  BY DEF Rows, IntLimbs
<1>2. \A j \in 0 .. n - 1 : IntLimbs(tr[j], m)
  BY <1>1 DEF Columns, IntLimbs
<1>3. IntLimbs(row, m)
  <2> SUFFICES ASSUME NEW i \in 0 .. m - 1 PROVE row[i] \in Int
    BY DEF IntLimbs
  <2>1. IntLimbs(f[i], n) /\ row[i] = Total(f[i], n)
    BY DEF Rows
  <2> QED BY <2>1, TotalSteps
<1> DEFINE part(k) == [j \in 0 .. n - 1 |-> Total(tr[j], k)]
           T == {k \in Nat : k <= m => Total(row, k) = Total(part(k), n)}
<1>4. ASSUME NEW k \in 0 .. m PROVE IntLimbs(part(k), n)
  <2> SUFFICES ASSUME NEW j \in 0 .. n - 1 PROVE Total(tr[j], k) \in Int
    BY DEF IntLimbs
  <2>1. IntLimbs(tr[j], m)
    BY <1>2
  <2> QED BY <2>1, TotalSteps
<1>5. 0 \in T
  <2>1. \A j \in 0 .. n - 1 : Total(tr[j], 0) = 0
    BY <1>2, TotalSteps
  <2>2. \A j \in 0 .. n - 1 : part(0)[j] = 0
    BY <2>1
  <2>3. Total(part(0), n) = 0
    <3> DEFINE p == part(0)
    <3>1. \A j \in 0 .. n - 1 : p[j] = 0
      BY <2>2
    <3> HIDE DEF p
    <3>2. Total(p, n) = 0
      BY <3>1, TotalOfZeros
    <3> QED BY <3>2 DEF p
  <2>4. Total(row, 0) = 0
    BY <1>3, TotalSteps
  <2> QED BY <2>3, <2>4
<1>6. ASSUME NEW k \in Nat, k \in T PROVE k + 1 \in T
  <2> SUFFICES ASSUME k + 1 <= m PROVE Total(row, k + 1) = Total(part(k + 1), n)
    OBVIOUS
  <2> DEFINE p == part(k)  q == part(k + 1)
  <2>1. k \in 0 .. m - 1 /\ k \in 0 .. m
    OBVIOUS
  <2>2. IntLimbs(p, n) /\ Total(row, k) = Total(p, n)
    BY <1>4, <1>6, <2>1
  <2>3. IntLimbs(f[k], n) /\ row[k] = Total(f[k], n)
    BY <2>1 DEF Rows
  <2>4. ASSUME NEW j \in 0 .. n - 1 PROVE q[j] = p[j] + f[k][j]
    <3>1. IntLimbs(tr[j], m)
      BY <1>2
    <3>2. Total(tr[j], k + 1) = Total(tr[j], k) + tr[j][k]
      BY <2>1, <3>1, TotalSteps
    <3>3. tr[j][k] = f[k][j]
      BY <2>1 DEF Columns
    <3> QED BY <3>2, <3>3
  <2> HIDE DEF p, q
  <2>5. Total(q, n) = Total(p, n) + Total(f[k], n)
    BY <2>2, <2>3, <2>4, TotalAdds
  <2>6. Total(row, k + 1) = Total(row, k) + row[k]
    BY <1>3, <2>1, TotalSteps
  <2>7. Total(row, k + 1) = Total(q, n)
    BY <2>2, <2>3, <2>5, <2>6
  <2> QED BY <2>7 DEF q
<1>7. T \subseteq Nat
  OBVIOUS
<1>8. m \in T
  <2> HIDE DEF T
  <2> QED BY <1>5, <1>6, <1>7, ByInduction
<1>9. Total(row, m) = Total(part(m), n) /\ IntLimbs(part(m), n)
  BY <1>4, <1>8
<1>10. \A j \in 0 .. n - 1 : col[j] = part(m)[j]
  BY DEF Columns
<1> QED
  <2> DEFINE p == part(m)
  <2>1. IntLimbs(p, n) /\ Total(row, m) = Total(p, n) /\ \A j \in 0 .. n - 1 : col[j] = p[j]
    BY <1>9, <1>10
  <2> HIDE DEF p
  <2>2. Total(col, n) = Total(p, n) /\ IntLimbs(col, n)
    BY <2>1, TotalOfSame DEF IntLimbs
  <2> QED BY <1>3, <2>1, <2>2

-----------------------------------------------------------------------------
(* Products by splat vectors.  An operand is a function on the integers,      *)
(* zero outside its digits.                                                   *)

IsOperand(u) == \A j \in Int : u[j] \in 0 .. B - 1 /\ (j < 0 => u[j] = 0)
EndsBelow(u, n) == \A j \in Int : j >= n => u[j] = 0
Cut(f, m, n) == [j \in Int |-> IF m <= j /\ j < n THEN f[j] ELSE 0]
LowOf(x, y) == (x * y) % B
HighOf(x, y) == (x * y) \div B

(* Register k's share of the splat digits o .. o + L - 1 of u, where v has position s, .. *)
Share(u, v, o, k, s) ==
  (IF k < L THEN LowOf(u[o + k], v[s]) ELSE 0) + (IF 1 <= k THEN HighOf(u[o + (k - 1)], v[s]) ELSE 0)
(* .. and of n splat vectors of u, those for which position s of v is further down. *)
Gather(u, v, n, k, s) == Total([q \in 0 .. n - 1 |-> Share(u, v, q * L, k, s - q * L)], n)

(* What column t takes from digit y of u, and from n of them. *)
Partial(u, v, t, y) == LowOf(u[y], v[t - y]) + HighOf(u[y], v[(t - 1) - y])
Convolved(u, v, n, t) == Total([y \in 0 .. n - 1 |-> Partial(u, v, t, y)], n)

LEMMA HalfDigits ==
  ASSUME NEW x \in 0 .. B - 1, NEW y \in 0 .. B - 1
  PROVE  /\ LowOf(x, y) \in 0 .. B - 1 /\ HighOf(x, y) \in 0 .. B - 1
         /\ LowOf(x, y) = LowOf(y, x) /\ HighOf(x, y) = HighOf(y, x)
         /\ LowOf(0, y) = 0 /\ HighOf(0, y) = 0 /\ LowOf(x, 0) = 0 /\ HighOf(x, 0) = 0
<1>1. B \in Nat \ {0} /\ x \in Int /\ y \in Int /\ 0 \in 0 .. B - 1 /\ 0 \in Int /\ B >= 2
  BY Parameters
<1>2. x * y = y * x /\ x * 0 = 0 /\ 0 * y = 0
  BY <1>1
<1>3. 0 % B = 0 /\ 0 \div B = 0
  <2>1. 0 = 0 * B + 0
    BY <1>1
  <2> QED BY <1>1, <2>1, DivModUnique
<1>4. (x * y) % B \in 0 .. B - 1 /\ (x * y) \div B \in 0 .. B - 1
  BY DigitHalves
<1> QED BY <1>2, <1>3, <1>4 DEF LowOf, HighOf

LEMMA ShareBounds ==
  ASSUME NEW u, NEW v, IsOperand(u), IsOperand(v), NEW o \in Int, NEW k \in Int, NEW s \in Int
  PROVE  /\ Share(u, v, o, k, s) \in Nat
         /\ v[s] = 0 => Share(u, v, o, k, s) = 0
         /\ \A y \in Int : /\ Partial(u, v, o, y) \in 0 .. 2 * (B - 1)
                           /\ LowOf(u[y], v[o - y]) \in 0 .. B - 1 /\ HighOf(u[y], v[(o - 1) - y]) \in 0 .. B - 1
<1> DEFINE x == u[o + k]  z == u[o + (k - 1)]  w == v[s]
<1>1. B \in Nat /\ B >= 2 /\ o + k \in Int /\ o + (k - 1) \in Int
  BY Parameters
<1>2. x \in 0 .. B - 1 /\ z \in 0 .. B - 1 /\ w \in 0 .. B - 1
  BY <1>1 DEF IsOperand
<1>3. Share(u, v, o, k, s) = (IF k < L THEN LowOf(x, w) ELSE 0) + (IF 1 <= k THEN HighOf(z, w) ELSE 0)
  BY DEF Share
<1>4. ASSUME NEW y \in Int
      PROVE  /\ LowOf(u[y], v[o - y]) \in 0 .. B - 1 /\ HighOf(u[y], v[(o - 1) - y]) \in 0 .. B - 1
             /\ Partial(u, v, o, y) \in 0 .. 2 * (B - 1)
  <2> DEFINE p == u[y]  q == v[o - y]  r == v[(o - 1) - y]
  <2>1. o - y \in Int /\ (o - 1) - y \in Int
    OBVIOUS
  <2>2. p \in 0 .. B - 1 /\ q \in 0 .. B - 1 /\ r \in 0 .. B - 1
    BY <2>1 DEF IsOperand
  <2>3. Partial(u, v, o, y) = LowOf(p, q) + HighOf(p, r)
    BY DEF Partial
  <2> HIDE DEF p, q, r
  <2>4. LowOf(p, q) \in 0 .. B - 1 /\ HighOf(p, r) \in 0 .. B - 1
    BY <2>2, HalfDigits
  <2>5. LowOf(p, q) + HighOf(p, r) \in 0 .. 2 * (B - 1)
    BY <1>1, <2>4
  <2> QED BY <2>3, <2>4, <2>5 DEF p, q, r
<1> HIDE DEF x, z, w
<1>5. /\ LowOf(x, w) \in 0 .. B - 1 /\ HighOf(z, w) \in 0 .. B - 1
      /\ w = 0 => LowOf(x, w) = 0 /\ HighOf(z, w) = 0
  BY <1>2, HalfDigits
<1>6. Share(u, v, o, k, s) \in Nat /\ (w = 0 => Share(u, v, o, k, s) = 0)
  BY <1>1, <1>3, <1>5
<1> QED BY <1>4, <1>6 DEF w

(* The registers of a splat vector, each moved up by its number, are columns. *)
Shares(f, u, v, o, t) == \A k \in 0 .. L : f[k] = Share(u, v, o, k, (t - o) - k)
Partials(g, u, v, o, t) == \A k \in 0 .. L - 1 : g[k] = Partial(u, v, t, o + k)
LEMMA ShareColumn ==
  ASSUME NEW u, NEW v, IsOperand(u), IsOperand(v), NEW o \in Int, NEW t \in Int,
         NEW f, NEW g, Shares(f, u, v, o, t), Partials(g, u, v, o, t)
  PROVE  IntLimbs(f, L + 1) /\ Total(f, L + 1) = Total(g, L)
<1> DEFINE low == [k \in 0 .. L |-> IF k < L THEN LowOf(u[o + k], v[(t - o) - k]) ELSE 0]
           high == [k \in 0 .. L |-> IF 1 <= k THEN HighOf(u[o + (k - 1)], v[(t - o) - k]) ELSE 0]
           up == [k \in 0 .. L - 1 |-> HighOf(u[o + k], v[((t - 1) - o) - k])]
<1>1. L \in Nat /\ L > 0 /\ L + 1 \in Nat /\ L \in 0 .. L /\ 0 \in 0 .. L /\ 1 + L = L + 1 /\ B \in Nat /\ B >= 2
  BY Parameters
<1>2. ASSUME NEW k \in 0 .. L
      PROVE  low[k] \in Int /\ high[k] \in Int /\ f[k] = low[k] + high[k]
  <2> DEFINE x == u[o + k]  z == u[o + (k - 1)]  w == v[(t - o) - k]
  <2>1. k \in Int /\ o + k \in Int /\ (t - o) - k \in Int /\ o + (k - 1) \in Int
    BY <1>1
  <2>2. x \in 0 .. B - 1 /\ z \in 0 .. B - 1 /\ w \in 0 .. B - 1
    BY <2>1 DEF IsOperand
  <2>3. /\ f[k] = low[k] + high[k]
        /\ low[k] = (IF k < L THEN LowOf(x, w) ELSE 0) /\ high[k] = (IF 1 <= k THEN HighOf(z, w) ELSE 0)
    BY DEF Share, Shares
  <2> HIDE DEF x, z, w, low, high
  <2>4. LowOf(x, w) \in 0 .. B - 1 /\ HighOf(z, w) \in 0 .. B - 1
    BY <2>2, HalfDigits
  <2> QED BY <1>1, <2>3, <2>4
<1>3. IntLimbs(low, L + 1) /\ IntLimbs(high, L + 1) /\ IntLimbs(f, L + 1) /\ \A k \in 0 .. (L + 1) - 1 : f[k] = low[k] + high[k]
  <2>1. \A k \in 0 .. (L + 1) - 1 : k \in 0 .. L
    BY <1>1
  <2> HIDE DEF low, high
  <2>2. \A k \in 0 .. L : f[k] \in Int
    BY <1>2
  <2> QED BY <1>2, <2>1, <2>2 DEF IntLimbs
<1>4. ASSUME NEW k \in 0 .. L - 1
      PROVE  g[k] = low[k] + up[k] /\ up[k] \in Int /\ high[1 + k] = up[k]
  <2>1. /\ k \in 0 .. L /\ 1 + k \in 0 .. L /\ k < L /\ 1 <= 1 + k /\ (1 + k) - 1 = k
        /\ t - (o + k) = (t - o) - k /\ (t - 1) - (o + k) = ((t - 1) - o) - k /\ (t - o) - (1 + k) = ((t - 1) - o) - k
        /\ o + k \in Int /\ ((t - 1) - o) - k \in Int
    BY <1>1
  <2>2. g[k] = low[k] + up[k] /\ high[1 + k] = up[k]
    BY <2>1 DEF Partial, Partials
  <2> DEFINE x == u[o + k]  w == v[((t - 1) - o) - k]
  <2>3. x \in 0 .. B - 1 /\ w \in 0 .. B - 1
    BY <2>1 DEF IsOperand
  <2>4. up[k] = HighOf(x, w)
    OBVIOUS
  <2> HIDE DEF x, w
  <2>5. HighOf(x, w) \in 0 .. B - 1
    BY <2>3, HalfDigits
  <2> QED BY <1>1, <2>2, <2>4, <2>5
<1>5. low[L] = 0 /\ high[0] = 0
  BY <1>1
<1> HIDE DEF low, high, up
<1>6. Total(low, L + 1) = Total(low, L)
  <2>1. L \in 0 .. (L + 1) - 1
    BY <1>1
  <2>2. Total(low, L + 1) = Total(low, L) + low[L] /\ Total(low, L) \in Int
    BY <1>1, <1>3, <2>1, TotalSteps
  <2> QED BY <1>5, <2>2
<1>7. Total(high, L + 1) = Total(up, L)
  <2>1. Piece(up, high, 1, L)
    BY <1>4 DEF Piece
  <2>2. Total(high, 1 + L) = Total(high, 1) + Total(up, L)
    BY <1>1, <1>3, <2>1, TotalSplit
  <2>3. Total(high, 0 + 1) = Total(high, 0) + high[0] /\ Total(high, 0) = 0
    BY <1>1, <1>3, TotalSteps
  <2>4. IntLimbs(up, L)
    BY <1>4 DEF IntLimbs
  <2>5. Total(up, L) \in Int
    BY <1>1, <2>4, TotalSteps
  <2> QED BY <1>1, <1>5, <2>2, <2>3, <2>5
<1>8. IntLimbs(low, L) /\ IntLimbs(up, L)
  BY <1>1, <1>2, <1>4 DEF IntLimbs
<1>9. Total(g, L) = Total(low, L) + Total(up, L)
  BY <1>1, <1>4, <1>8, TotalAdds
<1>10. Total(f, L + 1) = Total(low, L + 1) + Total(high, L + 1)
  BY <1>1, <1>3, TotalAdds
<1> QED BY <1>3, <1>6, <1>7, <1>9, <1>10

LEMMA GatherBounds ==
  ASSUME NEW u, NEW v, IsOperand(u), IsOperand(v), NEW n \in Nat, NEW k \in Int, NEW s \in Int
  PROVE  /\ Gather(u, v, n, k, s) \in Int
         /\ IntLimbs([q \in 0 .. n - 1 |-> Share(u, v, q * L, k, s - q * L)], n)
<1> DEFINE f == [q \in 0 .. n - 1 |-> Share(u, v, q * L, k, s - q * L)]
<1>1. ASSUME NEW q \in 0 .. n - 1 PROVE f[q] \in Int
  <2> DEFINE o == q * L
  <2>1. o \in Int
    BY Parameters
  <2> HIDE DEF o
  <2>2. s - o \in Int
    BY <2>1
  <2>3. Share(u, v, o, k, s - o) \in Nat
    BY <2>1, <2>2, ShareBounds
  <2>4. f[q] = Share(u, v, o, k, s - o)
    BY DEF o
  <2> QED BY <2>3, <2>4
<1> HIDE DEF f
<1>2. IntLimbs(f, n)
  BY <1>1 DEF IntLimbs
<1>3. Total(f, n) \in Int
  BY <1>2, TotalSteps
<1> QED BY <1>2, <1>3 DEF f, Gather

(* The registers of n splat vectors, each moved up by its number, are columns. *)
LEMMA GatherColumn ==
  ASSUME NEW u, NEW v, IsOperand(u), IsOperand(v), NEW n \in Nat, NEW t \in Int,
         NEW f, \A k \in 0 .. L : f[k] = Gather(u, v, n, k, t - k)
  PROVE  IntLimbs(f, L + 1) /\ Total(f, L + 1) = Convolved(u, v, n * L, t)
<1> DEFINE F == [k \in 0 .. L |-> [q \in 0 .. n - 1 |-> Share(u, v, q * L, k, (t - k) - q * L)]]
           tr == [q \in 0 .. n - 1 |-> [k \in 0 .. L |-> Share(u, v, q * L, k, (t - q * L) - k)]]
           part == [q \in 0 .. n - 1 |-> [k \in 0 .. L - 1 |-> Partial(u, v, t, q * L + k)]]
           col == [q \in 0 .. n - 1 |-> Total(tr[q], L + 1)]
           h == [y \in 0 .. n * L - 1 |-> Partial(u, v, t, y)]
<1>1. L \in Nat /\ L > 0 /\ L + 1 \in Nat /\ B \in Nat /\ B >= 2 /\ n * L \in Nat /\ \A k \in 0 .. (L + 1) - 1 : k \in 0 .. L
  BY Parameters
<1>2. Rows(f, F, L + 1, n)
  <2> SUFFICES ASSUME NEW k \in 0 .. (L + 1) - 1 PROVE IntLimbs(F[k], n) /\ f[k] = Total(F[k], n)
    BY DEF Rows
  <2>1. k \in 0 .. L /\ k \in Int /\ t - k \in Int
    BY <1>1
  <2>2. F[k] = [q \in 0 .. n - 1 |-> Share(u, v, q * L, k, (t - k) - q * L)]
    BY <2>1
  <2>3. IntLimbs(F[k], n)
    BY <2>1, <2>2, GatherBounds
  <2>4. f[k] = Total(F[k], n)
    BY <2>1, <2>2 DEF Gather
  <2> QED BY <2>3, <2>4
<1>3. Columns(col, tr, F, L + 1, n)
  <2>1. ASSUME NEW q \in 0 .. n - 1, NEW k \in 0 .. (L + 1) - 1 PROVE tr[q][k] = F[k][q]
    <3> DEFINE o == q * L
    <3>1. o \in Int /\ k \in 0 .. L
      BY <1>1
    <3>2. tr[q][k] = Share(u, v, o, k, (t - o) - k) /\ F[k][q] = Share(u, v, o, k, (t - k) - o)
      BY <3>1
    <3> HIDE DEF o
    <3>3. (t - o) - k = (t - k) - o
      BY <3>1
    <3> QED BY <3>2, <3>3
  <2>2. \A q \in 0 .. n - 1 : col[q] = Total(tr[q], L + 1)
    OBVIOUS
  <2> HIDE DEF col, tr, F
  <2> QED BY <2>1, <2>2 DEF Columns
<1>4. ASSUME NEW q \in 0 .. n - 1 PROVE Piece(part[q], h, q * L, L) /\ col[q] = Total(part[q], L)
  <2> DEFINE o == q * L  p == part[q]  r == tr[q]
  <2>1. o \in Nat /\ o + L <= n * L
    <3>1. q + 1 <= n /\ q + 1 \in Int /\ n \in Int
      OBVIOUS
    <3>2. (q + 1) * L <= n * L
      BY <1>1, <3>1, MulLe
    <3>3. (q + 1) * L = o + L /\ o \in Nat
      BY <1>1
    <3> QED BY <3>2, <3>3
  <2>2. /\ \A k \in 0 .. L : r[k] = Share(u, v, o, k, (t - o) - k)
        /\ \A k \in 0 .. L - 1 : p[k] = Partial(u, v, t, o + k)
        /\ col[q] = Total(r, L + 1)
    OBVIOUS
  <2>3. \A k \in 0 .. L - 1 : h[o + k] = Partial(u, v, t, o + k)
    <3> SUFFICES ASSUME NEW k \in 0 .. L - 1 PROVE o + k \in 0 .. n * L - 1
      OBVIOUS
    <3> DEFINE e == n * L
    <3> HIDE DEF o, e
    <3>1. o + k \in 0 .. e - 1
      BY <1>1, <2>1 DEF e
    <3> QED BY <3>1 DEF e
  <2> HIDE DEF o, p, r, h, col
  <2>4. Total(r, L + 1) = Total(p, L)
    <3>1. o \in Int /\ Shares(r, u, v, o, t) /\ Partials(p, u, v, o, t)
      BY <2>1, <2>2 DEF Shares, Partials
    <3> QED BY <3>1, ShareColumn
  <2>5. Piece(p, h, o, L)
    BY <2>2, <2>3 DEF Piece
  <2> QED BY <2>2, <2>4, <2>5 DEF o, p
<1>5. IntLimbs(h, n * L)
  <2> SUFFICES ASSUME NEW y \in 0 .. n * L - 1 PROVE h[y] \in Int
    BY DEF IntLimbs
  <2>1. y \in Int
    BY <1>1
  <2>2. Partial(u, v, t, y) \in 0 .. 2 * (B - 1)
    <3>1. 0 \in Int
      OBVIOUS
    <3> QED BY <2>1, <3>1, ShareBounds
  <2>3. Partial(u, v, t, y) \in Int
    BY <1>1, <2>2
  <2> QED BY <2>3
<1>6. h = [y \in 0 .. n * L - 1 |-> Partial(u, v, t, y)]
  OBVIOUS
<1> HIDE DEF F, tr, col, part, h
<1>7. IntLimbs(f, L + 1) /\ Total(f, L + 1) = Total(col, n)
  BY <1>1, <1>2, <1>3, TotalSwap
<1>8. Total(col, n) = Total(h, n * L)
  BY <1>1, <1>4, <1>5, TotalBlocks
<1> QED BY <1>6, <1>7, <1>8 DEF Convolved

(* A column of the product: the digits 0 .. t of u meet digits of v. *)
Conv(u, v, t) == Convolved(u, v, t + 1, t)

LEMMA PartialsOf ==
  ASSUME NEW u, NEW v, IsOperand(u), IsOperand(v), NEW n \in Nat, NEW t \in Int
  PROVE  /\ IntLimbs([y \in 0 .. n - 1 |-> Partial(u, v, t, y)], n)
         /\ Convolved(u, v, n, t) \in 0 .. n * (2 * (B - 1))
         /\ \A y \in Int : Partial(u, v, t, y) \in Int /\ (y > t => Partial(u, v, t, y) = 0)
                           /\ (u[y] = 0 => Partial(u, v, t, y) = 0)
<1> DEFINE h == [y \in 0 .. n - 1 |-> Partial(u, v, t, y)]  c == 2 * (B - 1)
<1>1. B \in Nat /\ B >= 2 /\ c \in Nat /\ 0 \in Int
  BY Parameters
<1>2. ASSUME NEW y \in Int
      PROVE  /\ Partial(u, v, t, y) \in 0 .. c
             /\ y > t => Partial(u, v, t, y) = 0
             /\ u[y] = 0 => Partial(u, v, t, y) = 0
  <2> DEFINE p == u[y]  q == v[t - y]  r == v[(t - 1) - y]
  <2>1. Partial(u, v, t, y) \in 0 .. c
    BY <1>1, ShareBounds
  <2>2. t - y \in Int /\ (t - 1) - y \in Int
    OBVIOUS
  <2>3. /\ p \in 0 .. B - 1 /\ q \in 0 .. B - 1 /\ r \in 0 .. B - 1
        /\ t - y < 0 => q = 0
        /\ (t - 1) - y < 0 => r = 0
    BY <2>2 DEF IsOperand
  <2>4. y > t => q = 0 /\ r = 0
    <3> HIDE DEF q, r
    <3> QED BY <2>3
  <2>5. Partial(u, v, t, y) = LowOf(p, q) + HighOf(p, r)
    BY DEF Partial
  <2> HIDE DEF p, q, r
  <2>6. y > t => LowOf(p, q) = 0 /\ HighOf(p, r) = 0
    BY <2>3, <2>4, HalfDigits
  <2>7. p = 0 => LowOf(p, q) = 0 /\ HighOf(p, r) = 0
    BY <2>3, HalfDigits
  <2>8. (y > t => Partial(u, v, t, y) = 0) /\ (p = 0 => Partial(u, v, t, y) = 0)
    BY <2>5, <2>6, <2>7
  <2> QED BY <2>1, <2>8 DEF p
<1>3. \A y \in 0 .. n - 1 : h[y] \in 0 .. c /\ h[y] \in Int
  BY <1>1, <1>2
<1> HIDE DEF h, c
<1>4. IntLimbs(h, n)
  BY <1>3 DEF IntLimbs
<1>5. Total(h, n) \in 0 .. n * c
  BY <1>1, <1>3, TotalBounds
<1>6. \A y \in Int : Partial(u, v, t, y) \in Int
  BY <1>1, <1>2
<1> QED BY <1>2, <1>4, <1>5, <1>6 DEF Convolved, h, c

(* However many digits of u are taken beyond its last. *)
LEMMA ConvolvedIs ==
  ASSUME NEW u, NEW v, IsOperand(u), IsOperand(v), NEW n \in Nat, EndsBelow(u, n), NEW t \in Nat
  PROVE  Convolved(u, v, n, t) = Conv(u, v, t)
<1> DEFINE m == n + (t + 1)
           h == [y \in 0 .. m - 1 |-> Partial(u, v, t, y)]
           f == [y \in 0 .. n - 1 |-> Partial(u, v, t, y)]
           g == [y \in 0 .. (t + 1) - 1 |-> Partial(u, v, t, y)]
<1>1. m \in Nat /\ n \in 0 .. m /\ t + 1 \in 0 .. m /\ t + 1 \in Nat /\ t \in Int
  OBVIOUS
<1>2. ASSUME NEW y \in 0 .. m - 1
      PROVE  h[y] \in Int /\ (y >= n => h[y] = 0) /\ (y > t => h[y] = 0)
  <2>1. y \in Int /\ h[y] = Partial(u, v, t, y)
    OBVIOUS
  <2>2. y >= n => u[y] = 0
    BY <2>1 DEF EndsBelow
  <2>3. /\ Partial(u, v, t, y) \in Int /\ (y > t => Partial(u, v, t, y) = 0)
        /\ u[y] = 0 => Partial(u, v, t, y) = 0
    BY <1>1, <2>1, PartialsOf
  <2> HIDE DEF h
  <2> QED BY <2>1, <2>2, <2>3
<1>3. (\A y \in 0 .. n - 1 : f[y] = h[y]) /\ (\A y \in 0 .. (t + 1) - 1 : g[y] = h[y])
  OBVIOUS
<1>4. f = [y \in 0 .. n - 1 |-> Partial(u, v, t, y)] /\ g = [y \in 0 .. (t + 1) - 1 |-> Partial(u, v, t, y)]
  OBVIOUS
<1> HIDE DEF h, f, g, m
<1>5. IntLimbs(h, m) /\ IntLimbs(h, n) /\ IntLimbs(h, t + 1)
  BY <1>1, <1>2 DEF IntLimbs
<1>6. Total(h, m) = Total(h, n)
  BY <1>1, <1>2, <1>5, TotalPadded
<1>7. Total(h, m) = Total(h, t + 1)
  <2>1. \A y \in t + 1 .. m - 1 : h[y] = 0
    BY <1>1, <1>2
  <2> QED BY <1>1, <1>5, <2>1, TotalPadded
<1>8. Total(f, n) = Total(h, n) /\ Total(g, t + 1) = Total(h, t + 1)
  BY <1>1, <1>3, <1>5, TotalOfSame
<1> QED BY <1>4, <1>6, <1>7, <1>8 DEF Conv, Convolved

LEMMA ConvSymmetric ==
  ASSUME NEW u, NEW v, IsOperand(u), IsOperand(v), NEW t \in Nat
  PROVE  Conv(u, v, t) = Conv(v, u, t)
<1> DEFINE low(p, q) == [y \in 0 .. t |-> LowOf(p[y], q[t - y])]
           high(p, q) == [y \in 0 .. t |-> HighOf(p[y], q[(t - 1) - y])]
           all(p, q) == [y \in 0 .. (t + 1) - 1 |-> Partial(p, q, t, y)]
<1>1. t + 1 \in Nat /\ B \in Nat /\ B >= 2 /\ (t + 1) - 1 = t /\ t \in 0 .. t + 1
  BY Parameters
<1>2. ASSUME NEW p, NEW q, IsOperand(p), IsOperand(q)
      PROVE  /\ IntLimbs(low(p, q), t + 1) /\ IntLimbs(high(p, q), t + 1) /\ IntLimbs(high(p, q), t)
             /\ Conv(p, q, t) = Total(low(p, q), t + 1) + Total(high(p, q), t)
  <2> DEFINE lo == low(p, q)  hi == high(p, q)  f == all(p, q)
  <2>1. ASSUME NEW y \in 0 .. (t + 1) - 1
        PROVE  lo[y] \in Int /\ hi[y] \in Int /\ f[y] = lo[y] + hi[y] /\ (y = t => hi[y] = 0)
    <3> DEFINE x == p[y]  z == q[t - y]  w == q[(t - 1) - y]
    <3>1. y \in Int /\ t - y \in Int /\ (t - 1) - y \in Int
      BY <1>1
    <3>2. x \in 0 .. B - 1 /\ z \in 0 .. B - 1 /\ w \in 0 .. B - 1 /\ ((t - 1) - y < 0 => w = 0)
      <4>1. x \in 0 .. B - 1
        BY <1>2, <3>1 DEF IsOperand
      <4>2. z \in 0 .. B - 1
        BY <1>2, <3>1 DEF IsOperand
      <4>3. w \in 0 .. B - 1 /\ ((t - 1) - y < 0 => w = 0)
        BY <1>2, <3>1 DEF IsOperand
      <4> QED BY <4>1, <4>2, <4>3
    <3>3. lo[y] = LowOf(x, z) /\ hi[y] = HighOf(x, w) /\ f[y] = LowOf(x, z) + HighOf(x, w)
      BY <1>1 DEF Partial
    <3>4. y = t => w = 0
      <4> HIDE DEF w
      <4> QED BY <1>1, <3>2
    <3> HIDE DEF x, z, w, lo, hi, f
    <3>5. LowOf(x, z) \in 0 .. B - 1 /\ HighOf(x, w) \in 0 .. B - 1 /\ HighOf(x, 0) = 0
      BY <3>2, HalfDigits
    <3> QED BY <1>1, <3>3, <3>4, <3>5
  <2>2. Conv(p, q, t) = Total(f, t + 1)
    BY DEF Conv, Convolved
  <2> HIDE DEF lo, hi, f
  <2>3. IntLimbs(lo, t + 1) /\ IntLimbs(hi, t + 1) /\ IntLimbs(hi, t)
    BY <1>1, <2>1 DEF IntLimbs
  <2>4. Total(f, t + 1) = Total(lo, t + 1) + Total(hi, t + 1)
    BY <1>1, <2>1, <2>3, TotalAdds
  <2>5. Total(hi, t + 1) = Total(hi, t)
    <3>1. \A y \in t .. (t + 1) - 1 : hi[y] = 0
      BY <1>1, <2>1
    <3> QED BY <1>1, <2>3, <3>1, TotalPadded
  <2> QED BY <2>2, <2>3, <2>4, <2>5 DEF lo, hi
<1>3. \A y \in 0 .. (t + 1) - 1 : low(v, u)[y] = low(u, v)[(t + 1) - 1 - y]
  <2> SUFFICES ASSUME NEW y \in 0 .. (t + 1) - 1 PROVE low(v, u)[y] = low(u, v)[(t + 1) - 1 - y]
    OBVIOUS
  <2> DEFINE x == v[y]  z == u[t - y]
  <2>1. y \in Int /\ t - y \in Int /\ y \in 0 .. t /\ (t + 1) - 1 - y = t - y /\ t - y \in 0 .. t /\ t - (t - y) = y
    BY <1>1
  <2>2. x \in 0 .. B - 1 /\ z \in 0 .. B - 1
    BY <2>1 DEF IsOperand
  <2>3. low(v, u)[y] = LowOf(x, z) /\ low(u, v)[(t + 1) - 1 - y] = LowOf(z, x)
    BY <2>1
  <2> HIDE DEF x, z, low
  <2> QED BY <2>2, <2>3, HalfDigits
<1>4. \A y \in 0 .. t - 1 : high(v, u)[y] = high(u, v)[t - 1 - y]
  <2> SUFFICES ASSUME NEW y \in 0 .. t - 1 PROVE high(v, u)[y] = high(u, v)[t - 1 - y]
    OBVIOUS
  <2> DEFINE x == v[y]  z == u[(t - 1) - y]
  <2>1. y \in Int /\ (t - 1) - y \in Int /\ y \in 0 .. t /\ t - 1 - y = (t - 1) - y /\ (t - 1) - y \in 0 .. t
        /\ (t - 1) - ((t - 1) - y) = y
    BY <1>1
  <2>2. x \in 0 .. B - 1 /\ z \in 0 .. B - 1
    BY <2>1 DEF IsOperand
  <2>3. high(v, u)[y] = HighOf(x, z) /\ high(u, v)[t - 1 - y] = HighOf(z, x)
    BY <2>1
  <2> HIDE DEF x, z, high
  <2> QED BY <2>2, <2>3, HalfDigits
<1>5. /\ IntLimbs(low(u, v), t + 1) /\ IntLimbs(high(u, v), t)
      /\ Conv(u, v, t) = Total(low(u, v), t + 1) + Total(high(u, v), t)
      /\ Conv(v, u, t) = Total(low(v, u), t + 1) + Total(high(v, u), t)
  BY <1>2
<1> DEFINE l1 == low(u, v)  l2 == low(v, u)  h1 == high(u, v)  h2 == high(v, u)
<1>6. IntLimbs(l1, t + 1) /\ IntLimbs(h1, t) /\ (\A y \in 0 .. (t + 1) - 1 : l2[y] = l1[(t + 1) - 1 - y])
      /\ \A y \in 0 .. t - 1 : h2[y] = h1[t - 1 - y]
  BY <1>3, <1>4, <1>5
<1>7. Conv(u, v, t) = Total(l1, t + 1) + Total(h1, t) /\ Conv(v, u, t) = Total(l2, t + 1) + Total(h2, t)
  BY <1>5
<1> HIDE DEF l1, l2, h1, h2
<1>8. Total(l2, t + 1) = Total(l1, t + 1)
  BY <1>1, <1>6, TotalReversed
<1>9. Total(h2, t) = Total(h1, t)
  BY <1>6, TotalReversed
<1> QED BY <1>7, <1>8, <1>9

(* An operand's digits in two parts. *)
Parted(v, v1, v2) ==
  \A j \in Int : (v1[j] = v[j] /\ v2[j] = 0) \/ (v1[j] = 0 /\ v2[j] = v[j])

LEMMA ConvParted ==
  ASSUME NEW u, NEW v, NEW v1, NEW v2, IsOperand(u), IsOperand(v), IsOperand(v1), IsOperand(v2), Parted(v, v1, v2),
         NEW t \in Nat
  PROVE  Conv(u, v, t) = Conv(u, v1, t) + Conv(u, v2, t) /\ Conv(v, u, t) = Conv(v1, u, t) + Conv(v2, u, t)
<1> DEFINE h == [y \in 0 .. (t + 1) - 1 |-> Partial(u, v, t, y)]
           f == [y \in 0 .. (t + 1) - 1 |-> Partial(u, v1, t, y)]
           g == [y \in 0 .. (t + 1) - 1 |-> Partial(u, v2, t, y)]
<1>1. t + 1 \in Nat /\ t \in Int
  OBVIOUS
<1>2. IntLimbs(f, t + 1) /\ IntLimbs(g, t + 1)
  BY <1>1, PartialsOf
<1>3. ASSUME NEW y \in 0 .. (t + 1) - 1 PROVE h[y] = f[y] + g[y]
  <2> DEFINE x == u[y]  q == v[t - y]  q1 == v1[t - y]  q2 == v2[t - y]
             r == v[(t - 1) - y]  r1 == v1[(t - 1) - y]  r2 == v2[(t - 1) - y]
  <2>1. y \in Int /\ t - y \in Int /\ (t - 1) - y \in Int
    OBVIOUS
  <2>2. x \in 0 .. B - 1 /\ q \in 0 .. B - 1 /\ r \in 0 .. B - 1
    BY <2>1 DEF IsOperand
  <2>3. /\ (q1 = q /\ q2 = 0) \/ (q1 = 0 /\ q2 = q)
        /\ (r1 = r /\ r2 = 0) \/ (r1 = 0 /\ r2 = r)
    BY <2>1 DEF Parted
  <2>4. h[y] = LowOf(x, q) + HighOf(x, r) /\ f[y] = LowOf(x, q1) + HighOf(x, r1) /\ g[y] = LowOf(x, q2) + HighOf(x, r2)
    BY DEF Partial
  <2>5. B \in Nat /\ B >= 2
    BY Parameters
  <2> HIDE DEF x, q, q1, q2, r, r1, r2, h, f, g
  <2>6. LowOf(x, q) \in 0 .. B - 1 /\ HighOf(x, r) \in 0 .. B - 1 /\ LowOf(x, 0) = 0 /\ HighOf(x, 0) = 0
    BY <2>2, HalfDigits
  <2> QED BY <2>3, <2>4, <2>5, <2>6
<1>4. Conv(u, v, t) = Total(h, t + 1) /\ Conv(u, v1, t) = Total(f, t + 1) /\ Conv(u, v2, t) = Total(g, t + 1)
  BY DEF Conv, Convolved
<1> HIDE DEF h, f, g
<1>5. Total(h, t + 1) = Total(f, t + 1) + Total(g, t + 1)
  BY <1>1, <1>2, <1>3, TotalAdds
<1>6. Conv(v, u, t) = Conv(u, v, t) /\ Conv(v1, u, t) = Conv(u, v1, t) /\ Conv(v2, u, t) = Conv(u, v2, t)
  BY ConvSymmetric
<1> QED BY <1>4, <1>5, <1>6

(* No more than a low and a high half of each digit of the shorter operand. *)
LEMMA ConvBounds ==
  ASSUME NEW u, NEW v, IsOperand(u), IsOperand(v), NEW n \in Nat, EndsBelow(u, n) \/ EndsBelow(v, n), NEW t \in Nat
  PROVE  Conv(u, v, t) \in 0 .. n * (2 * (B - 1))
<1>1. t \in Int
  OBVIOUS
<1>2. CASE EndsBelow(u, n)
  <2>1. Convolved(u, v, n, t) \in 0 .. n * (2 * (B - 1))
    BY <1>1, PartialsOf
  <2> QED BY <1>2, <2>1, ConvolvedIs
<1>3. CASE EndsBelow(v, n)
  <2>1. Convolved(v, u, n, t) \in 0 .. n * (2 * (B - 1))
    BY <1>1, PartialsOf
  <2>2. Convolved(v, u, n, t) = Conv(v, u, t)
    BY <1>3, ConvolvedIs
  <2> QED BY <2>1, <2>2, ConvSymmetric
<1> QED BY <1>2, <1>3

-----------------------------------------------------------------------------
(* Registers *)

LEMMA SumOfWords ==
  ASSUME NEW n \in Nat, NEW v, NEW f, NEW l \in Lane, IntLimbs(f, n), \A x \in 0 .. n - 1 : v[x][l] = Word(f[x])
  PROVE  SumOf(v, n)[l] = Word(Total(f, n))
<1> DEFINE T == {k \in Nat : k <= n => SumOf(v, k)[l] = Word(Total(f, k))}
<1>1. 0 \in T
  <2>1. SumOf(v, 0)[l] = 0 /\ Total(f, 0) = 0
    BY SumSteps, TotalSteps DEF Zero
  <2>2. 0 \in 0 .. Width - 1
    BY FullWord
  <2> QED BY <2>1, <2>2, SmallWord
<1>2. ASSUME NEW k \in Nat, k \in T PROVE k + 1 \in T
  <2> SUFFICES ASSUME k + 1 <= n PROVE SumOf(v, k + 1)[l] = Word(Total(f, k + 1))
    OBVIOUS
  <2>1. k \in 0 .. n - 1 /\ k \in 0 .. n /\ k <= n
    OBVIOUS
  <2>2. SumOf(v, k + 1)[l] = Word(SumOf(v, k)[l] + v[k][l])
    <3>1. SumOf(v, k + 1) = Plus(SumOf(v, k), v[k])
      BY SumSteps
    <3> QED BY <3>1 DEF Plus
  <2> DEFINE x == Total(f, k)  y == f[k]
  <2>3. SumOf(v, k)[l] = Word(x) /\ v[k][l] = Word(y) /\ y \in Int /\ x \in Int
    BY <1>2, <2>1, TotalSteps DEF IntLimbs
  <2>4. Total(f, k + 1) = x + y
    BY <2>1, TotalSteps
  <2> HIDE DEF x, y
  <2>5. Word(y) \in Int /\ Word(x + Word(y)) = Word(x + y)
    BY <2>3, WordOfSum
  <2>6. Word(Word(x) + Word(y)) = Word(x + Word(y))
    BY <2>3, <2>5, WordOfWord
  <2> QED BY <2>2, <2>3, <2>4, <2>5, <2>6
<1>3. T \subseteq Nat
  OBVIOUS
<1> HIDE DEF T
<1>4. n \in T
  BY <1>1, <1>2, <1>3, ByInduction
<1> QED BY <1>4 DEF T

(* g[k][s] is what register k adds up for position s: registers hold the     *)
(* words of the positions of a vector.                                       *)
IsTable(g) == \A k \in Register : \A s \in Int : g[k][s] \in Int
Holds(regs, g, base) == \A k \in Register : \A l \in Lane : regs[k][l] = Word(g[k][base + l])
(* Column t of the table: register k moved up by k. *)
ColumnOf(f, g, t) == \A k \in Register : f[k] = g[k][t - k]

(* What leaves is the columns of the vector, whatever the words hold. *)
LEMMA LeavingLane ==
  ASSUME NEW g, IsTable(g), NEW base \in Int, NEW regs, NEW below, Holds(regs, g, base), Holds(below, g, base - L),
         NEW l \in Lane, NEW f, ColumnOf(f, g, base + l)
  PROVE  IntLimbs(f, L + 1) /\ Leaving(regs, below)[l] = Word(Total(f, L + 1))
<1> DEFINE v == [k \in Register |-> Up(k, regs, below)]
<1>1. L \in Nat /\ L > 0 /\ L + 1 \in Nat /\ l \in Int /\ 0 <= l /\ l < L /\ Register = 0 .. L /\ Lane = 0 .. L - 1
      /\ \A k \in 0 .. (L + 1) - 1 : k \in 0 .. L
  BY Parameters DEF Register
<1>2. ASSUME NEW k \in Register PROVE v[k][l] = Word(f[k]) /\ f[k] \in Int
  <2>1. k \in Int /\ 0 <= k /\ k <= L /\ (base + l) - k \in Int
    BY <1>1
  <2>2. f[k] = g[k][(base + l) - k] /\ f[k] \in Int
    BY <2>1 DEF ColumnOf, IsTable
  <2>3. v[k][l] = IF l + (L - k) < L THEN below[k][l + (L - k)] ELSE regs[k][l + ((L - k) - L)]
    BY DEF Up, Align, ShiftOf
  <2>4. CASE l < k
    <3> DEFINE i == l + (L - k)
    <3>1. l + (L - k) < L /\ i \in Lane /\ (base - L) + i = (base + l) - k
      BY <1>1, <2>1, <2>4
    <3>2. v[k][l] = below[k][i]
      BY <2>3, <3>1
    <3> HIDE DEF i, v
    <3>3. below[k][i] = Word(g[k][(base - L) + i])
      BY <3>1 DEF Holds
    <3> QED BY <2>2, <3>1, <3>2, <3>3
  <2>5. CASE ~(l < k)
    <3> DEFINE i == l + ((L - k) - L)
    <3>1. ~(l + (L - k) < L) /\ i \in Lane /\ base + i = (base + l) - k
      BY <1>1, <2>1, <2>5
    <3>2. v[k][l] = regs[k][i]
      BY <2>3, <3>1
    <3> HIDE DEF i, v
    <3>3. regs[k][i] = Word(g[k][base + i])
      BY <3>1 DEF Holds
    <3> QED BY <2>2, <3>1, <3>2, <3>3
  <2> QED BY <2>4, <2>5
<1> HIDE DEF v
<1>3. IntLimbs(f, L + 1)
  BY <1>1, <1>2 DEF IntLimbs
<1>4. SumOf(v, L + 1)[l] = Word(Total(f, L + 1))
  BY <1>1, <1>2, <1>3, SumOfWords
<1> QED BY <1>3, <1>4 DEF Leaving, v

(* The splat digits of u from o on are those of vector q of f, up to one; the *)
(* vector holds v from s on.                                                  *)
SplatFrom(f, q, upto, u, o) == \A k \in 0 .. L - 1 : u[o + k] = IF k <= upto THEN f[q * L + k] ELSE 0
VectorFrom(vec, v, s) == \A l \in Lane : vec[l] = v[s + l]

(* The splat and the vector of a product of one digit and a vector. *)
TermsGiven(u, v, vec, f, q, upto, o, s) ==
  /\ IsOperand(u) /\ IsOperand(v) /\ q \in Nat /\ upto \in -1 .. L - 1 /\ o \in Int /\ s \in Int
  /\ SplatFrom(f, q, upto, u, o) /\ VectorFrom(vec, v, s)

LEMMA TermsOfGiven ==
  ASSUME NEW u, NEW v, NEW vec, NEW f, NEW q, NEW upto, NEW o, NEW s,
         TermsGiven(u, v, vec, f, q, upto, o, s), NEW k \in Register, NEW l \in Lane
  PROVE  Terms(vec, f, q, upto)[k][l] = Word(Share(u, v, o, k, s + l))
<1>0. /\ IsOperand(u) /\ IsOperand(v) /\ q \in Nat /\ upto \in -1 .. L - 1 /\ o \in Int /\ s \in Int
      /\ SplatFrom(f, q, upto, u, o) /\ VectorFrom(vec, v, s)
  BY DEF TermsGiven
<1> DEFINE a == q * L  x == u[o + k]  z == u[o + (k - 1)]  w == v[s + l]
<1>1. /\ L \in Nat /\ L > 0 /\ Register = 0 .. L /\ Lane = 0 .. L - 1 /\ k \in Int /\ 0 <= k /\ k <= L /\ l \in Int
      /\ B \in Nat /\ B >= 2 /\ a \in Int /\ 0 \in 0 .. B - 1
  BY <1>0, Parameters DEF Register
<1>2. x \in 0 .. B - 1 /\ z \in 0 .. B - 1 /\ w \in 0 .. B - 1
  <2>1. o + k \in Int /\ o + (k - 1) \in Int /\ s + l \in Int
    BY <1>0, <1>1
  <2> QED BY <1>0, <2>1 DEF IsOperand
<1>3. vec[l] = w
  BY <1>0 DEF VectorFrom
<1>4. /\ k <= upto => f[a + k] = x
      /\ k < L /\ ~(k <= upto) => x = 0
  <2>1. k < L => k \in 0 .. L - 1
    BY <1>0, <1>1
  <2>2. k < L => x = IF k <= upto THEN f[a + k] ELSE 0
    BY <1>0, <2>1 DEF SplatFrom
  <2>3. k <= upto => k < L
    BY <1>0, <1>1
  <2> QED BY <1>0, <2>2, <2>3
<1>5. /\ 1 <= k /\ k <= upto + 1 => f[a + (k - 1)] = z
      /\ 1 <= k /\ ~(k <= upto + 1) => z = 0
  <2>1. 1 <= k => k - 1 \in 0 .. L - 1
    BY <1>0, <1>1
  <2>2. 1 <= k => z = IF k - 1 <= upto THEN f[a + (k - 1)] ELSE 0
    BY <1>0, <2>1 DEF SplatFrom
  <2>3. k - 1 <= upto <=> k <= upto + 1
    BY <1>0, <1>1
  <2> QED BY <1>0, <2>2, <2>3
<1>6. Terms(vec, f, q, upto)[k][l]
        = Word((IF k <= upto THEN LowOf(vec[l], f[a + k]) ELSE 0)
                 + (IF 1 <= k /\ k <= upto + 1 THEN HighOf(vec[l], f[a + (k - 1)]) ELSE 0))
  <2>1. Terms(vec, f, q, upto)[k]
          = Plus(IF k <= upto THEN Lo(vec, f[a + k]) ELSE Zero,
                 IF 1 <= k /\ k <= upto + 1 THEN Hi(vec, f[a + (k - 1)]) ELSE Zero)
    BY DEF Terms
  <2> QED BY <2>1 DEF Plus, Lo, Hi, Zero, LowOf, HighOf
<1>7. Share(u, v, o, k, s + l) = (IF k < L THEN LowOf(x, w) ELSE 0) + (IF 1 <= k THEN HighOf(z, w) ELSE 0)
  BY DEF Share
<1> HIDE DEF a, x, z, w
<1>8. LowOf(w, x) = LowOf(x, w) /\ HighOf(w, z) = HighOf(z, w) /\ LowOf(0, w) = 0 /\ HighOf(0, w) = 0
  BY <1>1, <1>2, HalfDigits
<1>9. (IF k <= upto THEN LowOf(w, f[a + k]) ELSE 0) = IF k < L THEN LowOf(x, w) ELSE 0
  <2>1. k <= upto => k < L
    BY <1>0, <1>1
  <2> QED BY <1>4, <1>8, <2>1
<1>10. (IF 1 <= k /\ k <= upto + 1 THEN HighOf(w, f[a + (k - 1)]) ELSE 0) = IF 1 <= k THEN HighOf(z, w) ELSE 0
  BY <1>0, <1>5, <1>8
<1> QED BY <1>3, <1>6, <1>7, <1>9, <1>10

(* The same, premise by premise. *)
LEMMA TermsLane ==
  ASSUME NEW u, NEW v, IsOperand(u), IsOperand(v), NEW vec, NEW f, NEW q \in Nat, NEW upto \in -1 .. L - 1,
         NEW o \in Int, NEW s \in Int, SplatFrom(f, q, upto, u, o), VectorFrom(vec, v, s),
         NEW k \in Register, NEW l \in Lane
  PROVE  Terms(vec, f, q, upto)[k][l] = Word(Share(u, v, o, k, s + l))
<1>1. TermsGiven(u, v, vec, f, q, upto, o, s)
  BY DEF TermsGiven
<1> QED BY <1>1, TermsOfGiven

-----------------------------------------------------------------------------
(* Operands and columns *)

IsDigits(f, m, n) == \A j \in m .. n - 1 : f[j] \in 0 .. B - 1

LEMMA CutIs ==
  ASSUME NEW f, NEW m \in Nat, NEW n \in Nat, IsDigits(f, m, n)
  PROVE  IsOperand(Cut(f, m, n)) /\ EndsBelow(Cut(f, m, n), n)
<1>1. B \in Nat /\ B >= 2
  BY Parameters
<1>2. ASSUME NEW j \in Int
      PROVE  /\ Cut(f, m, n)[j] \in 0 .. B - 1
             /\ j < 0 => Cut(f, m, n)[j] = 0
             /\ j >= n => Cut(f, m, n)[j] = 0
  <2>1. Cut(f, m, n)[j] = IF m <= j /\ j < n THEN f[j] ELSE 0
    BY DEF Cut
  <2>2. m <= j /\ j < n => f[j] \in 0 .. B - 1
    BY DEF IsDigits
  <2> QED BY <1>1, <2>1, <2>2
<1> QED BY <1>2 DEF IsOperand, EndsBelow

LEMMA CutParted ==
  ASSUME NEW f, NEW m \in Nat, NEW n \in Nat, m <= n
  PROVE  Parted(Cut(f, 0, n), Cut(f, 0, m), Cut(f, m, n))
BY DEF Parted, Cut

(* The digits of a and of b. *)
DigitsA == Cut(ap, 0, an)
DigitsB == Cut(bp, 0, bn)

LEMMA ColumnIs ==
  ASSUME an \in Nat, bn \in Nat, NEW from \in Nat, NEW f, \A x \in 0 .. an - 1 : f[x] = ap[from + x],
         IsDigits(f, 0, an), IsDigits(bp, 0, bn), NEW t \in Nat
  PROVE  ProductColumn(t, from) = Conv(Cut(f, 0, an), DigitsB, t)
<1> DEFINE u == Cut(f, 0, an)  v == DigitsB
           g == [x \in 0 .. an - 1 |-> Partial(u, v, t, x)]
           h == [x \in 0 .. an - 1 |-> LowHalf(from + x, t - x) + HighHalf(from + x, t - 1 - x)]
<1>1. B \in Nat /\ B >= 2 /\ t \in Int /\ 0 \in Nat
  BY Parameters
<1>2. IsOperand(u) /\ EndsBelow(u, an) /\ IsOperand(v) /\ EndsBelow(v, bn)
  BY <1>1, CutIs DEF DigitsB
<1>3. Convolved(u, v, an, t) = Conv(u, v, t) /\ IntLimbs(g, an)
  BY <1>1, <1>2, ConvolvedIs, PartialsOf
<1>4. ASSUME NEW x \in 0 .. an - 1 PROVE h[x] = g[x]
  <2> DEFINE p == ap[from + x]  y == t - x  z == t - 1 - x  q == v[y]  r == v[z]
  <2>1. u[x] = p /\ p \in 0 .. B - 1
    BY DEF Cut, IsDigits
  <2>2. y \in Int /\ z \in Int /\ z = (t - 1) - x
    OBVIOUS
  <2>3. g[x] = LowOf(p, q) + HighOf(p, r)
    BY <2>1, <2>2 DEF Partial
  <2>4. q = (IF 0 <= y /\ y < bn THEN bp[y] ELSE 0) /\ r = IF 0 <= z /\ z < bn THEN bp[z] ELSE 0
    BY <2>2 DEF DigitsB, Cut
  <2>5. /\ LowHalf(from + x, y) = (IF 0 <= y /\ y < bn THEN LowOf(p, bp[y]) ELSE 0)
        /\ HighHalf(from + x, z) = IF 0 <= z /\ z < bn THEN HighOf(p, bp[z]) ELSE 0
    BY DEF LowHalf, HighHalf, LowOf, HighOf
  <2>6. h[x] = LowHalf(from + x, y) + HighHalf(from + x, z)
    OBVIOUS
  <2> HIDE DEF p, q, r, y, z, g, h
  <2>7. LowOf(p, 0) = 0 /\ HighOf(p, 0) = 0
    <3>1. 0 \in 0 .. B - 1
      BY <1>1
    <3> QED BY <2>1, <3>1, HalfDigits
  <2> QED BY <2>3, <2>4, <2>5, <2>6, <2>7
<1>5. ProductColumn(t, from) = Total(h, an) /\ Convolved(u, v, an, t) = Total(g, an)
  BY DEF ProductColumn, Convolved
<1> HIDE DEF u, v, g, h
<1>6. Total(h, an) = Total(g, an)
  BY <1>3, <1>4, TotalOfSame
<1> QED BY <1>3, <1>5, <1>6 DEF u, v

-----------------------------------------------------------------------------
(* The redundant products *)

(* A call of a product: ProductInputs and DigitInputs. *)
ProductShape ==
  /\ an \in Nat \ {0} /\ bn \in Nat \ {0} /\ 2 * bn <= H
  /\ IsDigits(ap, 0, an) /\ IsDigits(bp, 0, bn)
NarrowShape == ProductShape /\ bn <= L
WideShape == ProductShape /\ bn <= an

LEMMA ProductOperands ==
  ASSUME ProductShape
  PROVE  /\ an \in Nat /\ bn \in Nat /\ an > 0 /\ bn > 0 /\ L \in Nat /\ L > 0 /\ L + 1 \in Nat /\ B \in Nat /\ B >= 2
         /\ Lane = 0 .. L - 1 /\ Register = 0 .. L /\ Room \in Nat /\ Limbs = 0 .. Room - 1
         /\ IsOperand(DigitsA) /\ EndsBelow(DigitsA, an) /\ IsOperand(DigitsB) /\ EndsBelow(DigitsB, bn)
         /\ \A t \in Nat : /\ ProductColumn(t, 0) = Conv(DigitsA, DigitsB, t)
                           /\ ProductColumn(t, 0) = Conv(DigitsB, DigitsA, t)
                           /\ ProductColumn(t, 0) \in 0 .. Width - 1
<1>1. /\ an \in Nat /\ bn \in Nat /\ an > 0 /\ bn > 0 /\ L \in Nat /\ L > 0 /\ L + 1 \in Nat /\ B \in Nat /\ B >= 2
      /\ Lane = 0 .. L - 1 /\ Register = 0 .. L /\ Room \in Nat /\ Limbs = 0 .. Room - 1
      /\ H \in Nat /\ Width = B * H /\ 2 * bn <= H /\ 0 \in Nat
  BY Parameters, RoomAssumption DEF ProductShape, Register, Limbs
<1>2. IsDigits(ap, 0, an) /\ IsDigits(bp, 0, bn)
  BY DEF ProductShape
<1>3. IsOperand(DigitsA) /\ EndsBelow(DigitsA, an) /\ IsOperand(DigitsB) /\ EndsBelow(DigitsB, bn)
  BY <1>1, <1>2, CutIs DEF DigitsA, DigitsB
<1>4. ASSUME NEW t \in Nat
      PROVE  /\ ProductColumn(t, 0) = Conv(DigitsA, DigitsB, t)
             /\ ProductColumn(t, 0) = Conv(DigitsB, DigitsA, t)
             /\ ProductColumn(t, 0) \in 0 .. Width - 1
  <2>1. \A x \in 0 .. an - 1 : ap[x] = ap[0 + x]
    OBVIOUS
  <2>2. ProductColumn(t, 0) = Conv(DigitsA, DigitsB, t)
    BY <1>1, <1>2, <2>1, ColumnIs DEF DigitsA
  <2>3. Conv(DigitsA, DigitsB, t) \in 0 .. bn * (2 * (B - 1))
    BY <1>1, <1>3, ConvBounds
  <2>4. Conv(DigitsA, DigitsB, t) = Conv(DigitsB, DigitsA, t)
    BY <1>3, ConvSymmetric
  <2>5. bn * (2 * (B - 1)) < Width
    <3>1. bn * (2 * (B - 1)) = (2 * bn) * B - 2 * bn
      <4>1. bn * (2 * (B - 1)) = 2 * (bn * B) - 2 * bn /\ (2 * bn) * B = 2 * (bn * B)
        BY <1>1
      <4> QED BY <4>1
    <3>2. (2 * bn) * B <= H * B
      <4>1. 2 * bn \in Int
        BY <1>1
      <4> QED BY <1>1, <4>1, MulLe
    <3>3. H * B = Width /\ (2 * bn) * B \in Nat /\ Width \in Nat
      BY <1>1
    <3> QED BY <1>1, <3>1, <3>2, <3>3
  <2>6. bn * (2 * (B - 1)) \in Nat /\ Width \in Nat
    BY <1>1
  <2>7. Conv(DigitsA, DigitsB, t) \in 0 .. Width - 1
    BY <2>3, <2>5, <2>6
  <2> QED BY <2>2, <2>4, <2>7
<1> QED BY <1>1, <1>3, <1>4

LEMMA VectorSizes ==
  /\ L \in Nat /\ L > 0 /\ L + 1 \in Nat /\ Lane = 0 .. L - 1 /\ Register = 0 .. L
  /\ B \in Nat /\ B >= 2 /\ Room \in Nat /\ Limbs = 0 .. Room - 1
BY Parameters, RoomAssumption DEF Register, Limbs

(* A table whose columns are the product's. *)
RightTable(g) ==
  /\ IsTable(g)
  /\ \A t \in Nat : \A f : ColumnOf(f, g, t) => Total(f, L + 1) = ProductColumn(t, 0)
AllColumns(mem, n) == \A j \in Limbs : j < n => mem[j] = ProductColumn(j, 0)

LEMMA VectorLeaves ==
  ASSUME ProductShape, NEW g, RightTable(g), NEW base \in Nat, NEW regs, NEW below,
         Holds(regs, g, base), Holds(below, g, base - L), NEW l \in Lane
  PROVE  Leaving(regs, below)[l] = ProductColumn(base + l, 0)
<1>1. base + l \in Nat /\ base \in Int /\ IsTable(g) /\ Register = 0 .. L
  BY VectorSizes DEF RightTable
<1> DEFINE f == [k \in Register |-> g[k][(base + l) - k]]
<1>2. ColumnOf(f, g, base + l)
  BY DEF ColumnOf
<1> HIDE DEF f
<1>3. Leaving(regs, below)[l] = Word(Total(f, L + 1))
  BY <1>1, <1>2, LeavingLane
<1>4. Total(f, L + 1) = ProductColumn(base + l, 0)
  BY <1>1, <1>2 DEF RightTable
<1>5. ProductColumn(base + l, 0) \in 0 .. Width - 1
  BY <1>1, ProductOperands
<1> QED BY <1>3, <1>4, <1>5, SmallWord

(* Vector k of the result is stored. *)
LEMMA ColumnsStored ==
  ASSUME ProductShape, NEW g, RightTable(g), NEW k \in Nat, NEW mem, AllColumns(mem, k * L), NEW regs, NEW below,
         Holds(regs, g, k * L), Holds(below, g, k * L - L), NEW count \in Nat
  PROVE  /\ count >= L => AllColumns(Stored(mem, k, Leaving(regs, below), count), k * L + L)
         /\ count <= L => AllColumns(Stored(mem, k, Leaving(regs, below), count), k * L + count)
<1> DEFINE a == k * L  s == Stored(mem, k, Leaving(regs, below), count)
<1>1. a \in Nat /\ L \in Nat /\ L > 0 /\ Lane = 0 .. L - 1 /\ Limbs = 0 .. Room - 1 /\ Room \in Nat
  BY VectorSizes
<1>2. ASSUME NEW j \in Limbs, j < a + L, j < a + count PROVE s[j] = ProductColumn(j, 0)
  <2>1. s[j] = IF a <= j /\ j < a + L /\ j < a + count THEN Leaving(regs, below)[j - a] ELSE mem[j]
    BY StoredAt
  <2>2. CASE a <= j
    <3> DEFINE l == j - a
    <3>1. l \in Lane /\ a + l = j
      <4> HIDE DEF a
      <4> QED BY <1>1, <1>2, <2>2
    <3>2. s[j] = Leaving(regs, below)[l]
      BY <1>2, <2>1, <2>2
    <3> HIDE DEF l
    <3>3. Leaving(regs, below)[l] = ProductColumn(a + l, 0)
      BY <1>1, <3>1, VectorLeaves
    <3> QED BY <3>1, <3>2, <3>3
  <2>3. CASE ~(a <= j)
    <3>1. s[j] = mem[j] /\ j < a
      BY <1>1, <2>1, <2>3
    <3> QED BY <3>1 DEF AllColumns
  <2> QED BY <2>2, <2>3
<1> HIDE DEF s, a
<1>3. count >= L => \A j \in Limbs : j < a + L => s[j] = ProductColumn(j, 0)
  <2> SUFFICES ASSUME count >= L, NEW j \in Limbs, j < a + L PROVE j < a + count
    BY <1>2
  <2> QED BY <1>1
<1>4. count <= L => \A j \in Limbs : j < a + count => s[j] = ProductColumn(j, 0)
  <2> SUFFICES ASSUME count <= L, NEW j \in Limbs, j < a + count PROVE j < a + L
    BY <1>2
  <2> QED BY <1>1
<1> QED BY <1>3, <1>4 DEF AllColumns, s, a

LEMMA TurnColumns ==
  ASSUME ProductShape, NEW g, RightTable(g), vi \in Nat, AllColumns(rp, vi * L), NEW regs,
         Holds(regs, g, vi * L), Holds(kept, g, vi * L - L), Turn(regs)
  PROVE  AllColumns(rp', vi * L + L) /\ Holds(kept', g, vi * L) /\ DOMAIN rp' = Limbs
<1>1. rp' = Stored(rp, vi, Leaving(regs, kept), L) /\ kept' = regs
  BY DEF Turn, Harvest
<1>2. L \in Nat /\ L >= L
  BY VectorSizes
<1>3. AllColumns(Stored(rp, vi, Leaving(regs, kept), L), vi * L + L)
  BY <1>2, ColumnsStored
<1> QED BY <1>1, <1>3 DEF Stored

LEMMA FinishColumns ==
  ASSUME ProductShape, NEW g, RightTable(g), vi \in Nat, AllColumns(rp, vi * L), NEW regs, NEW count \in Nat,
         Holds(regs, g, vi * L), Holds(kept, g, vi * L - L), Holds(NoTerms, g, vi * L + L), count <= 2 * L,
         Finish(regs, count)
  PROVE  AllColumns(rp', vi * L + count) /\ DOMAIN rp' = Limbs
<1> DEFINE first == Stored(rp, vi, Leaving(regs, kept), count)
           second == Stored(first, vi + 1, Leaving(NoTerms, regs), count - L)
<1>1. rp' = IF count <= L THEN first ELSE second
  BY DEF Finish, Harvest, Flush
<1>2. L \in Nat /\ L > 0 /\ vi + 1 \in Nat /\ vi * L \in Nat /\ (vi + 1) * L = vi * L + L /\ (vi + 1) * L - L = vi * L
  BY VectorSizes
<1>3. /\ count >= L => AllColumns(first, vi * L + L)
      /\ count <= L => AllColumns(first, vi * L + count)
  BY ColumnsStored
<1>4. ASSUME ~(count <= L) PROVE AllColumns(second, vi * L + count)
  <2>1. count - L \in Nat /\ count >= L /\ count - L <= L /\ (vi * L + L) + (count - L) = vi * L + count
    BY <1>2, <1>4
  <2>2. AllColumns(first, (vi + 1) * L) /\ Holds(NoTerms, g, (vi + 1) * L) /\ Holds(regs, g, (vi + 1) * L - L)
    BY <1>2, <1>3, <2>1
  <2> HIDE DEF first
  <2>3. AllColumns(Stored(first, vi + 1, Leaving(NoTerms, regs), count - L), (vi + 1) * L + (count - L))
    BY <1>2, <2>1, <2>2, ColumnsStored
  <2> QED BY <1>2, <2>1, <2>3
<1>5. DOMAIN first = Limbs /\ DOMAIN second = Limbs
  BY DEF Stored
<1> QED BY <1>1, <1>3, <1>4, <1>5

-----------------------------------------------------------------------------
(* One vector of digits of b *)

NarrowTable == [k \in Register |-> [s \in Int |-> Share(DigitsB, DigitsA, 0, k, s)]]

LEMMA NarrowTableRight ==
  ASSUME NarrowShape
  PROVE  /\ RightTable(NarrowTable)
         /\ \A base \in Int : base >= an \/ base <= -L => Holds(NoTerms, NarrowTable, base)
<1>1. ProductShape /\ bn <= L
  BY DEF NarrowShape
<1>2. IsOperand(DigitsA) /\ EndsBelow(DigitsA, an) /\ IsOperand(DigitsB) /\ EndsBelow(DigitsB, bn) /\ bn \in Nat /\ an \in Nat
  BY <1>1, ProductOperands
<1>3. ASSUME NEW k \in Register, NEW s \in Int
      PROVE  /\ NarrowTable[k][s] = Share(DigitsB, DigitsA, 0, k, s) /\ NarrowTable[k][s] \in Nat
             /\ s >= an \/ s < 0 => NarrowTable[k][s] = 0
  <2>1. k \in Int /\ 0 \in Int
    BY VectorSizes
  <2>2. /\ Share(DigitsB, DigitsA, 0, k, s) \in Nat
        /\ DigitsA[s] = 0 => Share(DigitsB, DigitsA, 0, k, s) = 0
    BY <1>2, <2>1, ShareBounds
  <2>3. s >= an \/ s < 0 => DigitsA[s] = 0
    BY <1>2 DEF EndsBelow, IsOperand
  <2> QED BY <2>2, <2>3 DEF NarrowTable
<1>4. IsTable(NarrowTable)
  BY <1>3 DEF IsTable
<1>5. ASSUME NEW t \in Nat, NEW f, ColumnOf(f, NarrowTable, t) PROVE Total(f, L + 1) = ProductColumn(t, 0)
  <2> DEFINE g == [y \in 0 .. L - 1 |-> Partial(DigitsB, DigitsA, t, y)]
  <2>1. t \in Int /\ 0 \in Int
    OBVIOUS
  <2>2. Shares(f, DigitsB, DigitsA, 0, t)
    <3> SUFFICES ASSUME NEW k \in 0 .. L PROVE f[k] = Share(DigitsB, DigitsA, 0, k, (t - 0) - k)
      BY DEF Shares
    <3>1. k \in Register /\ k \in Int /\ t - k \in Int /\ (t - 0) - k = t - k
      BY VectorSizes
    <3>2. f[k] = NarrowTable[k][t - k]
      BY <1>5, <3>1 DEF ColumnOf
    <3> QED BY <1>3, <3>1, <3>2
  <2>3. Partials(g, DigitsB, DigitsA, 0, t)
    BY DEF Partials
  <2>4. Convolved(DigitsB, DigitsA, L, t) = Total(g, L)
    BY DEF Convolved
  <2> HIDE DEF g
  <2>5. Total(f, L + 1) = Total(g, L)
    BY <1>2, <2>1, <2>2, <2>3, ShareColumn
  <2>6. EndsBelow(DigitsB, L) /\ L \in Nat
    BY <1>1, <1>2, VectorSizes DEF EndsBelow
  <2>7. Convolved(DigitsB, DigitsA, L, t) = Conv(DigitsB, DigitsA, t)
    BY <1>2, <2>6, ConvolvedIs
  <2> QED BY <1>1, <2>4, <2>5, <2>7, ProductOperands
<1>6. ASSUME NEW base \in Int, base >= an \/ base <= -L PROVE Holds(NoTerms, NarrowTable, base)
  <2> SUFFICES ASSUME NEW k \in Register, NEW l \in Lane PROVE NoTerms[k][l] = Word(NarrowTable[k][base + l])
    BY DEF Holds
  <2>1. base + l \in Int /\ (base + l >= an \/ base + l < 0)
    BY <1>2, <1>6, VectorSizes
  <2>2. NarrowTable[k][base + l] = 0
    BY <1>3, <2>1
  <2>3. Word(0) = 0
    <3>1. 0 \in 0 .. Width - 1
      BY FullWord
    <3> QED BY <3>1, SmallWord
  <2> QED BY <2>2, <2>3 DEF NoTerms, Zero
<1> QED BY <1>4, <1>5, <1>6 DEF RightTable

LEMMA NarrowRegisters ==
  ASSUME NarrowShape, NEW base \in Int, NEW ax, VectorFrom(ax, DigitsA, base)
  PROVE  Holds(NarrowTerms(ax), NarrowTable, base)
<1> SUFFICES ASSUME NEW k \in Register, NEW l \in Lane
             PROVE  NarrowTerms(ax)[k][l] = Word(NarrowTable[k][base + l])
  BY DEF Holds
<1>1. ProductShape /\ bn <= L /\ bn \in Nat /\ bn > 0
  BY DEF NarrowShape, ProductShape
<1>2. IsOperand(DigitsA) /\ IsOperand(DigitsB)
  BY <1>1, ProductOperands
<1>3. base + l \in Int
  BY VectorSizes
<1>4. NarrowTable[k][base + l] = Share(DigitsB, DigitsA, 0, k, base + l)
  BY <1>3 DEF NarrowTable
<1>5. \A j \in Int : DigitsB[j] = IF 0 <= j /\ j < bn THEN bp[j] ELSE 0
  BY DEF DigitsB, Cut
<1>6. CASE bn # 1 /\ bn # 2
  <2>1. SplatFrom(bp, 0, bn - 1, DigitsB, 0)
    <3> SUFFICES ASSUME NEW j \in 0 .. L - 1 PROVE DigitsB[0 + j] = IF j <= bn - 1 THEN bp[0 * L + j] ELSE 0
      BY DEF SplatFrom
    <3>1. 0 + j = j /\ j \in Int /\ 0 <= j /\ 0 * L + j = j /\ (j <= bn - 1 <=> j < bn)
      BY <1>1, VectorSizes
    <3> QED BY <1>5, <3>1
  <2>2. bn - 1 \in -1 .. L - 1 /\ 0 \in Nat /\ 0 \in Int
    BY <1>1, VectorSizes
  <2>3. Terms(ax, bp, 0, bn - 1)[k][l] = Word(Share(DigitsB, DigitsA, 0, k, base + l))
    <3> DEFINE z == 0  m == bn - 1
    <3>1. z \in Nat /\ z \in Int /\ m \in -1 .. L - 1 /\ SplatFrom(bp, z, m, DigitsB, z)
      BY <2>1, <2>2
    <3> HIDE DEF z, m
    <3>2. Terms(ax, bp, z, m)[k][l] = Word(Share(DigitsB, DigitsA, z, k, base + l))
      BY <1>2, <3>1, TermsLane
    <3> QED BY <3>2 DEF z, m
  <2> QED BY <1>4, <1>6, <2>3 DEF NarrowTerms, Diagonals
<1>7. CASE bn = 1 \/ bn = 2
  <2> DEFINE w == ax[l]  x == DigitsB[k]  z == DigitsB[k - 1]
  <2>1. k \in Int /\ 0 <= k /\ k <= L /\ k - 1 \in Int /\ 0 + k = k /\ 0 + (k - 1) = k - 1 /\ B \in Nat /\ B >= 2 /\ L > 0 /\ L \in Nat
    BY VectorSizes
  <2>2. w \in 0 .. B - 1 /\ w = DigitsA[base + l] /\ x \in 0 .. B - 1 /\ z \in 0 .. B - 1
    <3>1. w = DigitsA[base + l]
      BY DEF VectorFrom
    <3> QED BY <1>2, <1>3, <2>1, <3>1 DEF IsOperand
  <2>3. Share(DigitsB, DigitsA, 0, k, base + l) = (IF k < L THEN LowOf(x, w) ELSE 0) + (IF 1 <= k THEN HighOf(z, w) ELSE 0)
    BY <2>1, <2>2 DEF Share
  <2>4. x = (IF k < bn THEN bp[k] ELSE 0) /\ (1 <= k => z = IF k - 1 < bn THEN bp[k - 1] ELSE 0)
    BY <1>5, <2>1
  <2>5. NarrowTerms(ax)[k][l]
          = IF bn = 1 THEN IF k = 0 THEN LowOf(w, bp[0]) ELSE IF k = 1 THEN HighOf(w, bp[0]) ELSE 0
            ELSE IF k = 0 THEN LowOf(w, bp[0]) ELSE IF k = 1 THEN Word(HighOf(w, bp[0]) + LowOf(w, bp[1]))
            ELSE IF k = 2 THEN HighOf(w, bp[1]) ELSE 0
    <3>1. 0 \in Register /\ 1 \in Register /\ (bn = 2 => 2 \in Register)
      BY <1>1, VectorSizes
    <3>2. CASE bn = 1
      <4>1. NarrowTerms(ax) = [NoTerms EXCEPT ![0] = Lo(ax, bp[0]), ![1] = Hi(ax, bp[0])]
        BY <3>2 DEF NarrowTerms, DiagonalsOne
      <4>2. NarrowTerms(ax)[k] = IF k = 1 THEN Hi(ax, bp[0]) ELSE IF k = 0 THEN Lo(ax, bp[0]) ELSE Zero
        BY <3>1, <4>1 DEF NoTerms
      <4> QED BY <3>2, <4>2 DEF Lo, Hi, Zero, LowOf, HighOf
    <3>3. CASE bn = 2
      <4>1. NarrowTerms(ax) = [NoTerms EXCEPT ![0] = Lo(ax, bp[0]), ![1] = Plus(Hi(ax, bp[0]), Lo(ax, bp[1])), ![2] = Hi(ax, bp[1])]
        BY <3>3 DEF NarrowTerms, DiagonalsTwo
      <4>2. NarrowTerms(ax)[k] = IF k = 2 THEN Hi(ax, bp[1]) ELSE IF k = 1 THEN Plus(Hi(ax, bp[0]), Lo(ax, bp[1]))
                                 ELSE IF k = 0 THEN Lo(ax, bp[0]) ELSE Zero
        BY <3>1, <3>3, <4>1 DEF NoTerms
      <4> QED BY <3>3, <4>2 DEF Lo, Hi, Plus, Zero, LowOf, HighOf
    <3> QED BY <1>7, <3>2, <3>3
  <2> HIDE DEF w, x, z
  <2>6. /\ LowOf(w, x) = LowOf(x, w) /\ HighOf(w, z) = HighOf(z, w) /\ LowOf(0, w) = 0 /\ HighOf(0, w) = 0
        /\ LowOf(x, w) \in 0 .. B - 1 /\ HighOf(z, w) \in 0 .. B - 1
    BY <2>2, HalfDigits
  <2>7. \A y \in 0 .. B - 1 : y \in 0 .. Width - 1 /\ Word(y) = y
    <3> SUFFICES ASSUME NEW y \in 0 .. B - 1 PROVE y \in 0 .. Width - 1
      BY SmallWord
    <3>1. B <= Width /\ Width \in Nat
      <4>1. Width = B * H /\ H \in Nat /\ H >= 1 /\ B \in Nat
        BY Parameters
      <4>2. 1 * B <= H * B
        BY <4>1, MulLe
      <4> QED BY <4>1, <4>2
    <3> QED BY <2>1, <3>1
  <2>8. CASE bn = 1
    <3>1. CASE k = 0
      BY <1>4, <2>1, <2>3, <2>4, <2>5, <2>6, <2>7, <2>8, <3>1
    <3>2. CASE k = 1
      BY <1>4, <2>1, <2>3, <2>4, <2>5, <2>6, <2>7, <2>8, <3>2
    <3>3. CASE k > 1
      BY <1>4, <2>1, <2>3, <2>4, <2>5, <2>6, <2>7, <2>8, <3>3
    <3> QED BY <2>1, <3>1, <3>2, <3>3
  <2>9. CASE bn = 2
    <3>1. CASE k = 0
      BY <1>4, <2>1, <2>3, <2>4, <2>5, <2>6, <2>7, <2>9, <3>1
    <3>2. CASE k = 1
      <4>1. k < L /\ x = bp[1] /\ z = bp[0]
        BY <1>1, <2>1, <2>4, <2>9, <3>2
      <4>2. LowOf(x, w) + HighOf(z, w) = HighOf(z, w) + LowOf(x, w)
        BY <2>6
      <4> QED BY <1>4, <2>3, <2>5, <2>6, <2>9, <3>2, <4>1, <4>2
    <3>3. CASE k = 2
      BY <1>4, <2>1, <2>3, <2>4, <2>5, <2>6, <2>7, <2>9, <3>3
    <3>4. CASE k > 2
      BY <1>4, <2>1, <2>3, <2>4, <2>5, <2>6, <2>7, <2>9, <3>4
    <3> QED BY <2>1, <3>1, <3>2, <3>3, <3>4
  <2> QED BY <1>7, <2>8, <2>9
<1> QED BY <1>6, <1>7

-----------------------------------------------------------------------------
(* Both operands of several vectors *)

LowA == Cut(ap, 0, LastA * L)
HighA == Cut(ap, LastA * L, an)
LowB == Cut(bp, 0, LastB * L)
HighB == Cut(bp, LastB * L, bn)
TopShare(k, s) ==
  IF TopA < TopB THEN Share(DigitsA, HighB, LastA * L, k, s - LastA * L)
  ELSE Share(DigitsB, HighA, LastB * L, k, s - LastB * L)
WideTable ==
  [k \in Register |-> [s \in Int |->
     (Gather(DigitsB, LowA, LastB + 1, k, s) + Share(DigitsA, LowB, LastA * L, k, s - LastA * L)) + TopShare(k, s)]]

LEMMA WideSizes ==
  ASSUME WideShape
  PROVE  /\ LastA \in Nat /\ LastB \in Nat /\ TopA \in 0 .. L - 1 /\ TopB \in 0 .. L - 1 /\ LastB <= LastA
         /\ LastA * L \in Nat /\ LastB * L \in Nat
         /\ an = LastA * L + TopA + 1 /\ bn = LastB * L + TopB + 1
<1>1. an \in Nat /\ an > 0 /\ bn \in Nat /\ bn > 0 /\ bn <= an /\ an - 1 \in Nat /\ bn - 1 \in Nat /\ L \in Nat /\ L > 0
  BY VectorSizes DEF WideShape, ProductShape
<1>2. LastA \in Nat /\ TopA \in 0 .. L - 1 /\ LastA * L \in Nat /\ an - 1 = LastA * L + TopA
  BY <1>1, Vectors DEF LastA, TopA
<1>3. LastB \in Nat /\ TopB \in 0 .. L - 1 /\ LastB * L \in Nat /\ bn - 1 = LastB * L + TopB
  BY <1>1, Vectors DEF LastB, TopB
<1>4. LastB <= LastA
  <2> SUFFICES ASSUME LastA < LastB PROVE FALSE
    BY <1>2, <1>3
  <2>1. LastA * L + L <= LastB * L
    BY <1>2, <1>3, BelowProduct
  <2> DEFINE a == LastA * L  b == LastB * L
  <2>2. a + L <= b /\ an - 1 = a + TopA /\ bn - 1 = b + TopB /\ a \in Nat /\ b \in Nat
    BY <1>2, <1>3, <2>1
  <2> HIDE DEF a, b
  <2> QED BY <1>1, <1>2, <1>3, <2>2
<1>5. an = LastA * L + TopA + 1 /\ bn = LastB * L + TopB + 1
  <2> DEFINE a == LastA * L  b == LastB * L
  <2>1. an - 1 = a + TopA /\ bn - 1 = b + TopB /\ a \in Nat /\ b \in Nat
    BY <1>2, <1>3
  <2> HIDE DEF a, b
  <2>2. an = a + TopA + 1 /\ bn = b + TopB + 1
    BY <1>1, <1>2, <1>3, <2>1
  <2> QED BY <2>2 DEF a, b
<1> QED BY <1>2, <1>3, <1>4, <1>5

LEMMA WideOperands ==
  ASSUME WideShape
  PROVE  /\ IsOperand(DigitsA) /\ IsOperand(DigitsB) /\ IsOperand(LowA) /\ IsOperand(HighA) /\ IsOperand(LowB) /\ IsOperand(HighB)
         /\ EndsBelow(LowA, LastA * L) /\ EndsBelow(LowB, LastB * L) /\ EndsBelow(HighA, an) /\ EndsBelow(HighB, bn)
         /\ EndsBelow(DigitsA, LastA * L + L) /\ EndsBelow(DigitsB, LastB * L + L)
         /\ Parted(DigitsA, LowA, HighA) /\ Parted(DigitsB, LowB, HighB)
<1> DEFINE a == LastA * L  b == LastB * L
<1>1. a \in Nat /\ b \in Nat /\ an = a + TopA + 1 /\ bn = b + TopB + 1 /\ TopA \in 0 .. L - 1 /\ TopB \in 0 .. L - 1 /\ L \in Nat
  BY WideSizes, VectorSizes
<1>2. /\ IsDigits(ap, 0, an) /\ IsDigits(bp, 0, bn) /\ ProductShape
  BY DEF WideShape, ProductShape
<1>3. /\ IsOperand(DigitsA) /\ EndsBelow(DigitsA, an) /\ IsOperand(DigitsB) /\ EndsBelow(DigitsB, bn)
      /\ an \in Nat /\ bn \in Nat /\ 0 \in Nat
  BY <1>2, ProductOperands
<1>4. LowA = Cut(ap, 0, a) /\ HighA = Cut(ap, a, an) /\ LowB = Cut(bp, 0, b) /\ HighB = Cut(bp, b, bn)
  BY DEF LowA, HighA, LowB, HighB
<1> HIDE DEF a, b
<1>5. a <= an /\ b <= bn /\ an <= a + L /\ bn <= b + L
  BY <1>1
<1>6. IsDigits(ap, 0, a) /\ IsDigits(ap, a, an) /\ IsDigits(bp, 0, b) /\ IsDigits(bp, b, bn)
  BY <1>1, <1>2, <1>5 DEF IsDigits
<1>7. /\ IsOperand(LowA) /\ IsOperand(HighA) /\ IsOperand(LowB) /\ IsOperand(HighB)
      /\ EndsBelow(LowA, a) /\ EndsBelow(LowB, b) /\ EndsBelow(HighA, an) /\ EndsBelow(HighB, bn)
  BY <1>1, <1>3, <1>4, <1>6, CutIs
<1>8. EndsBelow(DigitsA, a + L) /\ EndsBelow(DigitsB, b + L)
  BY <1>1, <1>3, <1>5 DEF EndsBelow
<1>9. Parted(DigitsA, LowA, HighA) /\ Parted(DigitsB, LowB, HighB)
  BY <1>1, <1>3, <1>4, <1>5, CutParted DEF DigitsA, DigitsB
<1> QED BY <1>3, <1>7, <1>8, <1>9 DEF a, b

(* The registers of one splat vector, its operand's last, are columns of the *)
(* digits it holds.                                                          *)
Beginning(top, u, o) == \A j \in Int : top[j] = IF o <= j THEN u[j] ELSE 0
SharesAt(f, u, v, o, t) == \A k \in 0 .. L : f[k] = Share(u, v, o, k, (t - k) - o)
LEMMA TopColumn ==
  ASSUME NEW u, NEW top, NEW v, IsOperand(u), IsOperand(top), IsOperand(v), NEW o \in Nat, NEW t \in Nat,
         Beginning(top, u, o), EndsBelow(u, o + L), NEW f, SharesAt(f, u, v, o, t)
  PROVE  IntLimbs(f, L + 1) /\ Total(f, L + 1) = Conv(top, v, t)
<1> DEFINE n == o + L
           g == [k \in 0 .. L - 1 |-> Partial(u, v, t, o + k)]
           h == [y \in 0 .. n - 1 |-> Partial(top, v, t, y)]
<1>1. L \in Nat /\ L > 0 /\ L + 1 \in Nat /\ n \in Nat /\ o \in Int /\ t \in Int /\ o \in 0 .. n
  BY VectorSizes
<1>2. Shares(f, u, v, o, t) /\ Partials(g, u, v, o, t)
  <2>1. \A k \in 0 .. L : (t - o) - k = (t - k) - o
    BY <1>1
  <2> QED BY <2>1 DEF Shares, Partials, SharesAt
<1>3. IntLimbs(f, L + 1) /\ Total(f, L + 1) = Total(g, L)
  BY <1>1, <1>2, ShareColumn
<1>4. IntLimbs(h, n)
  BY <1>1, PartialsOf
<1>5. \A y \in 0 .. o - 1 : h[y] = 0
  <2> SUFFICES ASSUME NEW y \in 0 .. o - 1 PROVE h[y] = 0
    OBVIOUS
  <2>1. y \in 0 .. n - 1 /\ y \in Int /\ ~(o <= y)
    BY <1>1
  <2>2. top[y] = 0
    BY <2>1 DEF Beginning
  <2>3. Partial(top, v, t, y) = 0
    BY <1>1, <2>1, <2>2, PartialsOf
  <2> QED BY <2>1, <2>3
<1>6. Piece(g, h, o, L)
  <2> SUFFICES ASSUME NEW k \in 0 .. L - 1 PROVE g[k] = h[o + k]
    BY DEF Piece
  <2>1. o + k \in 0 .. n - 1 /\ o + k \in Int /\ o <= o + k
    BY <1>1
  <2>2. top[o + k] = u[o + k]
    BY <2>1 DEF Beginning
  <2> QED BY <2>1, <2>2 DEF Partial
<1>7. EndsBelow(top, n)
  <2>1. \A j \in Int : j >= n => u[j] = 0
    BY DEF EndsBelow
  <2>2. \A j \in Int : j >= n => top[j] = 0
    BY <2>1 DEF Beginning
  <2> QED BY <2>2 DEF EndsBelow
<1>8. Convolved(top, v, n, t) = Total(h, n)
  BY DEF Convolved
<1>9. Convolved(top, v, n, t) = Conv(top, v, t)
  <2> HIDE DEF n
  <2> QED BY <1>1, <1>7, ConvolvedIs
<1> HIDE DEF g, h
<1>10. IntLimbs(h, o)
  BY <1>1, <1>4 DEF IntLimbs
<1>11. Total(h, o + L) = Total(h, o) + Total(g, L)
  BY <1>1, <1>4, <1>6, TotalSplit
<1>12. Total(h, o) = 0
  BY <1>5, TotalOfZeros
<1>13. Total(g, L) \in Int
  <2>1. Total(f, L + 1) \in Int
    BY <1>1, <1>3, TotalSteps
  <2> QED BY <1>3, <2>1
<1> QED BY <1>3, <1>8, <1>9, <1>11, <1>12, <1>13

(* A share is zero where the vector's operand is. *)
LEMMA ShareZero ==
  ASSUME NEW u, NEW v, IsOperand(u), IsOperand(v), NEW o \in Int, NEW k \in Int, NEW s \in Int
  PROVE  /\ Share(u, v, o, k, s) \in Nat
         /\ s < 0 => Share(u, v, o, k, s) = 0
         /\ v[s] = 0 => Share(u, v, o, k, s) = 0
         /\ \A n \in Int : EndsBelow(v, n) /\ s >= n => Share(u, v, o, k, s) = 0
<1>1. Share(u, v, o, k, s) \in Nat /\ (v[s] = 0 => Share(u, v, o, k, s) = 0)
  BY ShareBounds
<1>2. s < 0 => v[s] = 0
  BY DEF IsOperand
<1>3. \A n \in Int : EndsBelow(v, n) /\ s >= n => v[s] = 0
  BY DEF EndsBelow
<1> QED BY <1>1, <1>2, <1>3

(* The parts of the table, and where they are zero. *)
LowShare(k, s) == Share(DigitsA, LowB, LastA * L, k, s - LastA * L)
Splat(k, s) == Gather(DigitsB, LowA, LastB + 1, k, s)

LEMMA WideParts ==
  ASSUME WideShape, NEW k \in Register, NEW s \in Int
  PROVE  /\ WideTable[k][s] = (Splat(k, s) + LowShare(k, s)) + TopShare(k, s)
         /\ Splat(k, s) \in Int /\ LowShare(k, s) \in Int /\ TopShare(k, s) \in Int
         /\ s < 0 \/ s >= LastA * L + LastB * L => Splat(k, s) = 0 /\ LowShare(k, s) = 0
         /\ s < LastA * L + LastB * L \/ s >= LastA * L + LastB * L + L => TopShare(k, s) = 0
<1> DEFINE a == LastA * L  b == LastB * L
<1>1. /\ k \in Int /\ a \in Nat /\ b \in Nat /\ a \in Int /\ b \in Int /\ L \in Nat /\ L > 0 /\ LastB + 1 \in Nat /\ LastB \in Nat
      /\ s - a \in Int /\ s - b \in Int
  <2>1. a \in Nat /\ b \in Nat /\ LastB \in Nat /\ L \in Nat /\ L > 0 /\ Register = 0 .. L
    BY WideSizes, VectorSizes
  <2> HIDE DEF a, b
  <2> QED BY <2>1
<1>2. WideTable[k][s] = (Splat(k, s) + LowShare(k, s)) + TopShare(k, s)
  BY DEF WideTable, Splat, LowShare
<1>3. Splat(k, s) \in Int /\ (s < 0 \/ s >= a + b => Splat(k, s) = 0)
  <2>1. Splat(k, s) \in Int
    BY <1>1, GatherBounds, WideOperands DEF Splat
  <2> DEFINE f == [q \in 0 .. (LastB + 1) - 1 |-> Share(DigitsB, LowA, q * L, k, s - q * L)]
  <2>2. ASSUME s < 0 \/ s >= a + b, NEW q \in 0 .. (LastB + 1) - 1 PROVE f[q] = 0
    <3> DEFINE o == q * L
    <3>1. o \in Int /\ o >= 0 /\ o <= b
      <4>1. q \in Int /\ LastB \in Int /\ q <= LastB
        BY <1>1
      <4>2. q * L <= LastB * L
        BY <1>1, <4>1, MulLe
      <4> QED BY <1>1, <4>2
    <3>2. f[q] = Share(DigitsB, LowA, o, k, s - o)
      OBVIOUS
    <3> HIDE DEF a, b, o, f
    <3>3. s - o \in Int /\ (s - o < 0 \/ s - o >= a)
      BY <1>1, <2>2, <3>1
    <3>4. EndsBelow(LowA, a) /\ IsOperand(LowA) /\ IsOperand(DigitsB)
      BY WideOperands DEF a
    <3>5. Share(DigitsB, LowA, o, k, s - o) = 0
      BY <1>1, <3>1, <3>3, <3>4, ShareZero
    <3> QED BY <3>2, <3>5
  <2>3. Splat(k, s) = Total(f, LastB + 1)
    BY DEF Splat, Gather
  <2> HIDE DEF f
  <2>4. s < 0 \/ s >= a + b => Total(f, LastB + 1) = 0
    BY <1>1, <2>2, TotalOfZeros
  <2> QED BY <2>1, <2>3, <2>4
<1>4. LowShare(k, s) \in Int /\ (s < 0 \/ s >= a + b => LowShare(k, s) = 0)
  <2>1. LowShare(k, s) = Share(DigitsA, LowB, a, k, s - a)
    BY DEF LowShare
  <2>2. EndsBelow(LowB, b) /\ IsOperand(LowB) /\ IsOperand(DigitsA)
    BY WideOperands
  <2> HIDE DEF a, b
  <2>3. s < 0 \/ s >= a + b => s - a < 0 \/ s - a >= b
    BY <1>1
  <2> QED BY <1>1, <2>1, <2>2, <2>3, ShareZero
<1>5. TopShare(k, s) \in Int /\ (s < a + b \/ s >= a + b + L => TopShare(k, s) = 0)
  <2>1. CASE TopA < TopB
    <3> DEFINE y == s - a
    <3>1. TopShare(k, s) = Share(DigitsA, HighB, a, k, y)
      BY <2>1 DEF TopShare
    <3>2. /\ IsOperand(HighB) /\ IsOperand(DigitsA)
          /\ \A j \in Int : j < b \/ j >= b + L => HighB[j] = 0
      <4>1. IsOperand(HighB) /\ IsOperand(DigitsA) /\ EndsBelow(HighB, bn)
        BY WideOperands
      <4>2. bn = b + TopB + 1 /\ TopB \in 0 .. L - 1
        BY WideSizes
      <4>3. \A j \in Int : HighB[j] = IF b <= j /\ j < bn THEN bp[j] ELSE 0
        BY DEF HighB, Cut
      <4> HIDE DEF a, b
      <4> QED BY <1>1, <4>1, <4>2, <4>3
    <3> HIDE DEF a, b
    <3>3. y \in Int /\ (s < a + b \/ s >= a + b + L => y < b \/ y >= b + L)
      BY <1>1
    <3> HIDE DEF y
    <3>4. Share(DigitsA, HighB, a, k, y) \in Nat /\ (HighB[y] = 0 => Share(DigitsA, HighB, a, k, y) = 0)
      BY <1>1, <3>2, <3>3, ShareZero
    <3> QED BY <3>1, <3>2, <3>3, <3>4
  <2>2. CASE ~(TopA < TopB)
    <3> DEFINE y == s - b
    <3>1. TopShare(k, s) = Share(DigitsB, HighA, b, k, y)
      BY <2>2 DEF TopShare
    <3>2. /\ IsOperand(HighA) /\ IsOperand(DigitsB)
          /\ \A j \in Int : j < a \/ j >= a + L => HighA[j] = 0
      <4>1. IsOperand(HighA) /\ IsOperand(DigitsB) /\ EndsBelow(HighA, an)
        BY WideOperands
      <4>2. an = a + TopA + 1 /\ TopA \in 0 .. L - 1
        BY WideSizes
      <4>3. \A j \in Int : HighA[j] = IF a <= j /\ j < an THEN ap[j] ELSE 0
        BY DEF HighA, Cut
      <4> HIDE DEF a, b
      <4> QED BY <1>1, <4>1, <4>2, <4>3
    <3> HIDE DEF a, b
    <3>3. y \in Int /\ (s < a + b \/ s >= a + b + L => y < a \/ y >= a + L)
      BY <1>1
    <3> HIDE DEF y
    <3>4. Share(DigitsB, HighA, b, k, y) \in Nat /\ (HighA[y] = 0 => Share(DigitsB, HighA, b, k, y) = 0)
      BY <1>1, <3>2, <3>3, ShareZero
    <3> QED BY <3>1, <3>2, <3>3, <3>4
  <2> QED BY <2>1, <2>2
<1> QED BY <1>2, <1>3, <1>4, <1>5

LEMMA WideTableRight ==
  ASSUME WideShape
  PROVE  RightTable(WideTable)
<1>1. IsTable(WideTable)
  <2> SUFFICES ASSUME NEW k \in Register, NEW s \in Int PROVE WideTable[k][s] \in Int
    BY DEF IsTable
  <2>1. /\ WideTable[k][s] = (Splat(k, s) + LowShare(k, s)) + TopShare(k, s)
        /\ Splat(k, s) \in Int /\ LowShare(k, s) \in Int /\ TopShare(k, s) \in Int
    BY WideParts
  <2> QED BY <2>1
<1>2. ASSUME NEW t \in Nat, NEW f, ColumnOf(f, WideTable, t) PROVE Total(f, L + 1) = ProductColumn(t, 0)
  <2> DEFINE a == LastA * L  b == LastB * L
             f1 == [k \in 0 .. L |-> Splat(k, t - k)]
             f2 == [k \in 0 .. L |-> LowShare(k, t - k)]
             f3 == [k \in 0 .. L |-> TopShare(k, t - k)]
             f12 == [k \in 0 .. L |-> f1[k] + f2[k]]
  <2>1. /\ a \in Nat /\ b \in Nat /\ L \in Nat /\ L + 1 \in Nat /\ LastB + 1 \in Nat /\ t \in Int /\ Register = 0 .. L
        /\ \A k \in 0 .. (L + 1) - 1 : k \in 0 .. L
    BY SMTT(60), WideSizes, VectorSizes
  <2>2. /\ IsOperand(DigitsA) /\ IsOperand(DigitsB) /\ IsOperand(LowA) /\ IsOperand(HighA) /\ IsOperand(LowB) /\ IsOperand(HighB)
        /\ EndsBelow(DigitsA, a + L) /\ EndsBelow(DigitsB, b + L)
        /\ Parted(DigitsA, LowA, HighA) /\ Parted(DigitsB, LowB, HighB)
    BY WideOperands
  <2>3. IntLimbs(f1, L + 1) /\ Total(f1, L + 1) = Conv(DigitsB, LowA, t)
    <3>1. \A k \in 0 .. L : f1[k] = Gather(DigitsB, LowA, LastB + 1, k, t - k)
      BY DEF Splat
    <3> HIDE DEF f1
    <3>2. IntLimbs(f1, L + 1) /\ Total(f1, L + 1) = Convolved(DigitsB, LowA, (LastB + 1) * L, t)
      BY <2>1, <2>2, <3>1, GatherColumn
    <3>3. (LastB + 1) * L = b + L /\ (LastB + 1) * L \in Nat
      <4>1. LastB \in Nat
        BY WideSizes
      <4> QED BY <2>1, <4>1
    <3>4. EndsBelow(DigitsB, (LastB + 1) * L)
      BY <2>2, <3>3
    <3>5. Convolved(DigitsB, LowA, (LastB + 1) * L, t) = Conv(DigitsB, LowA, t)
      <4> DEFINE n == (LastB + 1) * L
      <4>1. n \in Nat /\ EndsBelow(DigitsB, n)
        BY <3>3, <3>4
      <4> HIDE DEF n
      <4>2. Convolved(DigitsB, LowA, n, t) = Conv(DigitsB, LowA, t)
        BY <2>2, <4>1, ConvolvedIs
      <4> QED BY <4>2 DEF n
    <3> QED BY <3>2, <3>5
  <2>4. IntLimbs(f2, L + 1) /\ Total(f2, L + 1) = Conv(HighA, LowB, t)
    <3>1. SharesAt(f2, DigitsA, LowB, a, t)
      BY DEF LowShare, SharesAt
    <3>2. Beginning(HighA, DigitsA, a)
      BY <2>1 DEF HighA, DigitsA, Cut, Beginning
    <3> HIDE DEF f2, a
    <3> QED BY <2>1, <2>2, <3>1, <3>2, TopColumn
  <2>5. IntLimbs(f3, L + 1) /\ Total(f3, L + 1) = Conv(HighA, HighB, t)
    <3>1. CASE TopA < TopB
      <4>1. SharesAt(f3, DigitsA, HighB, a, t)
        BY <3>1 DEF TopShare, SharesAt
      <4>2. Beginning(HighA, DigitsA, a)
        BY <2>1 DEF HighA, DigitsA, Cut, Beginning
      <4> HIDE DEF f3, a
      <4> QED BY <2>1, <2>2, <4>1, <4>2, TopColumn
    <3>2. CASE ~(TopA < TopB)
      <4>1. SharesAt(f3, DigitsB, HighA, b, t)
        BY <3>2 DEF TopShare, SharesAt
      <4>2. Beginning(HighB, DigitsB, b)
        BY <2>1 DEF HighB, DigitsB, Cut, Beginning
      <4> HIDE DEF f3, b
      <4>3. IntLimbs(f3, L + 1) /\ Total(f3, L + 1) = Conv(HighB, HighA, t)
        BY <2>1, <2>2, <4>1, <4>2, TopColumn
      <4> QED BY <2>2, <4>3, ConvSymmetric
    <3> QED BY <3>1, <3>2
  <2>6. \A k \in 0 .. (L + 1) - 1 : f[k] = f12[k] + f3[k] /\ f12[k] = f1[k] + f2[k]
    <3> SUFFICES ASSUME NEW k \in 0 .. (L + 1) - 1 PROVE f[k] = f12[k] + f3[k]
      BY <2>1
    <3>1. k \in 0 .. L /\ k \in Register /\ t - k \in Int
      BY <2>1
    <3>2. f[k] = WideTable[k][t - k]
      BY <1>2, <3>1 DEF ColumnOf
    <3>3. WideTable[k][t - k] = (Splat(k, t - k) + LowShare(k, t - k)) + TopShare(k, t - k)
      BY <3>1, WideParts
    <3> QED BY <3>1, <3>2, <3>3
  <2> HIDE DEF f1, f2, f3, f12
  <2>7. IntLimbs(f12, L + 1)
    BY <2>3, <2>4, <2>6 DEF IntLimbs
  <2>8. Total(f12, L + 1) = Total(f1, L + 1) + Total(f2, L + 1)
    BY <2>1, <2>3, <2>4, <2>6, TotalAdds
  <2>9. Total(f, L + 1) = Total(f12, L + 1) + Total(f3, L + 1)
    BY <2>1, <2>5, <2>6, <2>7, TotalAdds
  <2>10. /\ Conv(DigitsB, DigitsA, t) = Conv(DigitsB, LowA, t) + Conv(DigitsB, HighA, t)
         /\ Conv(HighA, DigitsB, t) = Conv(HighA, LowB, t) + Conv(HighA, HighB, t)
    BY <2>2, ConvParted
  <2>11. Conv(DigitsB, HighA, t) = Conv(HighA, DigitsB, t)
    BY <2>2, ConvSymmetric
  <2>12. Conv(DigitsB, LowA, t) \in Int /\ Conv(HighA, LowB, t) \in Int /\ Conv(HighA, HighB, t) \in Int
    <3>1. Total(f1, L + 1) \in Int /\ Total(f2, L + 1) \in Int /\ Total(f3, L + 1) \in Int
      BY <2>1, <2>3, <2>4, <2>5, TotalSteps
    <3> QED BY <2>3, <2>4, <2>5, <3>1
  <2>13. ProductColumn(t, 0) = Conv(DigitsB, DigitsA, t)
    BY ProductOperands DEF WideShape
  <2> QED BY <2>3, <2>4, <2>5, <2>8, <2>9, <2>10, <2>11, <2>12, <2>13
<1> QED BY <1>1, <1>2 DEF RightTable

LEMMA ZeroWord == Word(0) = 0
<1>1. 0 \in 0 .. Width - 1
  BY FullWord
<1> QED BY <1>1, SmallWord

LEMMA WideZero ==
  ASSUME WideShape
  PROVE  \A base \in Int : base >= (LastA + LastB) * L + L \/ base <= -L => Holds(NoTerms, WideTable, base)
<1> SUFFICES ASSUME NEW base \in Int, base >= (LastA + LastB) * L + L \/ base <= -L, NEW k \in Register, NEW l \in Lane
             PROVE  NoTerms[k][l] = Word(WideTable[k][base + l])
  BY DEF Holds
<1> DEFINE a == LastA * L  b == LastB * L  s == base + l
<1>1. a \in Nat /\ b \in Nat /\ L \in Nat /\ L > 0 /\ Lane = 0 .. L - 1 /\ (LastA + LastB) * L = a + b
  <2>1. LastA \in Nat /\ LastB \in Nat /\ a \in Nat /\ b \in Nat
    BY WideSizes
  <2>2. (LastA + LastB) * L = a + b
    BY <2>1, VectorSizes
  <2> QED BY <2>1, <2>2, VectorSizes
<1>2. s \in Int /\ (s < 0 \/ s >= a + b + L)
  <2> HIDE DEF a, b
  <2> QED BY <1>1
<1>3. /\ WideTable[k][s] = (Splat(k, s) + LowShare(k, s)) + TopShare(k, s)
      /\ s < 0 \/ s >= a + b => Splat(k, s) = 0 /\ LowShare(k, s) = 0
      /\ s < a + b \/ s >= a + b + L => TopShare(k, s) = 0
  BY <1>2, WideParts
<1> HIDE DEF a, b, s
<1>4. WideTable[k][s] = 0
  BY <1>1, <1>2, <1>3
<1> QED BY <1>4, ZeroWord DEF s, NoTerms, Zero

LEMMA WideDigits ==
  ASSUME WideShape
  PROVE  /\ \A q \in 0 .. LastB : SplatFrom(bp, q, IF q = LastB THEN TopB ELSE L - 1, DigitsB, q * L)
         /\ SplatFrom(ap, LastA, TopA, DigitsA, LastA * L)
         /\ \A i \in 0 .. LastA - 1 : VectorFrom(Vec(ap, i), LowA, i * L)
         /\ \A i \in 0 .. LastB - 1 : VectorFrom(Vec(bp, i), LowB, i * L)
         /\ VectorFrom(Masked(Vec(ap, LastA), FirstLanes(TopA + 1)), HighA, LastA * L)
         /\ VectorFrom(Masked(Vec(bp, LastB), FirstLanes(TopB + 1)), HighB, LastB * L)
<1>1. /\ LastA \in Nat /\ LastB \in Nat /\ TopA \in 0 .. L - 1 /\ TopB \in 0 .. L - 1 /\ LastB <= LastA
      /\ LastA * L \in Nat /\ LastB * L \in Nat
      /\ an = LastA * L + TopA + 1 /\ bn = LastB * L + TopB + 1 /\ L \in Nat /\ L > 0 /\ Lane = 0 .. L - 1
  BY WideSizes, VectorSizes
<1>2. ASSUME NEW i \in Nat, NEW m \in Nat, i < m PROVE i * L \in Nat /\ i * L + L <= m * L
  BY <1>2, BelowProduct
<1>3. ASSUME NEW q \in 0 .. LastB PROVE SplatFrom(bp, q, IF q = LastB THEN TopB ELSE L - 1, DigitsB, q * L)
  <2> SUFFICES ASSUME NEW k \in 0 .. L - 1
               PROVE DigitsB[q * L + k] = IF k <= (IF q = LastB THEN TopB ELSE L - 1) THEN bp[q * L + k] ELSE 0
    BY DEF SplatFrom
  <2> DEFINE o == q * L  b == LastB * L
  <2>1. q < LastB => o + L <= b
    BY <1>1, <1>2
  <2>2. o \in Nat /\ b \in Nat /\ bn = b + TopB + 1 /\ (q = LastB => o = b)
    BY <1>1
  <2>3. q < LastB \/ q = LastB
    BY <1>1
  <2>4. DigitsB[o + k] = IF 0 <= o + k /\ o + k < bn THEN bp[o + k] ELSE 0
    <3>1. o + k \in Int
      BY <2>2
    <3> QED BY <3>1 DEF DigitsB, Cut
  <2> HIDE DEF o, b
  <2>5. 0 <= o + k /\ (o + k < bn <=> k <= (IF q = LastB THEN TopB ELSE L - 1))
    BY <1>1, <2>1, <2>2, <2>3
  <2>6. DigitsB[o + k] = IF k <= (IF q = LastB THEN TopB ELSE L - 1) THEN bp[o + k] ELSE 0
    BY <2>4, <2>5
  <2> QED BY <2>6 DEF o
<1>4. SplatFrom(ap, LastA, TopA, DigitsA, LastA * L)
  <2> DEFINE o == LastA * L
  <2>1. o \in Nat /\ an = o + TopA + 1
    BY <1>1
  <2>2. \A j \in Int : DigitsA[j] = IF 0 <= j /\ j < an THEN ap[j] ELSE 0
    BY DEF DigitsA, Cut
  <2> HIDE DEF o
  <2>3. ASSUME NEW k \in 0 .. L - 1 PROVE DigitsA[o + k] = IF k <= TopA THEN ap[o + k] ELSE 0
    BY <1>1, <2>1, <2>2
  <2> QED BY <2>3 DEF SplatFrom, o
<1>5. ASSUME NEW i \in 0 .. LastA - 1 PROVE VectorFrom(Vec(ap, i), LowA, i * L)
  <2> DEFINE o == i * L  a == LastA * L
  <2>1. o \in Nat /\ o + L <= a /\ a \in Nat
    BY <1>1, <1>2
  <2>2. \A j \in Int : LowA[j] = IF 0 <= j /\ j < a THEN ap[j] ELSE 0
    BY DEF LowA, Cut
  <2>3. \A l \in Lane : Vec(ap, i)[l] = ap[o + l]
    BY DEF Vec
  <2> HIDE DEF o, a
  <2>4. ASSUME NEW l \in Lane PROVE Vec(ap, i)[l] = LowA[o + l]
    BY <1>1, <2>1, <2>2, <2>3
  <2> QED BY <2>4 DEF VectorFrom, o
<1>6. ASSUME NEW i \in 0 .. LastB - 1 PROVE VectorFrom(Vec(bp, i), LowB, i * L)
  <2> DEFINE o == i * L  a == LastB * L
  <2>1. o \in Nat /\ o + L <= a /\ a \in Nat
    BY <1>1, <1>2
  <2>2. \A j \in Int : LowB[j] = IF 0 <= j /\ j < a THEN bp[j] ELSE 0
    BY DEF LowB, Cut
  <2>3. \A l \in Lane : Vec(bp, i)[l] = bp[o + l]
    BY DEF Vec
  <2> HIDE DEF o, a
  <2>4. ASSUME NEW l \in Lane PROVE Vec(bp, i)[l] = LowB[o + l]
    BY <1>1, <2>1, <2>2, <2>3
  <2> QED BY <2>4 DEF VectorFrom, o
<1>7. VectorFrom(Masked(Vec(ap, LastA), FirstLanes(TopA + 1)), HighA, LastA * L)
  <2> DEFINE o == LastA * L  m == Masked(Vec(ap, LastA), FirstLanes(TopA + 1))
  <2>1. o \in Nat /\ an = o + TopA + 1
    BY <1>1
  <2>2. \A j \in Int : HighA[j] = IF o <= j /\ j < an THEN ap[j] ELSE 0
    BY DEF HighA, Cut
  <2>3. \A l \in Lane : m[l] = IF l <= TopA THEN ap[o + l] ELSE 0
    BY <1>1 DEF Masked, FirstLanes, Vec
  <2> HIDE DEF o, m
  <2>4. ASSUME NEW l \in Lane PROVE m[l] = HighA[o + l]
    BY <1>1, <2>1, <2>2, <2>3
  <2> QED BY <2>4 DEF VectorFrom, o, m
<1>8. VectorFrom(Masked(Vec(bp, LastB), FirstLanes(TopB + 1)), HighB, LastB * L)
  <2> DEFINE o == LastB * L  m == Masked(Vec(bp, LastB), FirstLanes(TopB + 1))
  <2>1. o \in Nat /\ bn = o + TopB + 1
    BY <1>1
  <2>2. \A j \in Int : HighB[j] = IF o <= j /\ j < bn THEN bp[j] ELSE 0
    BY DEF HighB, Cut
  <2>3. \A l \in Lane : m[l] = IF l <= TopB THEN bp[o + l] ELSE 0
    BY <1>1 DEF Masked, FirstLanes, Vec
  <2> HIDE DEF o, m
  <2>4. ASSUME NEW l \in Lane PROVE m[l] = HighB[o + l]
    BY <1>1, <2>1, <2>2, <2>3
  <2> QED BY <2>4 DEF VectorFrom, o, m
<1> QED BY <1>3, <1>4, <1>5, <1>6, <1>7, <1>8

(* One pair of vectors. *)
LEMMA PairLane ==
  ASSUME WideShape, NEW i \in Nat, i < LastA + LastB, NEW q \in 0 .. LastB, NEW k \in Register, NEW l \in Lane
  PROVE  PairTerms(i, q)[k][l] = Word(Share(DigitsB, LowA, q * L, k, (i * L + l) - q * L))
<1> DEFINE s == (i * L + l) - q * L  upto == IF q = LastB THEN TopB ELSE L - 1  o == q * L
<1>1. /\ LastA \in Nat /\ LastB \in Nat /\ TopB \in 0 .. L - 1 /\ LastB <= LastA /\ L \in Nat /\ L > 0 /\ Lane = 0 .. L - 1
      /\ q \in Nat /\ q <= LastB /\ k \in Int /\ Register = 0 .. L
  <2>1. k \in 0 .. L
    BY VectorSizes
  <2> QED BY <2>1, WideSizes, VectorSizes
<1>2. /\ IsOperand(DigitsB) /\ IsOperand(LowA) /\ EndsBelow(LowA, LastA * L) /\ o \in Int /\ o \in Nat /\ i * L \in Nat
      /\ LastA * L \in Nat
  BY <1>1, WideOperands
<1>3. q \in Splats(i) <=> 0 <= i - q /\ i - q < LastA
  BY <1>1 DEF Splats
<1>4. CASE q \in Splats(i)
  <2> DEFINE j == i - q  b == j * L
  <2>1. j \in 0 .. LastA - 1 /\ j \in Nat
    BY <1>1, <1>3, <1>4
  <2>2. b + l = s /\ b \in Int
    <3>1. i = j + q /\ j \in Int /\ q \in Int /\ l \in Int
      BY <1>1
    <3> HIDE DEF j
    <3>2. i * L = j * L + q * L /\ j * L \in Int /\ q * L \in Int
      BY <1>1, <3>1
    <3> QED BY <3>1, <3>2
  <2>3. PairTerms(i, q) = Terms(Vec(ap, j), bp, q, upto)
    BY <1>1, <1>4 DEF PairTerms
  <2>4. VectorFrom(Vec(ap, j), LowA, b) /\ SplatFrom(bp, q, upto, DigitsB, o) /\ upto \in -1 .. L - 1
    <3>1. upto \in -1 .. L - 1
      BY <1>1
    <3> QED BY <2>1, <3>1, WideDigits
  <2> HIDE DEF upto, o, b, j
  <2>5. Terms(Vec(ap, j), bp, q, upto)[k][l] = Word(Share(DigitsB, LowA, o, k, b + l))
    BY <1>1, <1>2, <2>2, <2>4, TermsLane
  <2> QED BY <2>2, <2>3, <2>5 DEF o
<1>5. CASE q \notin Splats(i)
  <2>1. PairTerms(i, q) = NoTerms
    BY <1>1, <1>5 DEF PairTerms
  <2>2. s \in Int /\ (s < 0 \/ s >= LastA * L)
    <3> DEFINE a == i * L  c == LastA * L
    <3>1. a \in Nat /\ c \in Nat /\ o \in Nat /\ s = (a + l) - o
      BY <1>2
    <3>2. CASE i < q
      <4>1. a + L <= o
        BY <1>1, <3>2, BelowProduct
      <4> HIDE DEF a, o, c, s
      <4> QED BY <1>1, <3>1, <4>1
    <3>3. CASE i - q >= LastA
      <4>1. q + LastA <= i /\ q + LastA \in Int /\ i \in Int
        BY <1>1, <3>3
      <4>2. (q + LastA) * L <= a
        BY <1>1, <4>1, MulLe
      <4>3. (q + LastA) * L = o + c
        BY <1>1
      <4> HIDE DEF a, o, c, s
      <4>4. s \in Int /\ s >= c
        BY <1>1, <3>1, <4>2, <4>3
      <4> QED BY <4>4 DEF c
    <3> QED BY <1>1, <1>3, <1>5, <3>2, <3>3
  <2> HIDE DEF s, o
  <2>3. Share(DigitsB, LowA, o, k, s) = 0
    <3> DEFINE c == LastA * L
    <3>1. c \in Int /\ EndsBelow(LowA, c) /\ (s < 0 \/ s >= c)
      BY <1>2, <2>2
    <3> HIDE DEF c
    <3> QED BY <1>1, <1>2, <2>2, <3>1, ShareZero
  <2> QED BY <2>1, <2>3, ZeroWord DEF NoTerms, Zero, s, o
<1> QED BY <1>4, <1>5

(* The vectors of b below the top vector of a. *)
LEMMA TopPairLane ==
  ASSUME WideShape, NEW i \in Nat, i < LastA + LastB, NEW k \in Register, NEW l \in Lane
  PROVE  PairTerms(i, LastB + 1)[k][l] = Word(LowShare(k, i * L + l))
<1> DEFINE s == (i * L + l) - LastA * L  o == LastA * L
<1>1. /\ LastA \in Nat /\ LastB \in Nat /\ TopA \in 0 .. L - 1 /\ LastB <= LastA /\ L \in Nat /\ L > 0 /\ Lane = 0 .. L - 1
      /\ k \in Int /\ Register = 0 .. L
  <2>1. k \in 0 .. L
    BY VectorSizes
  <2> QED BY <2>1, WideSizes, VectorSizes
<1>2. IsOperand(DigitsA) /\ IsOperand(LowB) /\ o \in Int /\ o \in Nat /\ i * L \in Nat
  BY <1>1, WideOperands
<1>3. LowShare(k, i * L + l) = Share(DigitsA, LowB, o, k, s)
  BY DEF LowShare
<1>4. PairTerms(i, LastB + 1) = IF i >= LastA THEN Terms(Vec(bp, i - LastA), ap, LastA, TopA) ELSE NoTerms
  BY DEF PairTerms
<1>5. CASE i >= LastA
  <2> DEFINE j == i - LastA  b == j * L
  <2>1. j \in 0 .. LastB - 1 /\ j \in Nat
    BY <1>1, <1>5
  <2>2. b + l = s /\ b \in Int
    <3>1. i = j + LastA /\ j \in Int /\ l \in Int
      BY <1>1
    <3> HIDE DEF j
    <3>2. i * L = j * L + LastA * L /\ j * L \in Int
      BY <1>1, <3>1
    <3> QED BY <1>2, <3>1, <3>2
  <2>3. VectorFrom(Vec(bp, j), LowB, b) /\ SplatFrom(ap, LastA, TopA, DigitsA, o) /\ TopA \in -1 .. L - 1
    BY <1>1, <2>1, WideDigits
  <2>4. PairTerms(i, LastB + 1) = Terms(Vec(bp, j), ap, LastA, TopA)
    BY <1>4, <1>5
  <2> HIDE DEF o, b, j, s
  <2>5. Terms(Vec(bp, j), ap, LastA, TopA)[k][l] = Word(Share(DigitsA, LowB, o, k, b + l))
    <3>1. IsOperand(DigitsA) /\ IsOperand(LowB) /\ o \in Int /\ b \in Int /\ LastA \in Nat
      BY <1>1, <1>2, <2>2
    <3> DEFINE vec == Vec(bp, j)
    <3>2. VectorFrom(vec, LowB, b)
      BY <2>3
    <3> HIDE DEF vec
    <3>3. Terms(vec, ap, LastA, TopA)[k][l] = Word(Share(DigitsA, LowB, o, k, b + l))
      BY <2>3, <3>1, <3>2, TermsLane
    <3> QED BY <3>3 DEF vec
  <2> QED BY <1>3, <2>2, <2>4, <2>5
<1>6. CASE ~(i >= LastA)
  <2>1. i * L + L <= o
    BY <1>1, <1>6, BelowProduct
  <2> DEFINE a == i * L
  <2>2. a + L <= o /\ a \in Nat
    BY <1>2, <2>1
  <2>3. s = (a + l) - o
    OBVIOUS
  <2> HIDE DEF a, o, s
  <2>4. s \in Int /\ s < 0
    BY <1>1, <1>2, <2>2, <2>3
  <2>5. Share(DigitsA, LowB, o, k, s) = 0
    BY <1>1, <1>2, <2>4, ShareZero
  <2> QED BY <1>3, <1>4, <1>6, <2>5, ZeroWord DEF NoTerms, Zero
<1> QED BY <1>5, <1>6

LEMMA WideRegisters ==
  ASSUME WideShape, NEW i \in Nat, i < LastA + LastB
  PROVE  Holds(Collected(i), WideTable, i * L)
<1> SUFFICES ASSUME NEW k \in Register, NEW l \in Lane
             PROVE  Collected(i)[k][l] = Word(WideTable[k][i * L + l])
  BY DEF Holds
<1> DEFINE s == i * L + l  n == LastB + 2
           pairs == [q \in 0 .. LastB + 1 |-> PairTerms(i, q)]
           v == [q \in 0 .. LastB + 1 |-> pairs[q][k]]
           share(q) == Share(DigitsB, LowA, q * L, k, s - q * L)
           f == [q \in 0 .. LastB + 1 |-> IF q = LastB + 1 THEN LowShare(k, s) ELSE share(q)]
           g == [q \in 0 .. (LastB + 1) - 1 |-> share(q)]
<1>1. /\ LastB \in Nat /\ n \in Nat /\ LastB + 1 \in 0 .. n - 1 /\ LastB + 1 \in Nat /\ s \in Int /\ n = (LastB + 1) + 1
      /\ k \in Int /\ \A q \in 0 .. n - 1 : q \in 0 .. LastB + 1
  <2>1. LastB \in Nat /\ i * L \in Nat /\ l \in Int /\ k \in 0 .. L
    BY WideSizes, VectorSizes
  <2> QED BY <2>1
<1>2. Collected(i)[k] = SumOf(v, n)
  BY DEF Collected
<1>3. ASSUME NEW q \in 0 .. n - 1 PROVE v[q][l] = Word(f[q])
  <2>1. v[q] = PairTerms(i, q)[k] /\ q \in 0 .. LastB + 1
    BY <1>1
  <2>2. CASE q = LastB + 1
    BY <2>1, <2>2, TopPairLane
  <2>3. CASE q # LastB + 1
    <3>1. q \in 0 .. LastB
      BY <1>1, <2>1, <2>3
    <3>2. f[q] = share(q)
      BY <2>1, <2>3
    <3> QED BY <2>1, <3>1, <3>2, PairLane
  <2> QED BY <2>2, <2>3
<1>4. IntLimbs(g, LastB + 1) /\ Splat(k, s) = Total(g, LastB + 1)
  <2>1. IntLimbs(g, LastB + 1)
    BY <1>1, GatherBounds, WideOperands
  <2> QED BY <2>1 DEF Splat, Gather
<1>5. \A q \in 0 .. (LastB + 1) - 1 : f[q] = g[q]
  BY <1>1
<1>6. f[LastB + 1] = LowShare(k, s)
  BY <1>1
<1>7. /\ WideTable[k][s] = (Splat(k, s) + LowShare(k, s)) + TopShare(k, s)
      /\ Splat(k, s) \in Int /\ LowShare(k, s) \in Int
      /\ s < LastA * L + LastB * L => TopShare(k, s) = 0
  BY <1>1, WideParts
<1>8. s < LastA * L + LastB * L
  <2>1. LastA \in Nat /\ LastA + LastB \in Nat
    BY <1>1, WideSizes
  <2>2. i * L + L <= (LastA + LastB) * L /\ i * L \in Nat
    BY <2>1, BelowProduct
  <2>3. (LastA + LastB) * L = LastA * L + LastB * L /\ LastA * L \in Nat /\ LastB * L \in Nat
    BY <1>1, <2>1, VectorSizes
  <2> DEFINE a == i * L  c == LastA * L  d == LastB * L  e == (LastA + LastB) * L
  <2>4. a + L <= e /\ e = c + d /\ a \in Nat /\ c \in Nat /\ d \in Nat /\ l < L /\ l \in Nat /\ L \in Nat
    BY <2>2, <2>3, VectorSizes
  <2> HIDE DEF a, c, d, e
  <2>5. a + l < c + d
    BY <2>4
  <2> QED BY <2>5 DEF a, c, d
<1> HIDE DEF v, f, g, s, n
<1>9. IntLimbs(f, n)
  <2>1. \A q \in 0 .. (LastB + 1) - 1 : f[q] \in Int
    BY <1>4, <1>5 DEF IntLimbs
  <2>2. \A q \in 0 .. n - 1 : q \in 0 .. (LastB + 1) - 1 \/ q = LastB + 1
    BY <1>1
  <2> QED BY <1>6, <1>7, <2>1, <2>2 DEF IntLimbs
<1>10. SumOf(v, n)[l] = Word(Total(f, n))
  BY <1>1, <1>3, <1>9, SumOfWords
<1>11. Total(f, n) = Total(f, LastB + 1) + LowShare(k, s)
  BY <1>1, <1>6, <1>9, TotalSteps
<1>12. Total(f, LastB + 1) = Splat(k, s)
  BY <1>1, <1>4, <1>5, TotalOfSame
<1>13. Total(f, n) = WideTable[k][s]
  BY <1>7, <1>8, <1>11, <1>12
<1> QED BY <1>2, <1>10, <1>13 DEF s

LEMMA TopRegisters ==
  ASSUME WideShape
  PROVE  Holds(TopTerms, WideTable, (LastA + LastB) * L)
<1> SUFFICES ASSUME NEW k \in Register, NEW l \in Lane
             PROVE  TopTerms[k][l] = Word(WideTable[k][(LastA + LastB) * L + l])
  BY DEF Holds
<1> DEFINE a == LastA * L  b == LastB * L  s == (LastA + LastB) * L + l
<1>1. /\ LastA \in Nat /\ LastB \in Nat /\ TopA \in -1 .. L - 1 /\ TopB \in -1 .. L - 1
      /\ a \in Nat /\ b \in Nat /\ a \in Int /\ b \in Int /\ l \in Nat /\ s \in Int /\ s = (a + b) + l
  <2>1. LastA \in Nat /\ LastB \in Nat /\ TopA \in -1 .. L - 1 /\ TopB \in -1 .. L - 1 /\ l \in Nat /\ L \in Nat /\ a \in Nat /\ b \in Nat
    BY SMTT(60), WideSizes, VectorSizes
  <2>2. (LastA + LastB) * L = a + b
    BY <2>1
  <2> HIDE DEF a, b
  <2> QED BY <2>1, <2>2
<1>2. WideTable[k][s] = TopShare(k, s)
  <2>1. /\ WideTable[k][s] = (Splat(k, s) + LowShare(k, s)) + TopShare(k, s)
        /\ s < 0 \/ s >= a + b => Splat(k, s) = 0 /\ LowShare(k, s) = 0
        /\ TopShare(k, s) \in Int
    BY <1>1, WideParts
  <2> HIDE DEF s, a, b
  <2>2. s >= a + b
    BY <1>1
  <2> QED BY <2>1, <2>2
<1>3. IsOperand(DigitsA) /\ IsOperand(DigitsB) /\ IsOperand(HighA) /\ IsOperand(HighB)
  BY WideOperands
<1>4. s - a = b + l /\ s - b = a + l
  <2> HIDE DEF a, b, s
  <2> QED BY <1>1
<1>5. CASE TopA < TopB
  <2> DEFINE vec == Masked(Vec(bp, LastB), FirstLanes(TopB + 1))
  <2>1. TopTerms = Terms(vec, ap, LastA, TopA) /\ TopShare(k, s) = Share(DigitsA, HighB, a, k, s - a)
    BY <1>5 DEF TopTerms, TopShare
  <2>2. SplatFrom(ap, LastA, TopA, DigitsA, a) /\ VectorFrom(vec, HighB, b)
    BY WideDigits
  <2> HIDE DEF vec, a, b, s
  <2>3. Terms(vec, ap, LastA, TopA)[k][l] = Word(Share(DigitsA, HighB, a, k, b + l))
    BY <1>1, <1>3, <2>2, TermsLane
  <2>4. TopTerms[k][l] = Word(WideTable[k][s])
    BY <1>2, <1>4, <2>1, <2>3
  <2> QED BY <2>4 DEF s
<1>6. CASE ~(TopA < TopB)
  <2> DEFINE vec == Masked(Vec(ap, LastA), FirstLanes(TopA + 1))
  <2>1. TopTerms = Terms(vec, bp, LastB, TopB) /\ TopShare(k, s) = Share(DigitsB, HighA, b, k, s - b)
    BY <1>6 DEF TopTerms, TopShare
  <2>2. SplatFrom(bp, LastB, TopB, DigitsB, b) /\ VectorFrom(vec, HighA, a)
    <3>1. LastB \in 0 .. LastB
      BY <1>1
    <3> QED BY <3>1, WideDigits
  <2> HIDE DEF vec, a, b, s
  <2>3. Terms(vec, bp, LastB, TopB)[k][l] = Word(Share(DigitsB, HighA, b, k, a + l))
    BY <1>1, <1>3, <2>2, TermsLane
  <2>4. TopTerms[k][l] = Word(WideTable[k][s])
    BY <1>2, <1>4, <2>1, <2>3
  <2> QED BY <2>4 DEF s
<1> QED BY <1>5, <1>6

(* Which table the registers hold, and the last vector of the loop. *)
Table == IF prog = "narrow" THEN NarrowTable ELSE WideTable
LastVector == IF prog = "narrow" THEN an \div L ELSE LastA + LastB
RedundantShape == IF prog = "narrow" THEN NarrowShape ELSE WideShape
RedundantState ==
  /\ vi \in Nat /\ DOMAIN rp = Limbs
  /\ IF done THEN vi > LastVector /\ AllColumns(rp, an + bn)
     ELSE vi <= LastVector /\ AllColumns(rp, vi * L) /\ Holds(kept, Table, vi * L - L)
RedundantInv == prog \in {"narrow", "wide"} => RedundantShape /\ RedundantState

LEMMA TablesKept ==
  ASSUME UNCHANGED <<prog, an, bn, ap, bp>>
  PROVE  /\ Table' = Table /\ LastVector' = LastVector /\ RedundantShape' = RedundantShape
         /\ \A t : ProductColumn(t, 0)' = ProductColumn(t, 0)
<1>1. DigitsA' = DigitsA /\ DigitsB' = DigitsB
  BY DEF DigitsA, DigitsB, Cut
<1>2. LastA' = LastA /\ LastB' = LastB /\ TopA' = TopA /\ TopB' = TopB
  BY DEF LastA, LastB, TopA, TopB
<1>3. LowA' = LowA /\ HighA' = HighA /\ LowB' = LowB /\ HighB' = HighB
  BY <1>2 DEF LowA, HighA, LowB, HighB, Cut
<1>4. NarrowTable' = NarrowTable
  BY <1>1 DEF NarrowTable, Share, Register
<1>5. \A k, s : TopShare(k, s)' = TopShare(k, s)
  BY <1>1, <1>2, <1>3 DEF TopShare, Share
<1>6. WideTable' = WideTable
  BY <1>1, <1>2, <1>3, <1>5 DEF WideTable, Share, Gather, Total, Register
<1>7. \A t : ProductColumn(t, 0)' = ProductColumn(t, 0)
  BY DEF ProductColumn, LowHalf, HighHalf, Total
<1>8. Table' = Table /\ LastVector' = LastVector
  BY <1>2, <1>4, <1>6 DEF Table, LastVector
<1>9. RedundantShape' = RedundantShape
  BY DEF RedundantShape, NarrowShape, WideShape, ProductShape, IsDigits
<1> QED BY <1>7, <1>8, <1>9

LEMMA RedundantReached ==
  ASSUME RedundantShape, UNCHANGED <<prog, an, bn, ap, bp>>, vi' \in Nat, DOMAIN rp' = Limbs,
         NEW next, next = vi' * L,
         IF done' THEN vi' > LastVector /\ AllColumns(rp', an + bn)
         ELSE vi' <= LastVector /\ AllColumns(rp', next) /\ Holds(kept', Table, next - L)
  PROVE  RedundantInv'
<1>1. /\ Table' = Table /\ LastVector' = LastVector /\ RedundantShape'
      /\ \A t : ProductColumn(t, 0)' = ProductColumn(t, 0)
  BY TablesKept
<1>2. Limbs' = Limbs /\ Register' = Register /\ L' = L /\ Lane' = Lane
  BY DEF Limbs, Register, Lane
<1>3. ASSUME NEW n, AllColumns(rp', n) PROVE \A j \in Limbs : j < n => rp'[j] = ProductColumn(j, 0)'
  BY <1>1, <1>3 DEF AllColumns
<1>4. /\ done' => AllColumns(rp, an + bn)'
      /\ ~done' => AllColumns(rp, vi * L)'
  BY <1>2, <1>3 DEF AllColumns
<1>5. ~done' => Holds(kept, Table, vi * L - L)'
  BY <1>1, <1>2 DEF Holds, Word, Width
<1> QED BY <1>1, <1>2, <1>4, <1>5 DEF RedundantInv, RedundantState

LEMMA InitRedundant == ProductInputs /\ DigitInputs /\ Init => RedundantInv
<1> SUFFICES ASSUME ProductInputs, DigitInputs, Init, prog \in {"narrow", "wide"} PROVE RedundantShape /\ RedundantState
  BY DEF RedundantInv
<1>1. PICK shape \in Shapes[prog] : an = shape[1] /\ bn = shape[2]
  BY DEF Init
<1>2. prog \in Products \cap DOMAIN Shapes /\ ap \in Patterns[prog] /\ bp \in Patterns[prog]
  BY DEF Init, Products
<1>3. an \in Nat \ {0} /\ bn \in Nat \ {0} /\ (prog = "narrow" => bn <= L)
  BY <1>1, <1>2 DEF ProductInputs
<1>4. /\ 2 * bn <= H /\ (prog = "wide" => bn <= an)
      /\ IsDigits(ap, 0, an) /\ IsDigits(bp, 0, bn)
  <2> DEFINE m == OperandLimbs(prog, shape)
  <2>1. /\ 2 * bn <= H /\ (prog = "wide" => bn <= an)
        /\ \A digits \in Patterns[prog] : \A j \in 0 .. m - 1 : digits[j] \in 0 .. B - 1
    BY <1>1, <1>2 DEF DigitInputs
  <2>2. m = IF an >= bn THEN an ELSE bn
    BY <1>1 DEF OperandLimbs
  <2> HIDE DEF m
  <2>3. m \in Nat /\ an <= m /\ bn <= m
    BY <1>3, <2>2
  <2>4. (\A j \in 0 .. an - 1 : j \in 0 .. m - 1) /\ \A j \in 0 .. bn - 1 : j \in 0 .. m - 1
    BY <1>3, <2>3
  <2> QED BY <1>2, <2>1, <2>4 DEF IsDigits
<1>5. RedundantShape
  BY <1>3, <1>4 DEF RedundantShape, NarrowShape, WideShape, ProductShape
<1>6. vi = 0 /\ done = FALSE /\ rp = [j \in Limbs |-> Untouched] /\ kept = NoTerms
  BY DEF Init
<1>7. L \in Nat /\ L > 0 /\ vi * L = 0 /\ vi * L - L = -L /\ -L \in Int /\ -L <= -L
  BY <1>6, VectorSizes
<1>8. AllColumns(rp, vi * L)
  <2> SUFFICES ASSUME NEW j \in Limbs, j < 0 PROVE FALSE
    BY <1>7 DEF AllColumns
  <2> QED BY VectorSizes
<1>9. Holds(kept, Table, vi * L - L) /\ vi <= LastVector
  <2>1. CASE prog = "narrow"
    <3>1. NarrowShape /\ Table = NarrowTable /\ LastVector = an \div L
      BY <1>5, <2>1 DEF RedundantShape, Table, LastVector
    <3>2. an \div L \in Nat
      BY <1>3, Vectors
    <3> QED BY <1>6, <1>7, <3>1, <3>2, NarrowTableRight
  <2>2. CASE prog = "wide"
    <3>1. WideShape /\ Table = WideTable /\ LastVector = LastA + LastB
      BY <1>5, <2>2 DEF RedundantShape, Table, LastVector
    <3>2. LastA + LastB \in Nat
      BY <3>1, WideSizes
    <3> QED BY <1>6, <1>7, <3>1, <3>2, WideZero
  <2> QED BY <2>1, <2>2
<1> QED BY <1>5, <1>6, <1>8, <1>9 DEF RedundantState

(* One vector more, .. *)
LEMMA RedundantTurn ==
  ASSUME prog \in {"narrow", "wide"}, RedundantShape, RedundantState, ~done, vi < LastVector, LastVector \in Nat,
         ProductShape, RightTable(Table), NEW regs, Holds(regs, Table, vi * L), Turn(regs)
  PROVE  RedundantInv'
<1> DEFINE next == (vi + 1) * L
<1>1. /\ vi \in Nat /\ AllColumns(rp, vi * L) /\ Holds(kept, Table, vi * L - L)
  BY DEF RedundantState
<1>2. AllColumns(rp', vi * L + L) /\ Holds(kept', Table, vi * L) /\ DOMAIN rp' = Limbs
  BY <1>1, TurnColumns
<1>3. vi' = vi + 1 /\ done' = done /\ UNCHANGED <<prog, an, bn, ap, bp>>
  BY DEF Turn
<1>4. vi' \in Nat /\ next = vi' * L /\ vi' <= LastVector /\ next = vi * L + L /\ next - L = vi * L
  BY <1>1, <1>3, VectorSizes
<1>5. AllColumns(rp', next) /\ Holds(kept', Table, next - L)
  BY <1>2, <1>4
<1> HIDE DEF next
<1> QED BY <1>2, <1>3, <1>4, <1>5, RedundantReached

(* .. and the end. *)
LEMMA RedundantFinish ==
  ASSUME prog \in {"narrow", "wide"}, RedundantShape, RedundantState, ~done, vi = LastVector,
         ProductShape, RightTable(Table), NEW regs, Holds(regs, Table, vi * L), Holds(NoTerms, Table, vi * L + L),
         NEW count \in Nat, count <= 2 * L, vi * L + count = an + bn, Finish(regs, count)
  PROVE  RedundantInv'
<1>1. /\ vi \in Nat /\ AllColumns(rp, vi * L) /\ Holds(kept, Table, vi * L - L)
  BY DEF RedundantState
<1>2. AllColumns(rp', an + bn) /\ DOMAIN rp' = Limbs
  <2>1. AllColumns(rp', vi * L + count) /\ DOMAIN rp' = Limbs
    BY <1>1, FinishColumns
  <2> QED BY <2>1
<1>3. vi' = vi + 1 /\ done' = TRUE /\ UNCHANGED <<prog, an, bn, ap, bp>>
  BY DEF Finish
<1>4. vi' \in Nat /\ vi' > LastVector
  BY <1>1, <1>3
<1> QED BY <1>2, <1>3, <1>4, RedundantReached

LEMMA NarrowSteps ==
  ASSUME RedundantInv, NarrowTurn \/ NarrowTail \/ NarrowFlush
  PROVE  RedundantInv'
<1>1. /\ prog = "narrow" /\ ~done /\ RedundantShape /\ RedundantState /\ NarrowShape /\ ProductShape /\ bn <= L
      /\ Table = NarrowTable /\ LastVector = an \div L
  BY DEF NarrowTurn, NarrowTail, NarrowFlush, RedundantInv, RedundantShape, NarrowShape, Table, LastVector
<1>2. RightTable(Table) /\ \A base \in Int : base >= an \/ base <= -L => Holds(NoTerms, Table, base)
  BY <1>1, NarrowTableRight
<1> DEFINE q == an \div L  r == an % L  c == q * L
<1>3. an \in Nat /\ bn \in Nat /\ L \in Nat /\ L > 0 /\ vi \in Nat /\ Lane = 0 .. L - 1
  BY <1>1, VectorSizes DEF ProductShape, RedundantState
<1>4. q \in Nat /\ r \in 0 .. L - 1 /\ c \in Nat /\ an = c + r /\ LastVector = q
  BY <1>1, <1>3, Vectors
<1>5. CASE NarrowTurn
  <2> DEFINE base == vi * L
  <2>1. vi < q /\ Turn(NarrowTerms(Vec(ap, vi)))
    BY <1>5 DEF NarrowTurn
  <2>2. base \in Int /\ base + L <= c /\ base \in Nat
    <3> HIDE DEF q
    <3> QED BY <1>3, <1>4, <2>1, BelowProduct
  <2>3. VectorFrom(Vec(ap, vi), DigitsA, base)
    <3> SUFFICES ASSUME NEW l \in Lane PROVE Vec(ap, vi)[l] = DigitsA[base + l]
      BY DEF VectorFrom
    <3>1. Vec(ap, vi)[l] = ap[base + l]
      BY DEF Vec
    <3> HIDE DEF base, c, q, r
    <3>2. base + l \in Int /\ 0 <= base + l /\ base + l < an
      BY <1>3, <1>4, <2>2
    <3> QED BY <3>1, <3>2 DEF DigitsA, Cut
  <2> HIDE DEF q
  <2>4. Holds(NarrowTerms(Vec(ap, vi)), Table, base)
    BY <1>1, <2>2, <2>3, NarrowRegisters
  <2>5. vi < LastVector /\ LastVector \in Nat
    BY <1>4, <2>1
  <2> QED BY <1>1, <1>2, <2>1, <2>4, <2>5, RedundantTurn
<1>6. ASSUME vi = q, NEW regs, NEW count, count = r + bn, Finish(regs, count), Holds(regs, Table, c) PROVE RedundantInv'
  <2>1. vi * L = c /\ vi = LastVector
    BY <1>4, <1>6
  <2> HIDE DEF q, c, r
  <2>2. c + L \in Int /\ c + L >= an
    BY <1>3, <1>4
  <2>3. Holds(NoTerms, Table, vi * L + L) /\ Holds(regs, Table, vi * L)
    BY <1>2, <1>6, <2>1, <2>2
  <2>4. count \in Nat /\ count <= 2 * L /\ vi * L + count = an + bn
    BY <1>1, <1>3, <1>4, <1>6, <2>1
  <2> QED BY <1>1, <1>2, <1>6, <2>1, <2>3, <2>4, RedundantFinish
<1>7. CASE NarrowTail
  <2> DEFINE ax == Masked(Vec(ap, vi), FirstLanes(r))
  <2>1. vi = q /\ Finish(NarrowTerms(ax), r + bn)
    BY <1>7 DEF NarrowTail
  <2>2. VectorFrom(ax, DigitsA, c)
    <3> SUFFICES ASSUME NEW l \in Lane PROVE ax[l] = DigitsA[c + l]
      BY DEF VectorFrom
    <3>1. ax[l] = IF l \in FirstLanes(r) THEN ap[c + l] ELSE 0
      BY <2>1 DEF Masked, Vec
    <3> HIDE DEF c, q, r, ax
    <3>2. c + l \in Int /\ 0 <= c + l /\ (l \in FirstLanes(r) <=> c + l < an)
      BY <1>3, <1>4 DEF FirstLanes
    <3> QED BY <3>1, <3>2 DEF DigitsA, Cut
  <2> HIDE DEF ax, r, q
  <2>3. c \in Int
    BY <1>4
  <2> HIDE DEF c
  <2>4. Holds(NarrowTerms(ax), Table, c)
    BY <1>1, <2>2, <2>3, NarrowRegisters
  <2> QED BY <1>6, <2>1, <2>4
<1>8. CASE NarrowFlush
  <2>1. vi = q /\ r = 0 /\ Finish(NoTerms, bn)
    BY <1>8 DEF NarrowFlush
  <2> HIDE DEF q, r, c
  <2>2. c \in Int /\ c >= an /\ bn = r + bn
    BY <1>3, <1>4, <2>1
  <2>3. Holds(NoTerms, Table, c)
    BY <1>2, <2>2
  <2> QED BY <1>6, <2>1, <2>2, <2>3
<1> QED BY <1>5, <1>7, <1>8

LEMMA WideSteps ==
  ASSUME RedundantInv, WideTurn \/ WideEnd
  PROVE  RedundantInv'
<1>1. /\ prog = "wide" /\ RedundantShape /\ RedundantState /\ WideShape /\ ProductShape
      /\ Table = WideTable /\ LastVector = LastA + LastB
  BY DEF WideTurn, WideEnd, RedundantInv, RedundantShape, WideShape, Table, LastVector
<1>2. RightTable(Table) /\ \A base \in Int : base >= (LastA + LastB) * L + L \/ base <= -L => Holds(NoTerms, Table, base)
  BY <1>1, WideTableRight, WideZero
<1> DEFINE a == LastA * L  b == LastB * L  e == (LastA + LastB) * L
<1>3. /\ LastA \in Nat /\ LastB \in Nat /\ LastVector \in Nat /\ TopA \in 0 .. L - 1 /\ TopB \in 0 .. L - 1 /\ a \in Nat /\ b \in Nat
      /\ an = a + TopA + 1 /\ bn = b + TopB + 1 /\ vi \in Nat /\ L \in Nat /\ L > 0
  <2>1. LastA + LastB \in Nat
    BY <1>1, WideSizes
  <2> QED BY <1>1, <2>1, WideSizes, VectorSizes DEF RedundantState
<1>4. e = a + b /\ e \in Nat
  BY <1>3
<1>5. CASE WideTurn
  <2>1. vi < LastA + LastB /\ Turn(Collected(vi))
    BY <1>5 DEF WideTurn
  <2>2. ~done
    BY <1>1, <1>3, <2>1 DEF RedundantState
  <2>3. Holds(Collected(vi), Table, vi * L)
    BY <1>1, <1>3, <2>1, WideRegisters
  <2> QED BY <1>1, <1>2, <1>3, <2>1, <2>2, <2>3, RedundantTurn
<1>6. CASE WideEnd
  <2> DEFINE count == TopA + TopB + 2
  <2>1. vi = LastA + LastB /\ Finish(TopTerms, count) /\ ~done
    BY <1>6 DEF WideEnd
  <2>2. Holds(TopTerms, Table, e) /\ vi * L = e
    BY <1>1, <2>1, TopRegisters
  <2> HIDE DEF a, b, e
  <2>3. e + L \in Int /\ e + L >= e + L
    BY <1>3, <1>4
  <2>4. Holds(NoTerms, Table, vi * L + L)
    BY <1>2, <2>2, <2>3 DEF e
  <2>5. count \in Nat /\ count <= 2 * L /\ vi * L + count = an + bn
    BY <1>3, <1>4, <2>2
  <2> HIDE DEF count
  <2>6. vi = LastVector /\ Holds(TopTerms, Table, vi * L)
    BY <1>1, <2>1, <2>2
  <2> QED BY <1>1, <1>2, <2>1, <2>4, <2>5, <2>6, RedundantFinish
<1> QED BY <1>5, <1>6

-----------------------------------------------------------------------------
(* Columns with their carries resolved *)

IsSums(to, col, n) == to = [t \in -1 .. n - 1 |-> IF t = -1 THEN 0 ELSE (to[t - 1] \div B) + col[t]]

LEMMA SumsExist ==
  ASSUME NEW col, NEW n \in Nat
  PROVE  \E to : IsSums(to, col, n)
<1> DEFINE T == {k \in Nat : \E to : IsSums(to, col, k)}
<1>1. 0 \in T
  <2> DEFINE to == [t \in -1 .. 0 - 1 |-> 0]
  <2>1. to = [t \in -1 .. 0 - 1 |-> IF t = -1 THEN 0 ELSE (to[t - 1] \div B) + col[t]]
    OBVIOUS
  <2>2. IsSums(to, col, 0)
    BY <2>1 DEF IsSums
  <2> QED BY <2>2
<1>2. ASSUME NEW k \in Nat, k \in T PROVE k + 1 \in T
  <2>1. PICK below : IsSums(below, col, k)
    BY <1>2
  <2> DEFINE to == [t \in -1 .. (k + 1) - 1 |-> IF t = k THEN (below[k - 1] \div B) + col[k] ELSE below[t]]
  <2>2. below[-1] = 0 /\ \A t \in 0 .. k - 1 : below[t] = (below[t - 1] \div B) + col[t]
    BY <2>1 DEF IsSums
  <2>3. ASSUME NEW t \in -1 .. (k + 1) - 1
        PROVE  to[t] = IF t = -1 THEN 0 ELSE (to[t - 1] \div B) + col[t]
    <3>1. CASE t = -1
      BY <2>2, <3>1
    <3>2. CASE t # -1
      <4>1. t - 1 \in -1 .. (k + 1) - 1 /\ t - 1 # k
        BY <3>2
      <4>2. to[t - 1] = below[t - 1]
        BY <4>1
      <4>3. t # k => t \in 0 .. k - 1
        BY <3>2
      <4> QED BY <2>2, <3>2, <4>2, <4>3
    <3> QED BY <3>1, <3>2
  <2> HIDE DEF to
  <2>4. to = [t \in -1 .. (k + 1) - 1 |-> IF t = -1 THEN 0 ELSE (to[t - 1] \div B) + col[t]]
    <3>1. to = [t \in -1 .. (k + 1) - 1 |-> to[t]]
      BY DEF to
    <3> QED BY <2>3, <3>1
  <2>5. IsSums(to, col, k + 1)
    BY <2>4 DEF IsSums
  <2> QED BY <2>5
<1>3. n \in T
  <2> HIDE DEF T
  <2>1. T \subseteq Nat
    BY DEF T
  <2> QED BY <1>1, <1>2, <2>1, ByInduction
<1> QED BY <1>3

(* Prefix is what it is defined as; the carry into limb t. *)
CarryAt(t) == Prefix[t - 1] \div B
PrefixRight(n) ==
  /\ Prefix[-1] = 0
  /\ \A t \in 0 .. n - 1 : /\ Column(t) \in Int /\ Prefix[t] \in Int /\ CarryAt(t) \in Int
                           /\ Prefix[t] = CarryAt(t) + Column(t)

LEMMA PrefixIs ==
  ASSUME Count \in Nat, \A t \in 0 .. Count - 1 : Column(t) \in Int
  PROVE  PrefixRight(Count) /\ CarryAt(0) = 0
<1> DEFINE n == Count  col == [t \in 0 .. n - 1 |-> Column(t)]
<1>1. B \in Nat /\ B >= 2 /\ n \in Nat
  BY Parameters
<1>2. Prefix = CHOOSE to : IsSums(to, col, n)
  <2>1. Prefix = CHOOSE to : to = [t \in -1 .. Count - 1 |-> IF t = -1 THEN 0 ELSE (to[t - 1] \div B) + Column(t)]
    BY DEF Prefix
  <2>2. \A to : IsSums(to, col, n) <=> to = [t \in -1 .. Count - 1 |-> IF t = -1 THEN 0 ELSE (to[t - 1] \div B) + Column(t)]
    <3> SUFFICES ASSUME NEW to PROVE
          [t \in -1 .. n - 1 |-> IF t = -1 THEN 0 ELSE (to[t - 1] \div B) + col[t]]
            = [t \in -1 .. n - 1 |-> IF t = -1 THEN 0 ELSE (to[t - 1] \div B) + Column(t)]
      BY DEF IsSums
    <3>1. \A t \in -1 .. n - 1 : t # -1 => t \in 0 .. n - 1
      BY <1>1
    <3>2. \A t \in -1 .. n - 1 : t # -1 => col[t] = Column(t)
      BY <3>1
    <3> HIDE DEF col
    <3> QED BY <3>2
  <2> HIDE DEF n, col
  <2> QED BY <2>1, <2>2
<1>3. \E to : IsSums(to, col, n)
  <2> HIDE DEF n, col
  <2> QED BY <1>1, SumsExist
<1>4. IsSums(Prefix, col, n)
  <2> HIDE DEF n, col
  <2> QED BY <1>2, <1>3
<1> DEFINE to == Prefix
<1>5. to[-1] = 0 /\ \A t \in 0 .. n - 1 : to[t] = (to[t - 1] \div B) + Column(t)
  <2>1. /\ to[-1] = 0
        /\ \A t \in -1 .. n - 1 : t # -1 => to[t] = (to[t - 1] \div B) + col[t]
    <3> HIDE DEF to, col, n
    <3>1. -1 \in -1 .. n - 1
      BY <1>1
    <3>2. to = [t \in -1 .. n - 1 |-> IF t = -1 THEN 0 ELSE (to[t - 1] \div B) + col[t]]
      BY <1>4 DEF IsSums, to
    <3> QED BY <3>1, <3>2
  <2> HIDE DEF to
  <2>2. \A t \in 0 .. n - 1 : t \in -1 .. n - 1 /\ t # -1 /\ col[t] = Column(t)
    BY <1>1
  <2> HIDE DEF col, n
  <2> QED BY <2>1, <2>2
<1> HIDE DEF to
<1> DEFINE T == {i \in Nat : i <= n => to[i - 1] \in Int}
<1>6. 0 \in T
  BY <1>5
<1>7. ASSUME NEW i \in Nat, i \in T PROVE i + 1 \in T
  <2> SUFFICES ASSUME i + 1 <= n PROVE to[(i + 1) - 1] \in Int
    OBVIOUS
  <2>1. i \in 0 .. n - 1 /\ (i + 1) - 1 = i /\ to[i - 1] \in Int
    BY <1>1, <1>7
  <2>2. to[i] = (to[i - 1] \div B) + Column(i) /\ Column(i) \in Int
    BY <1>5, <2>1
  <2>3. to[i - 1] \div B \in Int
    BY <1>1, <2>1
  <2> QED BY <2>1, <2>2, <2>3
<1>8. \A i \in Nat : i \in T
  <2>1. T \subseteq Nat
    OBVIOUS
  <2> HIDE DEF T
  <2> QED BY <1>6, <1>7, <2>1, ByInduction
<1>9. ASSUME NEW t \in 0 .. n - 1
      PROVE  Column(t) \in Int /\ to[t] \in Int /\ to[t - 1] \div B \in Int /\ to[t] = (to[t - 1] \div B) + Column(t)
  <2>1. t \in T /\ t + 1 \in T /\ (t + 1) - 1 = t /\ t <= n /\ t + 1 <= n
    BY <1>1, <1>8
  <2>2. to[t - 1] \in Int
    BY <2>1
  <2>3. to[t - 1] \div B \in Int
    BY <1>1, <2>2
  <2>4. to[t] \in Int
    BY <2>1
  <2> QED BY <1>5, <2>3, <2>4
<1>10. 0 \div B = 0
  <2>1. 0 = 0 * B + 0 /\ 0 \in 0 .. B - 1
    BY <1>1
  <2> QED BY <1>1, <2>1, DivModUnique
<1>11. 0 - 1 = -1
  OBVIOUS
<1> QED BY <1>5, <1>9, <1>10, <1>11 DEF PrefixRight, CarryAt, to

(* A vector's digits d and the carries e into its lanes, and out of the top one. *)
Settles(d, e, x) ==
  /\ \A l \in 0 .. L : e[l] \in Int
  /\ \A l \in Lane : x[l] \in Int /\ d[l] \in 0 .. B - 1 /\ d[l] + B * e[l + 1] = x[l] + e[l]

LEMMA ColumnsSettle ==
  ASSUME NEW d, NEW e, NEW x, Settles(d, e, x), NEW n \in Nat, PrefixRight(n), NEW base \in Nat, NEW m \in 0 .. L,
         base + m <= n, e[0] = CarryAt(base), \A l \in 0 .. m - 1 : x[l] = Column(base + l)
  PROVE  e[m] = CarryAt(base + m) /\ \A l \in 0 .. m - 1 : d[l] = Prefix[base + l] % B
<1>1. L \in Nat /\ L > 0 /\ Lane = 0 .. L - 1 /\ B \in Nat /\ B >= 2
  BY VectorSizes
<1>2. ASSUME NEW l \in 0 .. m - 1, e[l] = CarryAt(base + l)
      PROVE  e[l + 1] = CarryAt(base + (l + 1)) /\ d[l] = Prefix[base + l] % B
  <2> DEFINE z == Prefix[base + l]  y == d[l]  c == e[l + 1]
  <2>1. l \in Lane /\ l \in 0 .. L /\ l + 1 \in 0 .. L /\ base + l \in 0 .. n - 1 /\ (base + (l + 1)) - 1 = base + l
    BY <1>1
  <2>2. z \in Int /\ z = CarryAt(base + l) + Column(base + l) /\ CarryAt(base + l) \in Int /\ Column(base + l) \in Int
    BY <2>1 DEF PrefixRight
  <2>3. c \in Int /\ y \in 0 .. B - 1 /\ y + B * c = x[l] + e[l] /\ x[l] = Column(base + l)
    BY <2>1 DEF Settles
  <2>4. CarryAt(base + (l + 1)) = z \div B
    BY <2>1 DEF CarryAt
  <2> HIDE DEF z, y, c
  <2>5. B * c = c * B /\ B * c \in Int
    BY <1>1, <2>3
  <2>6. z = c * B + y
    BY <1>2, <2>2, <2>3, <2>5
  <2>7. z \div B = c /\ z % B = y
    <3>1. B \in Nat \ {0} /\ z \in Int /\ c \in Int /\ y \in 0 .. B - 1
      BY <1>1, <2>2, <2>3
    <3> QED BY <2>6, <3>1, DivModUnique
  <2> QED BY <2>4, <2>7 DEF z, y, c
<1> DEFINE T == {l \in Nat : l <= m => e[l] = CarryAt(base + l)}
<1>3. 0 \in T
  <2>1. base + 0 = base
    OBVIOUS
  <2> QED BY <2>1
<1>4. ASSUME NEW l \in Nat, l \in T PROVE l + 1 \in T
  <2> SUFFICES ASSUME l + 1 <= m PROVE e[l + 1] = CarryAt(base + (l + 1))
    OBVIOUS
  <2>1. l \in 0 .. m - 1 /\ l <= m
    OBVIOUS
  <2>2. e[l] = CarryAt(base + l)
    BY <1>4, <2>1
  <2> QED BY <1>2, <2>1, <2>2
<1>5. \A l \in Nat : l \in T
  <2>1. T \subseteq Nat
    OBVIOUS
  <2> HIDE DEF T
  <2> QED BY <1>3, <1>4, <2>1, ByInduction
<1>6. ASSUME NEW l \in 0 .. m - 1 PROVE d[l] = Prefix[base + l] % B
  <2>1. l \in T /\ l <= m
    BY <1>5
  <2>2. e[l] = CarryAt(base + l)
    BY <2>1
  <2> QED BY <1>2, <2>2
<1>7. m \in T /\ m <= m
  BY <1>5
<1> QED BY <1>6, <1>7

Resolved(mem, n) == \A j \in Limbs : j < n => mem[j] = Prefix[j] % B

LEMMA ResolvedStored ==
  ASSUME NEW mem, NEW k \in Nat, Resolved(mem, k * L), NEW v, NEW m \in 0 .. L,
         \A l \in 0 .. m - 1 : v[l] = Prefix[k * L + l] % B
  PROVE  Resolved(Stored(mem, k, v, L), k * L + m)
<1> DEFINE a == k * L  s == Stored(mem, k, v, L)
<1>1. a \in Nat /\ L \in Nat /\ L > 0 /\ Limbs = 0 .. Room - 1 /\ Room \in Nat
  BY VectorSizes
<1> SUFFICES ASSUME NEW j \in Limbs, j < a + m PROVE s[j] = Prefix[j] % B
  BY DEF Resolved
<1>2. s[j] = IF a <= j /\ j < a + L /\ j < a + L THEN v[j - a] ELSE mem[j]
  BY <1>1, StoredAt
<1>3. CASE a <= j
  <2> DEFINE l == j - a
  <2>1. l \in 0 .. m - 1 /\ a + l = j /\ j < a + L
    <3> HIDE DEF a
    <3> QED BY <1>1, <1>3
  <2>2. s[j] = v[l]
    BY <1>2, <1>3, <2>1
  <2> HIDE DEF l
  <2>3. v[l] = Prefix[a + l] % B
    BY <2>1
  <2> QED BY <2>1, <2>2, <2>3
<1>4. CASE ~(a <= j)
  <2>1. s[j] = mem[j] /\ j < a
    <3> HIDE DEF a, s
    <3> QED BY <1>1, <1>2, <1>4
  <2> QED BY <2>1 DEF Resolved
<1> QED BY <1>3, <1>4

(* A lane's headroom is a carry into the next one. *)
LEMMA LaneExchange ==
  ASSUME NEW x, IsWord(x), NEW y \in Int, NEW a \in Int, NEW u \in Int, NEW w \in Int,
         y + B * w = ((x % B) + a) + u
  PROVE  x \in Int /\ x \div B \in Int /\ y + B * ((x \div B) + w) = x + (a + u)
<1> DEFINE q == x \div B  r == x % B
<1>1. q \in Int /\ r \in Int /\ x \in Int /\ x = B * q + r /\ B \in Nat
  BY WordParts, Parameters DEF IsWord
<1> HIDE DEF q, r
<1>2. B * (q + w) = B * q + B * w /\ B * q \in Int /\ B * w \in Int
  BY <1>1
<1>3. y + B * w = (r + a) + u
  BY DEF r
<1>4. y + (B * q + B * w) = x + (a + u)
  BY <1>1, <1>2, <1>3
<1> QED BY <1>1, <1>2, <1>4 DEF q

LEMMA CanonizeSettled ==
  ASSUME NEW v, WordLanes(v), NEW c, PosChain(c)
  PROVE  LET r == Canonize(v, c)
         IN  PosChain(r.chain) /\ \E e : Settles(r.vec, e, v) /\ e[0] = c.hi + c.cin /\ e[L] = r.chain.hi + r.chain.cin
<1> DEFINE r == Canonize(v, c)
<1>1. PICK k, up : CanonizedLanes(v, c, k, up)
  BY CanonizeLanes
<1> DEFINE e == [l \in 0 .. L |-> up[l] + k[l]]
<1>2. /\ up = [l \in 0 .. L |-> IF l = 0 THEN c.hi ELSE v[l - 1] \div B]
      /\ (\A l \in 0 .. L : up[l] \in 0 .. H - 1 /\ k[l] \in {0, 1}) /\ k[0] = c.cin
      /\ \A l \in Lane : r.vec[l] \in 0 .. B - 1 /\ r.vec[l] + B * k[l + 1] = (v[l] % B) + up[l] + k[l]
      /\ r.chain.hi = up[L] /\ r.chain.cin = k[L] /\ r.chain.bw = 0 /\ r.chain.bin = 0
  BY <1>1 DEF CanonizedLanes
<1> HIDE DEF r
<1>3. PosChain(r.chain)
  <2>1. up[L] \in 0 .. H - 1 /\ k[L] \in {0, 1}
    BY <1>2, Parameters
  <2> QED BY <1>2, <2>1 DEF PosChain
<1>4. ASSUME NEW l \in Lane PROVE v[l] \in Int /\ r.vec[l] + B * e[l + 1] = v[l] + e[l]
  <2> DEFINE x == v[l]  q == x \div B  y == r.vec[l]  a == up[l]  u == k[l]  w == k[l + 1]
  <2>1. l \in 0 .. L /\ l + 1 \in 0 .. L /\ l + 1 # 0 /\ (l + 1) - 1 = l
    BY Parameters
  <2>2. IsWord(x)
    BY DEF WordLanes
  <2>3. up[l + 1] = q /\ e[l] = a + u /\ e[l + 1] = up[l + 1] + w
    BY <1>2, <2>1
  <2>4. y \in Int /\ a \in Int /\ u \in Int /\ w \in Int
    <3>1. a \in 0 .. H - 1 /\ u \in {0, 1} /\ w \in {0, 1} /\ y \in 0 .. B - 1
      BY <1>2, <2>1
    <3> HIDE DEF a, u, w, y
    <3> QED BY <3>1
  <2>5. y + B * w = (x % B) + a + u
    BY <1>2
  <2> HIDE DEF x, y, a, u, w, e
  <2>6. x \in Int /\ y + B * (q + w) = x + (a + u)
    BY <2>2, <2>4, <2>5, LaneExchange
  <2> QED BY <2>3, <2>6 DEF x, y
<1>5. ASSUME NEW l \in 0 .. L PROVE e[l] \in Int
  <2> DEFINE a == up[l]  u == k[l]
  <2>1. a \in 0 .. H - 1 /\ u \in {0, 1} /\ e[l] = a + u
    BY <1>2
  <2> HIDE DEF a, u, e
  <2> QED BY <2>1
<1>6. e[0] = c.hi + c.cin /\ e[L] = r.chain.hi + r.chain.cin
  BY <1>2, Parameters
<1> HIDE DEF e
<1>7. Settles(r.vec, e, v)
  BY <1>2, <1>4, <1>5 DEF Settles
<1> QED BY <1>3, <1>6, <1>7 DEF r

(* Below the largest digit a lane stops the carry that ripples in. *)
LEMMA FastSettled ==
  ASSUME NEW v, WordLanes(v), NEW c, PosChain(c)
  PROVE  LET r == CanonizeFast(v, c)
         IN  PosChain(r.chain) /\ \E e : Settles(r.vec, e, v) /\ e[0] = c.hi + c.cin /\ e[L] = r.chain.hi + r.chain.cin
<1> DEFINE r == CanonizeFast(v, c)
           t == [l \in Lane |-> (v[l] % B) + ShiftedUp(Headroom(v), c.hi)[l]]
<1>1. CASE \E l \in Lane : t[l] >= MASK52
  <2>1. r = Canonize(v, c)
    BY <1>1 DEF CanonizeFast
  <2> HIDE DEF r
  <2>2. PosChain(r.chain) /\ \E e : Settles(r.vec, e, v) /\ e[0] = c.hi + c.cin /\ e[L] = r.chain.hi + r.chain.cin
    BY <2>1, CanonizeSettled
  <2> QED BY <2>2 DEF r
<1>2. CASE ~(\E l \in Lane : t[l] >= MASK52)
  <2> DEFINE up == [l \in 0 .. L |-> IF l = 0 THEN c.hi ELSE v[l - 1] \div B]
             k == [l \in 0 .. L |-> IF l = 0 THEN c.cin ELSE 0]
             e == [l \in 0 .. L |-> up[l] + k[l]]
  <2>1. /\ r.vec = [t EXCEPT ![0] = @ + c.cin]
        /\ r.chain.hi = Headroom(v)[L - 1] /\ r.chain.cin = 0 /\ r.chain.bw = 0 /\ r.chain.bin = 0
    BY <1>2 DEF CanonizeFast, NoCarry
  <2>2. L \in Nat /\ L > 0 /\ Lane = 0 .. L - 1 /\ L - 1 \in Lane /\ B \in Nat /\ B >= 2 /\ MASK52 = B - 1 /\ H \in Nat /\ H < B
    BY Parameters
  <2>3. \A l \in Lane : v[l] % B \in 0 .. B - 1 /\ v[l] \div B \in 0 .. H - 1 /\ IsWord(v[l])
    BY WordParts DEF WordLanes
  <2>4. ASSUME NEW l \in 0 .. L PROVE up[l] \in 0 .. H - 1 /\ k[l] \in {0, 1} /\ e[l] = up[l] + k[l]
    <3>1. l # 0 => l - 1 \in Lane
      BY <2>2
    <3> QED BY <2>3, <3>1 DEF PosChain
  <2>5. ASSUME NEW l \in Lane
        PROVE  r.vec[l] = ((v[l] % B) + up[l]) + k[l] /\ r.vec[l] \in 0 .. B - 1
    <3>1. l \in 0 .. L /\ (l # 0 => l - 1 \in Lane)
      BY <2>2
    <3>2. ShiftedUp(Headroom(v), c.hi)[l] = up[l]
      BY <3>1 DEF ShiftedUp, Headroom
    <3>3. t[l] = (v[l] % B) + up[l]
      BY <3>2
    <3>4. r.vec[l] = IF l = 0 THEN t[0] + c.cin ELSE t[l]
      BY <2>1
    <3>5. up[l] \in 0 .. H - 1 /\ k[l] \in {0, 1} /\ k[l] = IF l = 0 THEN c.cin ELSE 0
      BY <2>4, <3>1
    <3>6. ~(t[l] >= MASK52)
      BY <1>2
    <3> HIDE DEF t, up, k, r
    <3>7. r.vec[l] = t[l] + k[l] /\ v[l] % B \in 0 .. B - 1
      BY SMTT(60), <2>2, <2>3, <3>3, <3>4, <3>5
    <3> QED BY <2>2, <3>3, <3>5, <3>6, <3>7
  <2>6. ASSUME NEW l \in Lane PROVE v[l] \in Int /\ r.vec[l] + B * e[l + 1] = v[l] + e[l]
    <3> DEFINE x == v[l]  q == x \div B  y == r.vec[l]  a == up[l]  u == k[l]  w == k[l + 1]
    <3>1. l \in 0 .. L /\ l + 1 \in 0 .. L /\ l + 1 # 0 /\ (l + 1) - 1 = l
      BY <2>2
    <3>2. IsWord(x)
      BY <2>3
    <3>3. up[l + 1] = q /\ e[l] = a + u /\ e[l + 1] = up[l + 1] + w /\ w = 0
      BY <3>1
    <3>4. y \in Int /\ a \in Int /\ u \in Int /\ w \in Int /\ B * w = 0
      <4> HIDE DEF r, up, k
      <4> QED BY <2>2, <2>4, <2>5, <3>1, <3>3
    <3>5. y = ((x % B) + a) + u
      BY <2>5
    <3> HIDE DEF x, y, a, u, w, e
    <3>6. y + B * w = ((x % B) + a) + u
      BY <3>4, <3>5
    <3>7. x \in Int /\ y + B * (q + w) = x + (a + u)
      BY <3>2, <3>4, <3>6, LaneExchange
    <3> QED BY <3>3, <3>7 DEF x, y
  <2>7. \A l \in 0 .. L : e[l] \in Int
    <3> HIDE DEF e, up, k
    <3> QED BY <2>2, <2>4
  <2>8. e[0] = c.hi + c.cin
    BY <2>2
  <2>9. up[L] = Headroom(v)[L - 1] /\ k[L] = 0
    BY <2>2 DEF Headroom
  <2> HIDE DEF r, up, k
  <2>10. up[L] \in 0 .. H - 1 /\ L \in 0 .. L
    BY <2>2, <2>4
  <2>11. e[L] = r.chain.hi + r.chain.cin /\ PosChain(r.chain)
    BY <2>1, <2>9, <2>10 DEF PosChain
  <2> HIDE DEF e
  <2>12. Settles(r.vec, e, v)
    BY <2>5, <2>6, <2>7 DEF Settles
  <2> QED BY <2>8, <2>11, <2>12 DEF r
<1> QED BY <1>1, <1>2

-----------------------------------------------------------------------------
(* Digits of a splat over one vector *)

StreamShape == ProductShape /\ bn = L
Turns == an \div L
StreamTable == [k \in Register |-> [s \in Int |-> Gather(DigitsA, DigitsB, Turns + 1, k, s)]]
(* The digits of a that vector i of them has. *)
Upto(i) == IF i < Turns THEN L - 1 ELSE (an % L) - 1

LEMMA StreamSizes ==
  ASSUME StreamShape
  PROVE  /\ ProductShape /\ IsOperand(DigitsA) /\ IsOperand(DigitsB) /\ EndsBelow(DigitsB, L) /\ EndsBelow(DigitsA, (Turns + 1) * L)
         /\ Turns \in Nat /\ Turns * L \in Nat /\ an % L \in 0 .. L - 1 /\ an = Turns * L + (an % L) /\ bn = L
         /\ (Turns + 1) * L = Turns * L + L
<1>1. ProductShape /\ bn = L /\ an \in Nat
  BY DEF StreamShape, ProductShape
<1>2. IsOperand(DigitsA) /\ EndsBelow(DigitsA, an) /\ IsOperand(DigitsB) /\ EndsBelow(DigitsB, bn)
  BY <1>1, ProductOperands
<1> DEFINE c == Turns * L
<1>3. Turns \in Nat /\ c \in Nat /\ an % L \in 0 .. L - 1 /\ an = c + (an % L)
  BY <1>1, Vectors DEF Turns
<1>4. L \in Nat /\ (Turns + 1) * L = c + L
  BY <1>3, VectorSizes
<1> HIDE DEF c
<1>5. an <= c + L
  BY <1>3, <1>4
<1>6. EndsBelow(DigitsA, c + L)
  BY <1>1, <1>2, <1>3, <1>4, <1>5 DEF EndsBelow
<1> QED BY <1>1, <1>2, <1>3, <1>4, <1>6 DEF c

(* Only one vector of a's digits meets b at a position. *)
LEMMA OneGathered ==
  ASSUME StreamShape, NEW n \in Nat, NEW i \in Int, NEW l \in Lane, NEW k \in Int
  PROVE  Gather(DigitsA, DigitsB, n, k, i * L + l)
           = IF i \in 0 .. n - 1 THEN Share(DigitsA, DigitsB, i * L, k, l) ELSE 0
<1> DEFINE s == i * L + l  f == [q \in 0 .. n - 1 |-> Share(DigitsA, DigitsB, q * L, k, s - q * L)]
<1>1. IsOperand(DigitsA) /\ IsOperand(DigitsB) /\ EndsBelow(DigitsB, L) /\ L \in Nat /\ L > 0 /\ l \in 0 .. L - 1
  BY StreamSizes, VectorSizes
<1>2. s \in Int
  BY <1>1
<1>3. IntLimbs(f, n) /\ Gather(DigitsA, DigitsB, n, k, s) = Total(f, n)
  BY <1>1, <1>2, GatherBounds DEF Gather
<1>4. ASSUME NEW q \in 0 .. n - 1, q # i PROVE f[q] = 0
  <2> DEFINE a == q * L  p == s - a
  <2>1. p = (i - q) * L + l /\ a \in Int
    BY <1>1
  <2>2. p \in Int /\ (p < 0 \/ p >= L)
    <3>1. CASE i < q
      <4>1. (i - q) * L <= (-1) * L
        <5>1. i - q \in Int /\ i - q <= -1 /\ -1 \in Int
          BY <3>1
        <5> QED BY <1>1, <5>1, MulLe
      <4>2. (-1) * L = -L /\ (i - q) * L \in Int
        BY <1>1
      <4> DEFINE b == (i - q) * L
      <4>3. b <= -L /\ p = b + l /\ b \in Int
        BY <2>1, <4>1, <4>2
      <4> HIDE DEF b, p
      <4> QED BY <1>1, <4>3
    <3>2. CASE i > q
      <4>1. 1 * L <= (i - q) * L
        <5>1. i - q \in Int /\ 1 <= i - q /\ 1 \in Int
          BY <3>2
        <5> QED BY <1>1, <5>1, MulLe
      <4> DEFINE b == (i - q) * L
      <4>2. L <= b /\ p = b + l /\ b \in Int
        BY <1>1, <2>1, <4>1
      <4> HIDE DEF b, p
      <4> QED BY <1>1, <4>2
    <3> QED BY <1>4, <3>1, <3>2
  <2> HIDE DEF p
  <2>3. DigitsB[p] = 0
    BY <1>1, <2>2 DEF IsOperand, EndsBelow
  <2>4. f[q] = Share(DigitsA, DigitsB, a, k, p)
    BY DEF p
  <2> HIDE DEF a, f
  <2> QED BY <1>1, <2>1, <2>2, <2>3, <2>4, ShareBounds
<1>5. CASE i \in 0 .. n - 1
  <2>1. f[i] = Share(DigitsA, DigitsB, i * L, k, s - i * L)
    BY <1>5
  <2>2. s - i * L = l
    <3> DEFINE a == i * L
    <3>1. a \in Int /\ s = a + l
      BY <1>1
    <3> HIDE DEF a, s
    <3>2. s - a = l
      BY <1>1, <3>1
    <3> QED BY <3>2 DEF a
  <2> HIDE DEF f, s
  <2>3. Total(f, n) = f[i]
    BY <1>3, <1>4, <1>5, TotalPick
  <2> QED BY <1>3, <1>5, <2>1, <2>2, <2>3 DEF s
<1>6. CASE i \notin 0 .. n - 1
  <2>1. \A q \in 0 .. n - 1 : f[q] = 0
    BY <1>4, <1>6
  <2> HIDE DEF f, s
  <2>2. Total(f, n) = 0
    BY <2>1, TotalOfZeros
  <2> QED BY <1>3, <1>6, <2>2 DEF s
<1> QED BY <1>5, <1>6

LEMMA StreamTableRight ==
  ASSUME StreamShape
  PROVE  RightTable(StreamTable)
<1>1. /\ ProductShape /\ IsOperand(DigitsA) /\ IsOperand(DigitsB) /\ EndsBelow(DigitsA, (Turns + 1) * L)
      /\ Turns + 1 \in Nat /\ (Turns + 1) * L \in Nat /\ Register = 0 .. L
  <2>1. Turns + 1 \in Nat /\ (Turns + 1) * L \in Nat
    <3>1. Turns \in Nat /\ L \in Nat
      BY StreamSizes, VectorSizes
    <3> QED BY <3>1
  <2> QED BY <2>1, StreamSizes, VectorSizes
<1>2. IsTable(StreamTable)
  <2> SUFFICES ASSUME NEW k \in Register, NEW s \in Int PROVE StreamTable[k][s] \in Int
    BY DEF IsTable
  <2>1. k \in Int
    BY VectorSizes
  <2>2. Gather(DigitsA, DigitsB, Turns + 1, k, s) \in Int
    BY <1>1, <2>1, GatherBounds
  <2> QED BY <2>2 DEF StreamTable
<1>3. ASSUME NEW t \in Nat, NEW f, ColumnOf(f, StreamTable, t) PROVE Total(f, L + 1) = ProductColumn(t, 0)
  <2>1. \A k \in 0 .. L : f[k] = Gather(DigitsA, DigitsB, Turns + 1, k, t - k)
    <3> SUFFICES ASSUME NEW k \in 0 .. L PROVE f[k] = Gather(DigitsA, DigitsB, Turns + 1, k, t - k)
      OBVIOUS
    <3>1. k \in Register /\ t - k \in Int
      BY <1>1
    <3> QED BY <1>3, <3>1 DEF ColumnOf, StreamTable
  <2> DEFINE n == Turns + 1  m == n * L
  <2>2. n \in Nat /\ m \in Nat /\ EndsBelow(DigitsA, m) /\ t \in Int
    BY <1>1
  <2>3. Total(f, L + 1) = Convolved(DigitsA, DigitsB, m, t)
    <3> HIDE DEF n
    <3>1. \A k \in 0 .. L : f[k] = Gather(DigitsA, DigitsB, n, k, t - k)
      BY <2>1 DEF n
    <3> QED BY SMTT(60), <1>1, <2>2, <3>1, GatherColumn
  <2> HIDE DEF m
  <2>4. Convolved(DigitsA, DigitsB, m, t) = Conv(DigitsA, DigitsB, t)
    BY <1>1, <2>2, ConvolvedIs
  <2> QED BY <1>1, <2>3, <2>4, ProductOperands
<1> QED BY <1>2, <1>3 DEF RightTable

(* What the registers hold when vector i of the product leaves. *)
LEMMA StreamRegisters ==
  ASSUME StreamShape, NEW i \in Int
  PROVE  /\ i \in 0 .. Turns => Holds(Terms(Vec(bp, 0), ap, i, Upto(i)), StreamTable, i * L)
         /\ i \notin 0 .. Turns => Holds(NoTerms, StreamTable, i * L)
<1>1. /\ Turns \in Nat /\ an % L \in 0 .. L - 1 /\ IsOperand(DigitsA) /\ IsOperand(DigitsB)
      /\ L \in Nat /\ L > 0 /\ Lane = 0 .. L - 1 /\ Register = 0 .. L /\ bn = L /\ Turns + 1 \in Nat
      /\ 0 .. (Turns + 1) - 1 = 0 .. Turns
  <2>1. Turns \in Nat
    BY StreamSizes
  <2>2. Turns + 1 \in Nat /\ 0 .. (Turns + 1) - 1 = 0 .. Turns
    BY <2>1
  <2> QED BY <2>2, StreamSizes, VectorSizes
<1>2. ASSUME NEW k \in Register, NEW l \in Lane
      PROVE  StreamTable[k][i * L + l] = IF i \in 0 .. Turns THEN Share(DigitsA, DigitsB, i * L, k, l) ELSE 0
  <2>1. k \in Int /\ i * L + l \in Int
    BY <1>1
  <2>2. StreamTable[k][i * L + l] = Gather(DigitsA, DigitsB, Turns + 1, k, i * L + l)
    BY <2>1 DEF StreamTable
  <2> DEFINE n == Turns + 1
  <2>3. n \in Nat /\ 0 .. n - 1 = 0 .. Turns
    BY <1>1
  <2> HIDE DEF n
  <2>4. Gather(DigitsA, DigitsB, n, k, i * L + l) = IF i \in 0 .. n - 1 THEN Share(DigitsA, DigitsB, i * L, k, l) ELSE 0
    BY <2>1, <2>3, OneGathered
  <2> QED BY <2>2, <2>3, <2>4 DEF n
<1>3. ASSUME i \notin 0 .. Turns PROVE Holds(NoTerms, StreamTable, i * L)
  <2> SUFFICES ASSUME NEW k \in Register, NEW l \in Lane PROVE NoTerms[k][l] = Word(StreamTable[k][i * L + l])
    BY DEF Holds
  <2> QED BY <1>2, <1>3, ZeroWord DEF NoTerms, Zero
<1>4. ASSUME i \in 0 .. Turns PROVE Holds(Terms(Vec(bp, 0), ap, i, Upto(i)), StreamTable, i * L)
  <2> SUFFICES ASSUME NEW k \in Register, NEW l \in Lane
               PROVE  Terms(Vec(bp, 0), ap, i, Upto(i))[k][l] = Word(StreamTable[k][i * L + l])
    BY DEF Holds
  <2> DEFINE o == i * L  s == 0
  <2>1. i \in Nat /\ Upto(i) \in -1 .. L - 1 /\ o \in Int /\ o \in Nat
    BY <1>1, <1>4 DEF Upto
  <2>2. VectorFrom(Vec(bp, 0), DigitsB, s)
    <3> SUFFICES ASSUME NEW j \in Lane PROVE Vec(bp, 0)[j] = DigitsB[0 + j]
      BY DEF VectorFrom
    <3>1. 0 + j = j /\ j \in Int /\ 0 <= j /\ j < bn /\ 0 * L + j = j
      BY <1>1
    <3> QED BY <3>1 DEF Vec, DigitsB, Cut
  <2>3. SplatFrom(ap, i, Upto(i), DigitsA, o)
    <3> SUFFICES ASSUME NEW j \in 0 .. L - 1 PROVE DigitsA[o + j] = IF j <= Upto(i) THEN ap[i * L + j] ELSE 0
      BY DEF SplatFrom
    <3> DEFINE c == Turns * L
    <3>1. an = c + (an % L) /\ c \in Nat
      BY StreamSizes
    <3>2. IF i < Turns THEN o + L <= c ELSE o = c
      <4>1. i < Turns => o + L <= c
        BY <1>1, <2>1, BelowProduct
      <4>2. ~(i < Turns) => i = Turns
        BY <1>1, <1>4
      <4> QED BY <4>1, <4>2
    <3> HIDE DEF o, c
    <3>3. o + j \in Int /\ 0 <= o + j /\ (o + j < an <=> j <= Upto(i))
      <4> DEFINE m == an % L
      <4>1. an = c + m /\ m \in Nat /\ j \in Nat /\ j < L /\ o \in Nat /\ c \in Nat /\ L \in Nat
        BY <1>1, <2>1, <3>1, StreamSizes
      <4>2. Upto(i) = IF i < Turns THEN L - 1 ELSE m - 1
        BY DEF Upto
      <4> HIDE DEF m, Upto
      <4>3. CASE i < Turns
        BY <3>2, <4>1, <4>2, <4>3
      <4>4. CASE ~(i < Turns)
        BY <3>2, <4>1, <4>2, <4>4
      <4> QED BY <4>3, <4>4
    <3>4. DigitsA[o + j] = IF 0 <= o + j /\ o + j < an THEN ap[o + j] ELSE 0
      BY <3>3 DEF DigitsA, Cut
    <3> QED BY <3>3, <3>4 DEF o
  <2>4. s \in Int /\ s + l = l
    BY <1>1
  <2> DEFINE upto == Upto(i)  vec == Vec(bp, 0)
  <2> HIDE DEF s, o, upto, vec
  <2>5. upto \in -1 .. L - 1 /\ SplatFrom(ap, i, upto, DigitsA, o) /\ VectorFrom(vec, DigitsB, s)
    BY <2>1, <2>2, <2>3 DEF upto, vec
  <2>6. Terms(vec, ap, i, upto)[k][l] = Word(Share(DigitsA, DigitsB, o, k, s + l))
    <3>1. IsOperand(DigitsA) /\ IsOperand(DigitsB) /\ i \in Nat /\ o \in Int /\ s \in Int
      BY <1>1, <2>1, <2>4
    <3>2. TermsGiven(DigitsA, DigitsB, vec, ap, i, upto, o, s)
      BY <2>5, <3>1 DEF TermsGiven
    <3> QED BY <3>2, TermsOfGiven
  <2> QED BY <1>2, <1>4, <2>4, <2>6 DEF o, upto, vec
<1> QED BY <1>3, <1>4

LEMMA SumIsFunction ==
  ASSUME NEW v, NEW n \in Nat
  PROVE  SumOf(v, n) = [l \in Lane |-> SumOf(v, n)[l]]
<1>1. CASE n = 0
  BY <1>1, SumSteps DEF Zero
<1>2. CASE n # 0
  <2>1. n - 1 \in Nat /\ (n - 1) + 1 = n
    BY <1>2
  <2>2. SumOf(v, (n - 1) + 1) = Plus(SumOf(v, n - 1), v[n - 1])
    BY <2>1, SumSteps
  <2> QED BY <2>1, <2>2 DEF Plus
<1> QED BY <1>1, <1>2

LEMMA PrefixKept ==
  ASSUME UNCHANGED <<prog, an, bn, ap, bp>>
  PROVE  /\ Count' = Count /\ Prefix' = Prefix
         /\ \A t : Column(t)' = Column(t) /\ CarryAt(t)' = CarryAt(t) /\ ProductColumn(t, 0)' = ProductColumn(t, 0)
<1>1. \A t, from : ProductColumn(t, from)' = ProductColumn(t, from)
  BY DEF ProductColumn, LowHalf, HighHalf, Total
<1>2. \A t : Column(t)' = Column(t)
  BY <1>1 DEF Column
<1>3. Count' = Count
  BY DEF Count
<1>4. Prefix' = Prefix
  BY <1>2, <1>3 DEF Prefix
<1>5. \A t : CarryAt(t)' = CarryAt(t)
  BY <1>4 DEF CarryAt
<1> QED BY <1>1, <1>2, <1>3, <1>4, <1>5

StreamState ==
  /\ vi \in Nat /\ DOMAIN rp = Limbs /\ PosChain(chain)
  /\ IF done THEN vi > Turns /\ Resolved(rp, Count)
     ELSE /\ vi <= Turns /\ Resolved(rp, vi * L) /\ Holds(kept, StreamTable, vi * L - L)
          /\ chain.hi + chain.cin = CarryAt(vi * L)
StreamInv == prog \in {"vec", "fast"} => StreamShape /\ StreamState

LEMMA StreamPrefix ==
  ASSUME prog \in {"vec", "fast"}, StreamShape
  PROVE  /\ Count = (Turns * L + L) + (an % L) /\ Count \in Nat /\ PrefixRight(Count) /\ CarryAt(0) = 0
         /\ \A t \in Nat : Column(t) = ProductColumn(t, 0) /\ ProductColumn(t, 0) \in 0 .. Width - 1
<1>1. Count = an + bn
  BY DEF Count
<1> DEFINE c == Turns * L
<1>2. /\ c \in Nat /\ an = c + (an % L) /\ bn = L /\ an % L \in 0 .. L - 1 /\ L \in Nat /\ ProductShape
  BY StreamSizes, VectorSizes
<1>3. Count = (c + L) + (an % L) /\ Count \in Nat
  <2> HIDE DEF c
  <2> QED BY <1>1, <1>2
<1>4. \A t \in Nat : Column(t) = ProductColumn(t, 0) /\ ProductColumn(t, 0) \in 0 .. Width - 1
  BY <1>2, ProductOperands DEF Column
<1>5. \A t \in 0 .. Count - 1 : Column(t) \in Int
  <2> SUFFICES ASSUME NEW t \in 0 .. Count - 1 PROVE Column(t) \in Int
    OBVIOUS
  <2>1. t \in Nat
    BY <1>3
  <2>2. Column(t) \in 0 .. Width - 1
    BY <1>4, <2>1
  <2> QED BY <2>2
<1> QED BY <1>3, <1>4, <1>5, PrefixIs DEF c

(* One vector leaves, resolved. *)
LEMMA StreamLeaves ==
  ASSUME prog \in {"vec", "fast"}, StreamShape, NEW k \in Nat, NEW mem, Resolved(mem, k * L), NEW regs, NEW below,
         Holds(regs, StreamTable, k * L), Holds(below, StreamTable, k * L - L),
         NEW c, PosChain(c), c.hi + c.cin = CarryAt(k * L), NEW m \in 0 .. L, k * L + m <= Count,
         NEW r, r = Canonized(Leaving(regs, below), c)
  PROVE  /\ PosChain(r.chain) /\ Resolved(Stored(mem, k, r.vec, L), k * L + m)
         /\ m = L => r.chain.hi + r.chain.cin = CarryAt(k * L + m)
<1> DEFINE v == Leaving(regs, below)  base == k * L
<1>1. base \in Nat /\ ProductShape /\ RightTable(StreamTable) /\ L \in Nat /\ Lane = 0 .. L - 1 /\ L + 1 \in Nat
  BY StreamTableRight, VectorSizes DEF StreamShape
<1>2. ASSUME NEW l \in Lane PROVE v[l] = Column(base + l) /\ IsWord(v[l])
  <2>1. v[l] = ProductColumn(base + l, 0)
    BY <1>1, VectorLeaves
  <2>2. base + l \in Nat
    <3> HIDE DEF base
    <3> QED BY <1>1
  <2> HIDE DEF base, v
  <2>3. Column(base + l) = ProductColumn(base + l, 0) /\ ProductColumn(base + l, 0) \in 0 .. Width - 1
    BY <2>2, StreamPrefix
  <2> QED BY <2>1, <2>3, FullWord DEF IsWord
<1>3. v = [l \in Lane |-> v[l]]
  BY <1>1, SumIsFunction DEF Leaving
<1>4. WordLanes(v)
  BY <1>2, <1>3 DEF WordLanes
<1> HIDE DEF v, base
<1>5. PosChain(r.chain) /\ \E e : Settles(r.vec, e, v) /\ e[0] = c.hi + c.cin /\ e[L] = r.chain.hi + r.chain.cin
  <2>1. r = IF prog = "fast" THEN CanonizeFast(v, c) ELSE Canonize(v, c)
    BY DEF Canonized, v
  <2>2. CASE prog = "fast"
    <3>1. r = CanonizeFast(v, c)
      BY <2>1, <2>2
    <3> QED BY <1>4, <3>1, FastSettled
  <2>3. CASE prog # "fast"
    <3>1. r = Canonize(v, c)
      BY <2>1, <2>3
    <3> QED BY <1>4, <3>1, CanonizeSettled
  <2> QED BY <2>2, <2>3
<1>6. PICK e : Settles(r.vec, e, v) /\ e[0] = c.hi + c.cin /\ e[L] = r.chain.hi + r.chain.cin
  BY <1>5
<1>7. e[m] = CarryAt(base + m) /\ \A l \in 0 .. m - 1 : r.vec[l] = Prefix[base + l] % B
  <2>1. /\ e[0] = CarryAt(base) /\ base + m <= Count /\ PrefixRight(Count) /\ Count \in Nat
        /\ Settles(r.vec, e, v)
    BY <1>6, StreamPrefix DEF base
  <2>2. \A l \in 0 .. m - 1 : v[l] = Column(base + l)
    <3> SUFFICES ASSUME NEW l \in 0 .. m - 1 PROVE l \in Lane
      BY <1>2
    <3> QED BY <1>1
  <2> QED BY <1>1, <2>1, <2>2, ColumnsSettle
<1>8. Resolved(Stored(mem, k, r.vec, L), k * L + m)
  BY <1>7, ResolvedStored DEF base
<1> QED BY <1>5, <1>6, <1>7, <1>8 DEF base

LEMMA InitStream == ProductInputs /\ DigitInputs /\ Init => StreamInv
<1> SUFFICES ASSUME ProductInputs, DigitInputs, Init, prog \in {"vec", "fast"} PROVE StreamShape /\ StreamState
  BY DEF StreamInv
<1>1. PICK shape \in Shapes[prog] : an = shape[1] /\ bn = shape[2]
  BY DEF Init
<1>2. prog \in Products \cap DOMAIN Shapes /\ ap \in Patterns[prog] /\ bp \in Patterns[prog]
  BY DEF Init, Products
<1>3. an \in Nat \ {0} /\ bn \in Nat \ {0} /\ bn = L
  BY <1>1, <1>2 DEF ProductInputs
<1>4. /\ 2 * bn <= H /\ IsDigits(ap, 0, an) /\ IsDigits(bp, 0, bn)
  <2> DEFINE m == OperandLimbs(prog, shape)
  <2>1. /\ 2 * bn <= H
        /\ \A digits \in Patterns[prog] : \A j \in 0 .. m - 1 : digits[j] \in 0 .. B - 1
    BY <1>1, <1>2 DEF DigitInputs
  <2>2. m = IF an >= bn THEN an ELSE bn
    BY <1>1 DEF OperandLimbs
  <2> HIDE DEF m
  <2>3. m \in Nat /\ an <= m /\ bn <= m
    BY <1>3, <2>2
  <2>4. (\A j \in 0 .. an - 1 : j \in 0 .. m - 1) /\ \A j \in 0 .. bn - 1 : j \in 0 .. m - 1
    BY <1>3, <2>3
  <2> QED BY <1>2, <2>1, <2>4 DEF IsDigits
<1>5. StreamShape
  BY <1>3, <1>4 DEF StreamShape, ProductShape
<1>6. /\ vi = 0 /\ done = FALSE /\ rp = [j \in Limbs |-> Untouched] /\ kept = NoTerms
      /\ chain = [NoCarry EXCEPT !.cin = 0]
  BY DEF Init
<1>7. L \in Nat /\ L > 0 /\ vi * L = 0 /\ vi * L - L = (-1) * L /\ Turns \in Nat
  <2>1. L \in Nat /\ L > 0 /\ Turns \in Nat
    BY <1>5, StreamSizes, VectorSizes
  <2> QED BY <1>6, <2>1
<1>8. PosChain(chain) /\ chain.hi + chain.cin = 0
  BY <1>6, Parameters DEF PosChain, NoCarry
<1>9. Resolved(rp, vi * L)
  <2> SUFFICES ASSUME NEW j \in Limbs, j < 0 PROVE FALSE
    BY <1>7 DEF Resolved
  <2> QED BY VectorSizes
<1>10. Holds(kept, StreamTable, vi * L - L)
  <2>1. -1 \in Int /\ -1 \notin 0 .. Turns
    BY <1>7
  <2>2. Holds(NoTerms, StreamTable, (-1) * L)
    BY <1>5, <2>1, StreamRegisters
  <2> QED BY <1>6, <1>7, <2>2
<1>11. CarryAt(vi * L) = 0
  BY <1>5, <1>7, StreamPrefix
<1> QED BY <1>5, <1>6, <1>7, <1>8, <1>9, <1>10, <1>11 DEF StreamState

LEMMA StreamReached ==
  ASSUME StreamShape, UNCHANGED <<prog, an, bn, ap, bp>>, vi' \in Nat, DOMAIN rp' = Limbs, PosChain(chain'),
         NEW next, next = vi' * L,
         IF done' THEN vi' > Turns /\ Resolved(rp', Count)
         ELSE /\ vi' <= Turns /\ Resolved(rp', next) /\ Holds(kept', StreamTable, next - L)
              /\ chain'.hi + chain'.cin = CarryAt(next)
  PROVE  StreamInv'
<1>1. Count' = Count /\ Prefix' = Prefix /\ \A t : CarryAt(t)' = CarryAt(t)
  BY PrefixKept
<1>2. DigitsA' = DigitsA /\ DigitsB' = DigitsB /\ Turns' = Turns
  BY DEF DigitsA, DigitsB, Cut, Turns
<1>3. StreamTable' = StreamTable
  BY <1>2 DEF StreamTable, Gather, Share, Total, Register
<1>4. StreamShape'
  BY DEF StreamShape, ProductShape, IsDigits
<1>5. Limbs' = Limbs /\ Register' = Register /\ L' = L /\ Lane' = Lane
  BY DEF Limbs, Register, Lane
<1>6. PosChain(chain)'
  BY DEF PosChain
<1>7. /\ done' => Resolved(rp, Count)'
      /\ ~done' => Resolved(rp, vi * L)'
  BY <1>1, <1>5 DEF Resolved
<1>8. ~done' => Holds(kept, StreamTable, vi * L - L)'
  BY <1>3, <1>5 DEF Holds, Word, Width
<1>9. ~done' => chain'.hi + chain'.cin = CarryAt(vi * L)'
  BY <1>1 DEF CarryAt
<1> QED BY <1>2, <1>4, <1>5, <1>6, <1>7, <1>8, <1>9 DEF StreamInv, StreamState

LEMMA StreamSteps ==
  ASSUME StreamInv, NEW p \in {"vec", "fast"}, StreamTurn(p) \/ StreamEnd(p)
  PROVE  StreamInv'
<1>1. prog = p /\ prog \in {"vec", "fast"} /\ StreamShape /\ StreamState /\ UNCHANGED <<prog, an, bn, ap, bp>> /\ vi' = vi + 1
  BY DEF StreamTurn, StreamEnd, StreamInv
<1> DEFINE base == vi * L
<1>2. /\ L \in Nat /\ L > 0 /\ L \in 0 .. L /\ Turns \in Nat /\ an % L \in 0 .. L - 1 /\ vi \in Nat /\ base \in Nat
      /\ PosChain(chain) /\ Turns * L \in Nat
  BY <1>1, StreamSizes, VectorSizes DEF StreamState
<1>3. Count = (Turns * L + L) + (an % L)
  BY <1>1, StreamPrefix
<1>4. (vi + 1) * L = base + L /\ vi + 1 \in Nat
  BY <1>2
<1>5. CASE StreamTurn(p)
  <2> DEFINE regs == Terms(Vec(bp, 0), ap, vi, L - 1)  r == Canonized(Leaving(regs, kept), chain)
  <2>1. vi < Turns /\ rp' = Stored(rp, vi, r.vec, L) /\ chain' = r.chain /\ kept' = regs /\ done' = done
    BY <1>5 DEF StreamTurn, Harvest, Turns
  <2>2. ~done /\ Resolved(rp, base) /\ Holds(kept, StreamTable, base - L) /\ chain.hi + chain.cin = CarryAt(base)
    BY <1>1, <1>2, <2>1 DEF StreamState
  <2>3. vi \in 0 .. Turns /\ vi \in Int /\ Upto(vi) = L - 1
    BY <1>2, <2>1 DEF Upto
  <2>4. Holds(regs, StreamTable, base)
    BY <1>1, <2>3, StreamRegisters
  <2>5. base + L <= Count
    <3>1. base + L <= Turns * L
      BY <1>2, <2>1, BelowProduct
    <3> DEFINE c == Turns * L
    <3> HIDE DEF c, base
    <3>2. base + L <= c /\ Count = (c + L) + (an % L) /\ c \in Nat
      BY <1>2, <1>3, <3>1 DEF c
    <3> QED BY <1>2, <3>2
  <2> HIDE DEF r, regs
  <2>6. /\ PosChain(r.chain) /\ Resolved(Stored(rp, vi, r.vec, L), base + L)
        /\ L = L => r.chain.hi + r.chain.cin = CarryAt(base + L)
    BY <1>1, <1>2, <2>2, <2>4, <2>5, StreamLeaves DEF r
  <2> DEFINE next == base + L
  <2>7. next = vi' * L /\ vi' \in Nat /\ vi' <= Turns
    BY <1>1, <1>2, <1>4, <2>1
  <2>8. next - L = base
    <3> HIDE DEF base
    <3> QED BY <1>2
  <2>9. DOMAIN rp' = Limbs
    BY <2>1 DEF Stored
  <2>10. ~done' /\ PosChain(chain') /\ Resolved(rp', next) /\ Holds(kept', StreamTable, next - L) /\ chain'.hi + chain'.cin = CarryAt(next)
    BY <2>1, <2>2, <2>4, <2>6, <2>8
  <2> HIDE DEF next, base
  <2> QED BY <1>1, <2>7, <2>9, <2>10, StreamReached
<1>6. CASE StreamEnd(p)
  <2> DEFINE regs == Terms(Vec(bp, 0), ap, vi, (an % L) - 1)  r == Canonized(Leaving(regs, kept), chain)
             w == Canonized(Leaving(NoTerms, regs), r.chain)  first == Stored(rp, vi, r.vec, L)
  <2>1. /\ vi = Turns /\ ~done /\ done' = TRUE
        /\ rp' = IF an % L = 0 THEN first ELSE Stored(first, vi + 1, w.vec, L)
        /\ chain' = IF an % L = 0 THEN r.chain ELSE w.chain
    BY <1>6 DEF StreamEnd, Harvest, Flush, Turns
  <2>2. Resolved(rp, base) /\ Holds(kept, StreamTable, base - L) /\ chain.hi + chain.cin = CarryAt(base)
    BY <1>1, <2>1 DEF StreamState
  <2>3. vi \in 0 .. Turns /\ vi \in Int /\ Upto(vi) = (an % L) - 1 /\ vi + 1 \in Int /\ vi + 1 \notin 0 .. Turns
    BY <1>2, <2>1 DEF Upto
  <2>4. Holds(regs, StreamTable, base) /\ Holds(NoTerms, StreamTable, base + L)
    <3>1. Holds(regs, StreamTable, base)
      BY <1>1, <2>3, StreamRegisters
    <3>2. Holds(NoTerms, StreamTable, (vi + 1) * L)
      BY <1>1, <2>3, StreamRegisters
    <3> QED BY <1>4, <3>1, <3>2
  <2>5. Count = (base + L) + (an % L)
    BY <1>3, <2>1
  <2> HIDE DEF r, regs, w, first
  <2>6. base + L <= Count /\ base + L \in Nat /\ (base + L) - L = base
    <3> HIDE DEF base
    <3> QED BY <1>2, <2>5
  <2>7. /\ PosChain(r.chain) /\ Resolved(first, base + L)
        /\ L = L => r.chain.hi + r.chain.cin = CarryAt(base + L)
    <3>1. r = Canonized(Leaving(regs, kept), chain)
      BY DEF r
    <3>2. /\ PosChain(r.chain) /\ Resolved(Stored(rp, vi, r.vec, L), base + L)
          /\ L = L => r.chain.hi + r.chain.cin = CarryAt(base + L)
      BY <1>1, <1>2, <2>2, <2>4, <2>6, <3>1, StreamLeaves
    <3> QED BY <3>2 DEF first
  <2>8. PosChain(w.chain) /\ Resolved(Stored(first, vi + 1, w.vec, L), (base + L) + (an % L))
    <3> DEFINE k == vi + 1  m == an % L
    <3>1. k * L = base + L /\ k \in Nat /\ m \in 0 .. L
      <4>1. m \in 0 .. L
        BY <1>2
      <4> QED BY <1>4, <4>1
    <3> HIDE DEF k, m
    <3>2. /\ Resolved(first, k * L) /\ Holds(NoTerms, StreamTable, k * L) /\ Holds(regs, StreamTable, k * L - L)
          /\ r.chain.hi + r.chain.cin = CarryAt(k * L) /\ k * L + m <= Count
      <4>1. Count = (base + L) + m /\ Count \in Nat
        BY <1>1, <2>5, StreamPrefix DEF m
      <4>2. k * L + m <= Count
        BY <3>1, <4>1
      <4> QED BY <2>4, <2>6, <2>7, <3>1, <4>2
    <3>3. w = Canonized(Leaving(NoTerms, regs), r.chain)
      BY DEF w
    <3>4. PosChain(w.chain) /\ Resolved(Stored(first, k, w.vec, L), k * L + m)
      BY <1>1, <2>7, <3>1, <3>2, <3>3, StreamLeaves
    <3> QED BY <3>1, <3>4 DEF k, m
  <2>9. Resolved(rp', Count) /\ PosChain(chain') /\ DOMAIN rp' = Limbs
    <3>1. an % L = 0 => Count = base + L
      <4> HIDE DEF base
      <4> QED BY <1>2, <2>5
    <3>2. DOMAIN rp' = Limbs
      BY <2>1 DEF Stored, first
    <3> QED BY <2>1, <2>5, <2>7, <2>8, <3>1, <3>2
  <2>10. vi' \in Nat /\ vi' > Turns
    BY <1>1, <1>2, <2>1
  <2> HIDE DEF base
  <2> QED BY <1>1, <2>1, <2>9, <2>10, StreamReached
<1> QED BY <1>5, <1>6

-----------------------------------------------------------------------------
(* The blocks' carries: a cheap path when no lane passes one on *)

LEMMA NextResidue ==
  ASSUME NEW z \in Int
  PROVE  (z + B) % B = z % B
<1> DEFINE q == z \div B  r == z % B
<1>1. B \in Nat /\ B > 0 /\ B \in Nat \ {0}
  BY Parameters
<1>2. z = q * B + r /\ r \in 0 .. B - 1 /\ q \in Int
  BY <1>1, DivMod
<1> HIDE DEF q, r
<1>3. (q + 1) * B = q * B + B /\ q * B \in Int /\ q + 1 \in Int /\ r \in Int
  BY <1>1, <1>2
<1>4. z + B = (q + 1) * B + r /\ z + B \in Int
  BY <1>1, <1>2, <1>3
<1>5. (z + B) % B = r
  BY <1>1, <1>2, <1>3, <1>4, DivModUnique
<1> QED BY <1>5 DEF r

LEMMA WordResidue ==
  ASSUME NEW z \in Int
  PROVE  Word(z) % B = z % B
<1> DEFINE q == z \div Width  r == z % Width  c == r \div B  d == r % B  h == q * H
<1>1. B \in Nat /\ B > 0 /\ B \in Nat \ {0} /\ H \in Nat /\ Width \in Nat \ {0} /\ Width = B * H
  BY Parameters
<1>2. z = q * Width + r /\ r \in 0 .. Width - 1 /\ q \in Int
  BY <1>1, DivMod
<1> HIDE DEF q, r
<1>3. r \in Int /\ h \in Int
  BY <1>1, <1>2
<1>4. r = c * B + d /\ d \in 0 .. B - 1 /\ c \in Int
  BY <1>1, <1>3, DivMod
<1> HIDE DEF c, d
<1>5. q * Width = h * B
  BY <1>1, <1>2
<1> HIDE DEF h
<1>6. (h + c) * B = h * B + c * B /\ h * B \in Int /\ c * B \in Int /\ h + c \in Int
  BY <1>1, <1>3, <1>4
<1>7. z = (h + c) * B + d
  BY <1>2, <1>3, <1>4, <1>5, <1>6
<1>8. z % B = d
  BY <1>1, <1>4, <1>6, <1>7, DivModUnique
<1> QED BY <1>8 DEF Word, d, r

(* Without a lane at the largest digit only a lane above it passes a carry up. *)
DirectCarries(t, cin) == [l \in 0 .. L |-> IF l = 0 THEN cin ELSE IF t[l - 1] > MASK52 THEN 1 ELSE 0]

LEMMA RippledCarries ==
  ASSUME NEW t \in [Lane -> 0 .. 2 * B - 2], NEW cin \in {0, 1}
  PROVE  LET r == Rippled(t, cin) IN \E k : Carried(k, t, r.vec, cin) /\ r.out = k[L]
<1> DEFINE r == Rippled(t, cin)
<1>1. /\ L \in Nat /\ L > 0 /\ Lane = 0 .. L - 1 /\ L - 1 \in Lane /\ L \in 0 .. L /\ B \in Nat /\ B >= 2 /\ MASK52 = B - 1
  BY Parameters
<1>2. \A l \in Lane : t[l] \in Int /\ 0 <= t[l] /\ t[l] <= 2 * B - 2
  BY <1>1
<1>3. CASE \E l \in Lane : t[l] = MASK52
  <2> DEFINE p == CarryRipple(t, cin)
  <2>1. r = [vec |-> [l \in Lane |-> (IF l \in p.into THEN t[l] + 1 ELSE t[l]) % B], out |-> p.out]
    BY <1>3 DEF Rippled, CarryRipple
  <2>2. PICK k : Carried(k, t, WithCarry(t, p), cin) /\ p.out = k[L]
    BY CarriesResolved
  <2> HIDE DEF p, r
  <2>3. ASSUME NEW l \in Lane PROVE r.vec[l] = WithCarry(t, p)[l]
    <3> DEFINE x == t[l]  z == x - (B - 1)
    <3>1. x \in Int /\ z \in Int /\ z + B = x + 1
      BY <1>1, <1>2
    <3>2. (z + B) % B = z % B
      <4> HIDE DEF z
      <4> QED BY <3>1, NextResidue
    <3>3. r.vec[l] = (IF l \in p.into THEN x + 1 ELSE x) % B
      BY <2>1
    <3>4. WithCarry(t, p)[l] = (IF l \in p.into THEN z ELSE x) % B
      BY <1>1 DEF WithCarry
    <3> HIDE DEF z, x
    <3> QED BY <3>1, <3>2, <3>3, <3>4
  <2>4. r.vec = WithCarry(t, p) /\ r.out = p.out
    <3>1. r.vec = [l \in Lane |-> r.vec[l]] /\ WithCarry(t, p) = [l \in Lane |-> WithCarry(t, p)[l]] /\ r.out = p.out
      BY <2>1 DEF WithCarry
    <3> QED BY <2>3, <3>1
  <2>5. Carried(k, t, r.vec, cin) /\ r.out = k[L]
    BY <2>2, <2>4
  <2> QED BY <2>5 DEF r
<1>4. CASE ~(\E l \in Lane : t[l] = MASK52)
  <2> DEFINE k == DirectCarries(t, cin)
             into == {l \in Lane : IF l = 0 THEN cin = 1 ELSE t[l - 1] > MASK52}
  <2>1. r = [vec |-> [l \in Lane |-> (IF l \in into THEN t[l] + 1 ELSE t[l]) % B], out |-> IF t[L - 1] > MASK52 THEN 1 ELSE 0]
    BY <1>4 DEF Rippled
  <2>2. /\ k[0] = cin /\ k[L] = r.out
        /\ \A l \in 0 .. L : k[l] \in {0, 1}
        /\ \A l \in Lane : (l \in into <=> k[l] = 1) /\ k[l + 1] = IF t[l] > MASK52 THEN 1 ELSE 0
    <3>1. \A l \in Lane : l \in 0 .. L /\ l + 1 \in 0 .. L /\ l + 1 # 0 /\ (l + 1) - 1 = l
      BY <1>1
    <3>2. k[0] = cin /\ k[L] = IF t[L - 1] > MASK52 THEN 1 ELSE 0
      BY <1>1 DEF DirectCarries
    <3>3. \A l \in Lane : k[l + 1] = IF t[l] > MASK52 THEN 1 ELSE 0
      BY <3>1 DEF DirectCarries
    <3>4. \A l \in 0 .. L : k[l] \in {0, 1}
      BY DEF DirectCarries
    <3>5. \A l \in Lane : l \in into <=> k[l] = 1
      BY <3>1 DEF DirectCarries
    <3> QED BY <2>1, <3>2, <3>3, <3>4, <3>5
  <2> HIDE DEF k, into, r
  <2>3. ASSUME NEW l \in Lane PROVE r.vec[l] \in 0 .. B - 1 /\ r.vec[l] + B * k[l + 1] = t[l] + k[l]
    <3> DEFINE x == t[l]  u == k[l]  v == k[l + 1]  z == x - (B - 1)  d == r.vec[l]
    <3>1. x \in Int /\ 0 <= x /\ x <= 2 * B - 2 /\ x # B - 1 /\ u \in {0, 1} /\ (l \in into <=> u = 1) /\ z \in Int /\ z + B = x + 1
      <4>1. l \in 0 .. L /\ t[l] # MASK52
        BY <1>1, <1>4
      <4> QED BY <1>1, <1>2, <2>2, <4>1
    <3>2. v = IF x > B - 1 THEN 1 ELSE 0
      BY <1>1, <2>2
    <3>3. (z + B) % B = z % B
      <4> HIDE DEF z
      <4> QED BY <3>1, NextResidue
    <3>4. d = (IF u = 1 THEN x + 1 ELSE x) % B
      BY <2>1, <3>1
    <3> HIDE DEF x, u, v, d
    <3>5. v = IF x + u >= B THEN 1 ELSE 0
      BY <1>1, <3>1, <3>2
    <3>6. d = (IF u = 1 THEN x - (B - 1) ELSE x) % B
      <4>1. CASE u = 1
        BY <3>1, <3>3, <3>4, <4>1
      <4>2. CASE u # 1
        BY <3>4, <4>2
      <4> QED BY <4>1, <4>2
    <3> HIDE DEF z
    <3>7. d \in 0 .. B - 1 /\ d + B * v = x + u
      BY <3>1, <3>5, <3>6, CarryDigit
    <3> QED BY <3>7 DEF d, v, x, u
  <2>4. Carried(k, t, r.vec, cin)
    BY <2>2, <2>3 DEF Carried
  <2>5. Carried(k, t, r.vec, cin) /\ r.out = k[L]
    BY <2>2, <2>4
  <2> QED BY <2>5 DEF r
<1> QED BY <1>3, <1>4

LEMMA NegativeWord ==
  ASSUME NEW x \in -(B - 1) .. B - 1
  PROVE  Word(x) \in Int /\ Word(x) = (IF x < 0 THEN x + Width ELSE x) /\ (Word(x) > MASK52 <=> x < 0) /\ (Word(x) = 0 <=> x = 0)
<1>1. /\ Width \in Nat /\ Width > 0 /\ Width >= 2 * B /\ B \in Nat /\ B >= 2 /\ MASK52 = B - 1
      /\ Width \in Nat \ {0}
  BY Parameters
<1>2. CASE x < 0
  <2> DEFINE y == x + Width
  <2>1. x = (-1) * Width + y /\ y \in 0 .. Width - 1 /\ x \in Int /\ -1 \in Int /\ y > B - 1 /\ y # 0
    BY <1>1, <1>2
  <2> HIDE DEF y
  <2>2. x % Width = y
    BY <1>1, <2>1, DivModUnique
  <2> QED BY <1>1, <1>2, <2>1, <2>2 DEF Word, y
<1>3. CASE ~(x < 0)
  <2>1. x = 0 * Width + x /\ x \in 0 .. Width - 1 /\ x \in Int
    BY <1>1, <1>3
  <2>2. x % Width = x
    BY <1>1, <2>1, DivModUnique
  <2> QED BY <1>1, <1>3, <2>1, <2>2 DEF Word
<1> QED BY <1>2, <1>3

LEMMA BlockBorrows ==
  ASSUME NEW u, NEW v, NEW bin \in {0, 1},
         \A l \in Lane : u[l] \in 0 .. B - 1 /\ v[l] \in 0 .. B - 1,
         NEW s, s = [l \in Lane |-> u[l] - v[l]]
  PROVE  LET r == block_subb(u, v, bin) IN \E k : Borrowed(k, s, r.vec, bin) /\ r.out = k[L]
<1> DEFINE r == block_subb(u, v, bin)  t == [l \in Lane |-> Word(u[l] - v[l])]
<1>1. /\ L \in Nat /\ L > 0 /\ Lane = 0 .. L - 1 /\ L - 1 \in Lane /\ L \in 0 .. L /\ B \in Nat /\ B >= 2 /\ MASK52 = B - 1
  BY Parameters
<1>2. ASSUME NEW l \in Lane PROVE s[l] \in -(B - 1) .. B - 1 /\ s[l] \in Int /\ t[l] = Word(s[l])
  <2> DEFINE a == u[l]  b == v[l]
  <2>1. a \in 0 .. B - 1 /\ b \in 0 .. B - 1 /\ s[l] = a - b /\ t[l] = Word(a - b)
    OBVIOUS
  <2> HIDE DEF a, b, t
  <2> QED BY <1>1, <2>1
<1>3. s \in [Lane -> -(B - 1) .. B - 1] /\ t = [l \in Lane |-> Word(s[l])]
  <2>1. s = [l \in Lane |-> s[l]] /\ t = [l \in Lane |-> t[l]]
    OBVIOUS
  <2> HIDE DEF t
  <2> QED BY <1>2, <2>1
<1>4. \A l \in Lane : t[l] \in Int /\ (t[l] > MASK52 <=> s[l] < 0) /\ (t[l] = 0 <=> s[l] = 0)
  <2> SUFFICES ASSUME NEW l \in Lane
               PROVE  t[l] \in Int /\ (t[l] > MASK52 <=> s[l] < 0) /\ (t[l] = 0 <=> s[l] = 0)
    OBVIOUS
  <2>1. s[l] \in -(B - 1) .. B - 1 /\ t[l] = Word(s[l])
    BY <1>2
  <2> HIDE DEF t
  <2> QED BY <2>1, NegativeWord
<1>5. CASE \E l \in Lane : t[l] = 0
  <2> DEFINE p == BorrowRipple(t, bin)
  <2>1. r = [vec |-> [l \in Lane |-> Word(IF l \in p.into THEN t[l] + MASK52 ELSE t[l]) % B], out |-> p.out]
    BY <1>5 DEF block_subb, BorrowRipple
  <2> HIDE DEF p, r, t
  <2>2. PICK k : Borrowed(k, s, WithBorrow(t, p), bin) /\ p.out = k[L]
    <3>1. s \in [Lane -> -(B - 1) .. B - 1] /\ bin \in {0, 1} /\ t = [l \in Lane |-> Word(s[l])]
      BY <1>3
    <3>2. \E k : Borrowed(k, s, WithBorrow(t, BorrowRipple(t, bin)), bin) /\ BorrowRipple(t, bin).out = k[L]
      BY ONLY <3>1, BorrowsResolved
    <3> QED BY <3>2 DEF p
  <2>3. ASSUME NEW l \in Lane PROVE r.vec[l] = WithBorrow(t, p)[l]
    <3> DEFINE z == IF l \in p.into THEN t[l] + MASK52 ELSE t[l]
    <3>1. z \in Int
      BY <1>1, <1>4
    <3>2. r.vec[l] = Word(z) % B
      BY <2>1
    <3>3. WithBorrow(t, p)[l] = z % B
      BY DEF WithBorrow
    <3> HIDE DEF z
    <3> QED BY <3>1, <3>2, <3>3, WordResidue
  <2>4. r.vec = WithBorrow(t, p) /\ r.out = p.out
    <3>1. r.vec = [l \in Lane |-> r.vec[l]] /\ WithBorrow(t, p) = [l \in Lane |-> WithBorrow(t, p)[l]] /\ r.out = p.out
      BY <2>1 DEF WithBorrow
    <3> QED BY <2>3, <3>1
  <2>5. Borrowed(k, s, r.vec, bin) /\ r.out = k[L]
    BY <2>2, <2>4
  <2> QED BY <2>5 DEF r
<1>6. CASE ~(\E l \in Lane : t[l] = 0)
  <2> DEFINE k == DirectCarries(t, bin)
             into == {l \in Lane : IF l = 0 THEN bin = 1 ELSE t[l - 1] > MASK52}
  <2>1. r = [vec |-> [l \in Lane |-> Word(IF l \in into THEN t[l] + MASK52 ELSE t[l]) % B], out |-> IF t[L - 1] > MASK52 THEN 1 ELSE 0]
    BY <1>6 DEF block_subb
  <2> HIDE DEF t
  <2>2. /\ k[0] = bin /\ k[L] = r.out
        /\ \A l \in 0 .. L : k[l] \in {0, 1}
        /\ \A l \in Lane : (l \in into <=> k[l] = 1) /\ k[l + 1] = IF t[l] > MASK52 THEN 1 ELSE 0
    <3>1. \A l \in Lane : l \in 0 .. L /\ l + 1 \in 0 .. L /\ l + 1 # 0 /\ (l + 1) - 1 = l
      BY <1>1
    <3>2. k[0] = bin /\ k[L] = IF t[L - 1] > MASK52 THEN 1 ELSE 0
      BY <1>1 DEF DirectCarries
    <3>3. \A l \in Lane : k[l + 1] = IF t[l] > MASK52 THEN 1 ELSE 0
      BY <3>1 DEF DirectCarries
    <3>4. \A l \in 0 .. L : k[l] \in {0, 1}
      BY DEF DirectCarries
    <3>5. \A l \in Lane : l \in into <=> k[l] = 1
      BY <3>1 DEF DirectCarries
    <3> QED BY <2>1, <3>2, <3>3, <3>4, <3>5
  <2> HIDE DEF k, into, r
  <2>3. ASSUME NEW l \in Lane PROVE r.vec[l] \in 0 .. B - 1 /\ r.vec[l] - B * k[l + 1] = s[l] - k[l]
    <3> DEFINE x == s[l]  c == k[l]  e == k[l + 1]  d == r.vec[l]
               z == IF c = 1 THEN Word(x) + (B - 1) ELSE Word(x)
    <3>1. /\ x \in Int /\ -(B - 1) <= x /\ x <= B - 1 /\ x # 0 /\ c \in {0, 1} /\ (l \in into <=> c = 1)
          /\ t[l] = Word(x) /\ t[l] \in Int /\ (t[l] > MASK52 <=> x < 0)
      <4>1. l \in 0 .. L /\ t[l] # 0 /\ s[l] \in -(B - 1) .. B - 1
        BY <1>1, <1>2, <1>6
      <4>2. -(B - 1) <= x /\ x <= B - 1
        BY <1>1, <4>1
      <4> QED BY <1>2, <1>4, <2>2, <4>1, <4>2
    <3>2. e = IF x < 0 THEN 1 ELSE 0
      BY <2>2, <3>1
    <3>3. d = Word(z) % B /\ z \in Int
      BY <1>1, <2>1, <3>1
    <3>4. d = z % B
      <4> HIDE DEF z
      <4> QED BY <3>3, WordResidue
    <3> HIDE DEF x, c, e, d
    <3>5. e = IF x - c < 0 THEN 1 ELSE 0
      BY <3>1, <3>2
    <3>6. d \in 0 .. B - 1 /\ d - B * e = x - c
      BY <3>1, <3>4, <3>5, BorrowDigit
    <3> QED BY <3>6 DEF d, e, x, c
  <2>4. Borrowed(k, s, r.vec, bin)
    BY <2>2, <2>3 DEF Borrowed
  <2>5. Borrowed(k, s, r.vec, bin) /\ r.out = k[L]
    BY <2>2, <2>4
  <2> QED BY <2>5 DEF r
<1> QED BY <1>5, <1>6

-----------------------------------------------------------------------------
(* Blocks added and subtracted *)

BlockShape == an \in Nat \ {0} /\ IsDigits(ap, 0, an * L) /\ IsDigits(bp, 0, an * L)
BlockCarry == IF prog = "addc" THEN chain.cin ELSE 0 - chain.cin
BlockState ==
  /\ vi \in Nat /\ vi <= an /\ DOMAIN rp = Limbs /\ chain.cin \in {0, 1} /\ (done => vi = an)
  /\ Resolved(rp, vi * L) /\ BlockCarry = CarryAt(vi * L)
BlockInv == prog \in {"addc", "subb"} => BlockShape /\ BlockState

LEMMA BlockPrefix ==
  ASSUME prog \in {"addc", "subb"}, BlockShape
  PROVE  /\ Count = an * L /\ Count \in Nat /\ PrefixRight(Count) /\ CarryAt(0) = 0
         /\ \A t \in 0 .. Count - 1 : /\ ap[t] \in 0 .. B - 1 /\ bp[t] \in 0 .. B - 1
                                      /\ Column(t) = IF prog = "addc" THEN ap[t] + bp[t] ELSE ap[t] - bp[t]
<1>1. Count = an * L /\ Count \in Nat
  BY VectorSizes DEF Count, BlockShape
<1>2. ASSUME NEW t \in 0 .. Count - 1
      PROVE  /\ ap[t] \in 0 .. B - 1 /\ bp[t] \in 0 .. B - 1
             /\ Column(t) = IF prog = "addc" THEN ap[t] + bp[t] ELSE ap[t] - bp[t]
  <2>1. ap[t] \in 0 .. B - 1 /\ bp[t] \in 0 .. B - 1
    BY <1>1 DEF BlockShape, IsDigits
  <2> QED BY <2>1 DEF Column
<1>3. \A t \in 0 .. Count - 1 : Column(t) \in Int
  <2> SUFFICES ASSUME NEW t \in 0 .. Count - 1 PROVE Column(t) \in Int
    OBVIOUS
  <2> DEFINE x == ap[t]  y == bp[t]
  <2>1. x \in 0 .. B - 1 /\ y \in 0 .. B - 1 /\ Column(t) = IF prog = "addc" THEN x + y ELSE x - y
    BY <1>2
  <2> HIDE DEF x, y
  <2> QED BY <2>1, Parameters
<1>4. PrefixRight(Count) /\ CarryAt(0) = 0
  BY <1>1, <1>3, PrefixIs
<1> QED BY <1>1, <1>2, <1>4

(* One block. *)
LEMMA BlockLeaves ==
  ASSUME prog \in {"addc", "subb"}, BlockShape, NEW i \in Nat, i < an, NEW mem, Resolved(mem, i * L),
         NEW d, NEW e, NEW x, Settles(d, e, x), e[0] = CarryAt(i * L), \A l \in Lane : x[l] = Column(i * L + l)
  PROVE  Resolved(Stored(mem, i, d, L), (i + 1) * L) /\ e[L] = CarryAt((i + 1) * L)
<1> DEFINE base == i * L
<1>1. L \in Nat /\ L > 0 /\ L \in 0 .. L /\ Lane = 0 .. L - 1 /\ an \in Nat /\ base \in Nat
  BY VectorSizes DEF BlockShape
<1>2. (i + 1) * L = base + L
  BY <1>1
<1>3. base + L <= Count
  <2>1. base + L <= an * L
    BY <1>1, BelowProduct
  <2> QED BY <2>1, BlockPrefix
<1> HIDE DEF base
<1>4. e[L] = CarryAt(base + L) /\ \A l \in 0 .. L - 1 : d[l] = Prefix[base + l] % B
  <2>1. e[0] = CarryAt(base) /\ (\A l \in 0 .. L - 1 : x[l] = Column(base + l)) /\ PrefixRight(Count) /\ Count \in Nat
    BY <1>1, BlockPrefix DEF base
  <2>2. Settles(d, e, x) /\ base \in Nat /\ L \in 0 .. L
    BY <1>1
  <2> QED BY <1>3, <2>1, <2>2, ColumnsSettle
<1>5. Resolved(Stored(mem, i, d, L), i * L + L)
  BY <1>1, <1>4, ResolvedStored DEF base
<1> QED BY <1>2, <1>4, <1>5 DEF base

LEMMA BlockReached ==
  ASSUME prog \in {"addc", "subb"}, BlockShape, UNCHANGED <<prog, an, bn, ap, bp>>, vi' \in Nat, vi' <= an,
         DOMAIN rp' = Limbs, chain'.cin \in {0, 1}, done' => vi' = an, Resolved(rp', vi' * L),
         (IF prog = "addc" THEN chain'.cin ELSE 0 - chain'.cin) = CarryAt(vi' * L)
  PROVE  BlockInv'
<1>1. Prefix' = Prefix /\ \A t : CarryAt(t)' = CarryAt(t)
  BY PrefixKept
<1>2. BlockShape'
  BY DEF BlockShape, IsDigits
<1>3. Limbs' = Limbs /\ L' = L
  BY DEF Limbs
<1>4. Resolved(rp, vi * L)'
  BY <1>1, <1>3 DEF Resolved
<1>5. BlockCarry' = CarryAt(vi * L)'
  BY <1>1 DEF CarryAt, BlockCarry
<1> QED BY <1>2, <1>3, <1>4, <1>5 DEF BlockInv, BlockState

LEMMA InitBlock == ProductInputs /\ DigitInputs /\ Init => BlockInv
<1> SUFFICES ASSUME ProductInputs, DigitInputs, Init, prog \in {"addc", "subb"} PROVE BlockShape /\ BlockState
  BY DEF BlockInv
<1>1. PICK shape \in Shapes[prog] : an = shape[1] /\ bn = shape[2]
  BY DEF Init
<1>2. prog \in Products \cap DOMAIN Shapes /\ ap \in Patterns[prog] /\ bp \in Patterns[prog]
  BY DEF Init, Products
<1>3. an \in Nat \ {0}
  BY <1>1, <1>2 DEF ProductInputs
<1>4. IsDigits(ap, 0, an * L) /\ IsDigits(bp, 0, an * L)
  <2> DEFINE m == OperandLimbs(prog, shape)
  <2>1. \A digits \in Patterns[prog] : \A j \in 0 .. m - 1 : digits[j] \in 0 .. B - 1
    BY <1>1, <1>2 DEF DigitInputs
  <2>2. m = an * L
    BY <1>1 DEF OperandLimbs
  <2> HIDE DEF m
  <2> QED BY <1>2, <2>1, <2>2 DEF IsDigits
<1>5. BlockShape
  BY <1>3, <1>4 DEF BlockShape
<1>6. vi = 0 /\ done = FALSE /\ rp = [j \in Limbs |-> Untouched] /\ chain = [NoCarry EXCEPT !.cin = 0]
  BY DEF Init
<1>7. vi * L = 0
  BY <1>6, VectorSizes
<1>8. chain.cin = 0 /\ BlockCarry = 0
  <2>1. chain.cin = 0
    BY <1>6 DEF NoCarry
  <2>2. 0 - 0 = 0
    OBVIOUS
  <2> QED BY <2>1, <2>2 DEF BlockCarry
<1>9. Resolved(rp, vi * L)
  <2> SUFFICES ASSUME NEW j \in Limbs, j < 0 PROVE FALSE
    BY <1>7 DEF Resolved
  <2> QED BY VectorSizes
<1>10. CarryAt(vi * L) = 0
  BY <1>5, <1>7, BlockPrefix
<1> QED BY <1>3, <1>5, <1>6, <1>8, <1>9, <1>10 DEF BlockState

LEMMA BlockSteps ==
  ASSUME BlockInv, AddBlock \/ SubBlock
  PROVE  BlockInv'
<1>1. /\ prog \in {"addc", "subb"} /\ BlockShape /\ BlockState /\ UNCHANGED <<prog, an, bn, ap, bp>>
      /\ vi' = vi + 1 /\ vi < an /\ done' = (vi + 1 = an)
  BY DEF AddBlock, SubBlock, BlockInv
<1>2. /\ L \in Nat /\ L > 0 /\ Lane = 0 .. L - 1 /\ 0 \in 0 .. L /\ L \in 0 .. L /\ an \in Nat /\ vi \in Nat
      /\ B \in Nat /\ B >= 2 /\ chain.cin \in {0, 1} /\ Resolved(rp, vi * L) /\ BlockCarry = CarryAt(vi * L)
      /\ Width >= 2 * B /\ Width \in Nat
  BY <1>1, VectorSizes, Parameters DEF BlockState, BlockShape
<1> DEFINE base == vi * L  u == Vec(ap, vi)  v == Vec(bp, vi)  c == chain.cin
<1>3. ASSUME NEW l \in Lane
      PROVE  /\ u[l] \in 0 .. B - 1 /\ v[l] \in 0 .. B - 1
             /\ Column(base + l) = IF prog = "addc" THEN u[l] + v[l] ELSE u[l] - v[l]
  <2>1. base + L <= an * L /\ base \in Nat
    BY <1>1, <1>2, BelowProduct
  <2>2. Count = an * L /\ Count \in Nat
    BY <1>1, BlockPrefix
  <2>3. u[l] = ap[base + l] /\ v[l] = bp[base + l]
    BY DEF Vec
  <2> HIDE DEF base, u, v
  <2>4. base + l \in 0 .. Count - 1
    <3> DEFINE m == an * L
    <3>1. base + L <= m /\ Count = m
      BY <2>1, <2>2
    <3> HIDE DEF m
    <3> QED BY <1>2, <2>1, <2>2, <3>1
  <2> QED BY <1>1, <2>3, <2>4, BlockPrefix
<1>4. vi' \in Nat /\ vi' <= an /\ (done' => vi' = an)
  <2>1. vi \in Nat /\ vi < an /\ an \in Nat /\ vi' = vi + 1
    BY <1>1, <1>2
  <2>2. vi' \in Nat /\ vi' <= an
    BY <2>1
  <2>3. done' => vi' = an
    BY <1>1
  <2> QED BY <2>2, <2>3
<1>5. CASE AddBlock
  <2> DEFINE r == block_addc(u, v, c)  t == Plus(u, v)
  <2>1. prog = "addc" /\ rp' = Stored(rp, vi, r.vec, L) /\ chain' = [NoCarry EXCEPT !.cin = r.out]
    BY <1>5 DEF AddBlock
  <2>2. ASSUME NEW l \in Lane PROVE t[l] = u[l] + v[l] /\ t[l] \in 0 .. 2 * B - 2
    <3> DEFINE x == u[l]  y == v[l]
    <3>1. x \in 0 .. B - 1 /\ y \in 0 .. B - 1 /\ t[l] = Word(x + y)
      BY <1>3 DEF Plus
    <3> HIDE DEF x, y, t
    <3>2. x + y \in 0 .. Width - 1 /\ x + y \in 0 .. 2 * B - 2
      BY <1>2, <3>1
    <3>3. Word(x + y) = x + y
      BY <3>2, SmallWord
    <3> QED BY <3>1, <3>2, <3>3 DEF x, y
  <2>3. t \in [Lane -> 0 .. 2 * B - 2]
    <3>1. t = [l \in Lane |-> t[l]]
      BY DEF Plus
    <3> HIDE DEF t
    <3> QED BY <2>2, <3>1
  <2>4. r = Rippled(t, c)
    BY DEF block_addc
  <2> HIDE DEF r, t, u, v, c
  <2>5. PICK k : Carried(k, t, r.vec, c) /\ r.out = k[L]
    <3>1. c \in {0, 1}
      BY <1>2 DEF c
    <3> QED BY <2>3, <2>4, <3>1, RippledCarries
  <2>6. Settles(r.vec, k, t) /\ k[0] = c /\ r.out \in {0, 1}
    <3>1. /\ \A l \in 0 .. L : k[l] \in {0, 1}
          /\ \A l \in Lane : r.vec[l] \in 0 .. B - 1 /\ r.vec[l] + B * k[l + 1] = t[l] + k[l]
          /\ k[0] = c
      BY <2>5 DEF Carried
    <3>2. \A l \in 0 .. L : k[l] \in Int
      BY <3>1
    <3>3. \A l \in Lane : t[l] \in Int
      BY <2>2
    <3>4. Settles(r.vec, k, t)
      BY <3>1, <3>2, <3>3 DEF Settles
    <3> QED BY <1>2, <2>5, <3>1, <3>4
  <2>7. k[0] = CarryAt(base) /\ \A l \in Lane : t[l] = Column(base + l)
    <3>1. c = CarryAt(vi * L)
      BY <1>2, <2>1 DEF BlockCarry, c
    <3> QED BY <1>3, <2>1, <2>2, <2>6, <3>1
  <2>8. Resolved(Stored(rp, vi, r.vec, L), (vi + 1) * L) /\ k[L] = CarryAt((vi + 1) * L)
    <3>1. Resolved(rp, vi * L) /\ vi \in Nat /\ vi < an /\ prog \in {"addc", "subb"} /\ BlockShape
      BY <1>1, <1>2
    <3>2. Settles(r.vec, k, t) /\ k[0] = CarryAt(vi * L) /\ \A l \in Lane : t[l] = Column(vi * L + l)
      BY <2>6, <2>7
    <3> QED BY <3>1, <3>2, BlockLeaves
  <2>9. chain'.cin = r.out
    BY <2>1 DEF NoCarry
  <2>10. DOMAIN rp' = Limbs
    BY <2>1 DEF Stored
  <2>11. Resolved(rp', vi' * L) /\ (IF prog = "addc" THEN chain'.cin ELSE 0 - chain'.cin) = CarryAt(vi' * L)
    BY <1>1, <2>1, <2>5, <2>8, <2>9
  <2>12. vi' \in Nat /\ vi' <= an /\ (done' => vi' = an) /\ chain'.cin \in {0, 1}
    BY <1>4, <2>6, <2>9
  <2> QED BY <1>1, <2>10, <2>11, <2>12, BlockReached
<1>6. CASE SubBlock
  <2> DEFINE r == block_subb(u, v, c)  s == [l \in Lane |-> u[l] - v[l]]
  <2>1. prog = "subb" /\ rp' = Stored(rp, vi, r.vec, L) /\ chain' = [NoCarry EXCEPT !.cin = r.out]
    BY <1>6 DEF SubBlock
  <2>2. \E k : Borrowed(k, s, r.vec, c) /\ r.out = k[L]
    <3>1. c \in {0, 1} /\ \A l \in Lane : u[l] \in 0 .. B - 1 /\ v[l] \in 0 .. B - 1
      BY <1>2, <1>3
    <3> DEFINE w == s
    <3>2. w = [l \in Lane |-> u[l] - v[l]]
      OBVIOUS
    <3> HIDE DEF u, v, c, w
    <3>3. \E k : Borrowed(k, w, r.vec, c) /\ r.out = k[L]
      BY <3>1, <3>2, BlockBorrows
    <3> QED BY <3>3 DEF w
  <2>3. PICK k : Borrowed(k, s, r.vec, c) /\ r.out = k[L]
    BY <2>2
  <2> DEFINE e == [l \in 0 .. L |-> 0 - k[l]]
  <2>4. /\ \A l \in 0 .. L : k[l] \in {0, 1}
        /\ \A l \in Lane : r.vec[l] \in 0 .. B - 1 /\ r.vec[l] - B * k[l + 1] = s[l] - k[l]
        /\ k[0] = c
    BY <2>3 DEF Borrowed
  <2>5. ASSUME NEW l \in Lane PROVE s[l] \in Int /\ s[l] = Column(base + l)
    <3> DEFINE x == u[l]  y == v[l]
    <3>1. x \in 0 .. B - 1 /\ y \in 0 .. B - 1 /\ Column(base + l) = x - y /\ s[l] = x - y
      BY <1>3, <2>1
    <3> HIDE DEF x, y, s
    <3> QED BY <1>2, <3>1
  <2> HIDE DEF r, s, u, v, c
  <2>6. Settles(r.vec, e, s) /\ e[0] = 0 - c /\ e[L] = 0 - k[L] /\ r.out \in {0, 1}
    <3>1. e[0] = 0 - k[0] /\ e[L] = 0 - k[L]
      BY <1>2
    <3>2. \A l \in 0 .. L : e[l] \in Int
      BY <2>4
    <3>3. ASSUME NEW l \in Lane PROVE r.vec[l] + B * e[l + 1] = s[l] + e[l]
      <4> DEFINE p == k[l]  q == k[l + 1]  d == r.vec[l]  x == s[l]
      <4>1. l \in 0 .. L /\ l + 1 \in 0 .. L
        BY <1>2
      <4>2. e[l] = 0 - p /\ e[l + 1] = 0 - q /\ p \in {0, 1} /\ q \in {0, 1} /\ d \in 0 .. B - 1 /\ d - B * q = x - p /\ x \in Int
        BY <2>4, <2>5, <4>1
      <4> HIDE DEF p, q, d, e, x
      <4>3. B * (0 - q) = 0 - B * q /\ B * q \in Int /\ p \in Int /\ d \in Int
        BY <1>2, <4>2
      <4>4. d + B * (0 - q) = x + (0 - p)
        BY <4>2, <4>3
      <4> QED BY <4>2, <4>4 DEF d, x
    <3> HIDE DEF e
    <3>4. Settles(r.vec, e, s)
      BY <2>4, <2>5, <3>2, <3>3 DEF Settles
    <3> QED BY <1>2, <2>3, <2>4, <3>1, <3>4
  <2> HIDE DEF e
  <2>7. e[0] = CarryAt(base) /\ \A l \in Lane : s[l] = Column(base + l)
    <3>1. 0 - c = CarryAt(vi * L)
      BY <1>2, <2>1 DEF BlockCarry, c
    <3> QED BY <2>5, <2>6, <3>1
  <2>8. Resolved(Stored(rp, vi, r.vec, L), (vi + 1) * L) /\ e[L] = CarryAt((vi + 1) * L)
    BY <1>1, <1>2, <2>6, <2>7, BlockLeaves
  <2>9. chain'.cin = r.out
    BY <2>1 DEF NoCarry
  <2>10. DOMAIN rp' = Limbs
    BY <2>1 DEF Stored
  <2>11. Resolved(rp', vi' * L) /\ (IF prog = "addc" THEN chain'.cin ELSE 0 - chain'.cin) = CarryAt(vi' * L)
    BY <1>1, <2>1, <2>3, <2>6, <2>8, <2>9
  <2>12. vi' \in Nat /\ vi' <= an /\ (done' => vi' = an) /\ chain'.cin \in {0, 1}
    BY <1>4, <2>6, <2>9
  <2> QED BY <1>1, <2>10, <2>11, <2>12, BlockReached
<1> QED BY <1>5, <1>6

-----------------------------------------------------------------------------
(* Products of blocks *)

LEMMA DivCanonSettled ==
  ASSUME NEW v, WordLanes(v), NEW c, PosChain(c)
  PROVE  LET r == DIV_canon(v, c)
         IN  PosChain(r.chain) /\ \E e : Settles(r.vec, e, v) /\ e[0] = c.hi + c.cin /\ e[L] = r.chain.hi + r.chain.cin
<1> DEFINE r == DIV_canon(v, c)
           t == [l \in Lane |-> (v[l] % B) + ShiftedUp(Headroom(v), c.hi)[l]]
           up == [l \in 0 .. L |-> IF l = 0 THEN c.hi ELSE v[l - 1] \div B]
           p == Rippled(t, c.cin)
<1>1. r.vec = p.vec /\ r.chain.hi = Headroom(v)[L - 1] /\ r.chain.cin = p.out /\ r.chain.bw = 0 /\ r.chain.bin = 0
  BY DEF DIV_canon, NoCarry
<1>2. /\ L \in Nat /\ L > 0 /\ Lane = 0 .. L - 1 /\ L - 1 \in Lane /\ L \in 0 .. L /\ 0 \in 0 .. L
      /\ B \in Nat /\ B >= 2 /\ H \in Nat /\ H < B
  BY Parameters
<1>3. \A l \in Lane : v[l] % B \in 0 .. B - 1 /\ v[l] \div B \in 0 .. H - 1 /\ IsWord(v[l])
  BY WordParts DEF WordLanes
<1>4. ASSUME NEW l \in 0 .. L PROVE up[l] \in 0 .. H - 1
  <2>1. l # 0 => l - 1 \in Lane
    BY <1>2
  <2> QED BY <1>3, <2>1 DEF PosChain
<1>5. ASSUME NEW l \in Lane PROVE t[l] = (v[l] % B) + up[l] /\ t[l] \in 0 .. 2 * B - 2
  <2>1. l \in 0 .. L /\ (l # 0 => l - 1 \in Lane)
    BY <1>2
  <2>2. ShiftedUp(Headroom(v), c.hi)[l] = up[l]
    BY <2>1 DEF ShiftedUp, Headroom
  <2>3. t[l] = (v[l] % B) + up[l]
    BY <2>2
  <2>4. up[l] \in 0 .. H - 1 /\ v[l] % B \in 0 .. B - 1
    BY <1>3, <1>4, <2>1
  <2> HIDE DEF t, up
  <2> QED BY <1>2, <2>3, <2>4
<1>6. t \in [Lane -> 0 .. 2 * B - 2]
  <2>1. t = [l \in Lane |-> t[l]]
    OBVIOUS
  <2> HIDE DEF t
  <2> QED BY <1>5, <2>1
<1>7. up[0] = c.hi /\ up[L] = Headroom(v)[L - 1] /\ c.cin \in {0, 1}
  BY <1>2 DEF Headroom, PosChain
<1>8. \A l \in Lane : up[l + 1] = v[l] \div B
  <2>1. \A l \in Lane : l + 1 \in 0 .. L /\ l + 1 # 0 /\ (l + 1) - 1 = l
    BY <1>2
  <2> QED BY <2>1
<1> HIDE DEF r, t, up, p
<1>9. PICK k : Carried(k, t, p.vec, c.cin) /\ p.out = k[L]
  BY <1>6, <1>7, RippledCarries DEF p
<1>10. /\ k[0] = c.cin /\ \A l \in 0 .. L : k[l] \in {0, 1}
       /\ \A l \in Lane : p.vec[l] \in 0 .. B - 1 /\ p.vec[l] + B * k[l + 1] = t[l] + k[l]
  BY <1>9 DEF Carried
<1> DEFINE e == [l \in 0 .. L |-> up[l] + k[l]]
<1>11. e[0] = c.hi + c.cin /\ e[L] = r.chain.hi + r.chain.cin
  BY <1>1, <1>2, <1>7, <1>9, <1>10
<1>12. ASSUME NEW l \in Lane PROVE v[l] \in Int /\ r.vec[l] + B * e[l + 1] = v[l] + e[l]
  <2> DEFINE x == v[l]  q == x \div B  y == r.vec[l]  a == up[l]  u == k[l]  w == k[l + 1]
  <2>1. l \in 0 .. L /\ l + 1 \in 0 .. L
    BY <1>2
  <2>2. IsWord(x)
    BY <1>3
  <2>3. e[l] = a + u /\ e[l + 1] = q + w
    BY <1>8, <2>1
  <2>4. a \in 0 .. H - 1 /\ u \in {0, 1} /\ w \in {0, 1} /\ y \in 0 .. B - 1
    BY <1>1, <1>4, <1>10, <2>1
  <2>5. y + B * w = ((x % B) + a) + u
    BY <1>1, <1>5, <1>10
  <2> HIDE DEF x, y, a, u, w, e
  <2>6. y \in Int /\ a \in Int /\ u \in Int /\ w \in Int
    BY <2>4
  <2>7. x \in Int /\ y + B * (q + w) = x + (a + u)
    BY <2>2, <2>5, <2>6, LaneExchange
  <2> QED BY <2>3, <2>7 DEF x, y
<1>13. \A l \in 0 .. L : e[l] \in Int
  <2> SUFFICES ASSUME NEW l \in 0 .. L PROVE e[l] \in Int
    OBVIOUS
  <2> DEFINE a == up[l]  u == k[l]
  <2>1. a \in 0 .. H - 1 /\ u \in {0, 1} /\ e[l] = a + u
    BY <1>4, <1>10
  <2> HIDE DEF a, u, e
  <2> QED BY <2>1
<1> HIDE DEF e
<1>14. Settles(r.vec, e, v)
  BY <1>1, <1>10, <1>12, <1>13 DEF Settles
<1>15. PosChain(r.chain)
  <2>1. up[L] \in 0 .. H - 1 /\ k[L] \in {0, 1}
    BY <1>2, <1>4, <1>10
  <2> QED BY <1>1, <1>7, <1>9, <2>1 DEF PosChain
<1> QED BY <1>11, <1>14, <1>15 DEF r

(* canon2 resolves two blocks of columns, and sees whether a carry is left. *)
LEMMA Canon2Settled ==
  ASSUME NEW lo, NEW hi, WordLanes(lo), WordLanes(hi), PrefixRight(2 * L), CarryAt(0) = 0,
         \A l \in Lane : lo[l] = Column(l) /\ hi[l] = Column(L + l), NEW r, r = canon2(lo, hi)
  PROVE  /\ \A l \in Lane : r.lo[l] = Prefix[l] % B /\ r.hi[l] = Prefix[L + l] % B
         /\ CarryAt(2 * L) \in Nat /\ (r.over <=> CarryAt(2 * L) # 0)
<1> DEFINE first == DIV_canon(lo, NoCarry)  second == DIV_canon(hi, first.chain)
<1>1. /\ L \in Nat /\ L > 0 /\ L \in 0 .. L /\ Lane = 0 .. L - 1 /\ 2 * L \in Nat /\ 0 + L <= 2 * L /\ L + L = 2 * L
      /\ H \in Nat /\ H >= 2
  BY Parameters
<1>2. r.lo = first.vec /\ r.hi = second.vec /\ (r.over <=> second.chain.cin = 1 \/ second.chain.hi # 0)
  BY DEF canon2
<1>3. PosChain(NoCarry) /\ NoCarry.hi + NoCarry.cin = 0
  BY <1>1 DEF PosChain, NoCarry
<1>4. PosChain(first.chain) /\ \E e : Settles(first.vec, e, lo) /\ e[0] = 0 /\ e[L] = first.chain.hi + first.chain.cin
  <2>1. PosChain(first.chain) /\ \E e : /\ Settles(first.vec, e, lo) /\ e[0] = NoCarry.hi + NoCarry.cin
                                        /\ e[L] = first.chain.hi + first.chain.cin
    BY <1>3, DivCanonSettled
  <2> QED BY <1>3, <2>1
<1> HIDE DEF first
<1>5. PosChain(second.chain) /\ \E e : /\ Settles(second.vec, e, hi) /\ e[0] = first.chain.hi + first.chain.cin
                                       /\ e[L] = second.chain.hi + second.chain.cin
  BY <1>4, DivCanonSettled
<1> HIDE DEF second
<1>6. PICK e : Settles(first.vec, e, lo) /\ e[0] = 0 /\ e[L] = first.chain.hi + first.chain.cin
  BY <1>4
<1>7. e[L] = CarryAt(0 + L) /\ \A l \in 0 .. L - 1 : first.vec[l] = Prefix[0 + l] % B
  <2>1. \A l \in 0 .. L - 1 : lo[l] = Column(0 + l)
    <3>1. \A l \in 0 .. L - 1 : 0 + l = l /\ l \in Lane
      BY <1>1
    <3> QED BY <3>1
  <2>2. Settles(first.vec, e, lo) /\ e[0] = CarryAt(0) /\ 0 \in Nat /\ 2 * L \in Nat /\ 0 + L <= 2 * L /\ L \in 0 .. L
    BY <1>1, <1>6
  <2> QED BY <2>1, <2>2, ColumnsSettle
<1>8. PICK g : Settles(second.vec, g, hi) /\ g[0] = e[L] /\ g[L] = second.chain.hi + second.chain.cin
  BY <1>5, <1>6
<1>9. g[L] = CarryAt(L + L) /\ \A l \in 0 .. L - 1 : second.vec[l] = Prefix[L + l] % B
  <2>1. \A l \in 0 .. L - 1 : hi[l] = Column(L + l)
    BY <1>1
  <2>2. 0 + L = L
    BY <1>1
  <2>3. Settles(second.vec, g, hi) /\ g[0] = CarryAt(L) /\ L \in Nat /\ 2 * L \in Nat /\ L + L <= 2 * L /\ L \in 0 .. L
    BY <1>1, <1>7, <1>8, <2>2
  <2> QED BY <2>1, <2>3, ColumnsSettle
<1>10. \A l \in Lane : r.lo[l] = Prefix[l] % B /\ r.hi[l] = Prefix[L + l] % B
  <2> SUFFICES ASSUME NEW l \in Lane PROVE r.lo[l] = Prefix[l] % B /\ r.hi[l] = Prefix[L + l] % B
    OBVIOUS
  <2>1. 0 + l = l /\ l \in 0 .. L - 1
    BY <1>1
  <2> QED BY <1>2, <1>7, <1>9, <2>1
<1>11. CarryAt(2 * L) \in Nat /\ (r.over <=> CarryAt(2 * L) # 0)
  <2> DEFINE a == second.chain.hi  b == second.chain.cin
  <2>1. a \in 0 .. H - 1 /\ b \in {0, 1} /\ CarryAt(2 * L) = a + b /\ (r.over <=> b = 1 \/ a # 0)
    BY <1>1, <1>2, <1>5, <1>8, <1>9 DEF PosChain
  <2> HIDE DEF a, b
  <2> QED BY <1>1, <2>1
<1> QED BY <1>10, <1>11

-----------------------------------------------------------------------------
(* The number columns stand for *)

Moved(v, y) == [t \in Nat |-> v[t - y]]
Row(u, v, y) == [t \in Nat |-> Partial(u, v, t, y)]

(* Moving an operand up by y digits. *)
LEMMA MovedNumber ==
  ASSUME NEW v, IsOperand(v), NEW n \in Nat, EndsBelow(v, n), NEW y \in 0 .. n
  PROVE  /\ \A t \in Nat : Moved(v, y)[t] \in Int
         /\ Number(v, n, B) \in Int /\ Number(Moved(v, y), 2 * n, B) = Power(B, y) * Number(v, n, B)
<1> DEFINE w == Moved(v, y)  m == 2 * n - y
<1>1. /\ B \in Nat /\ B > 0 /\ m \in Nat /\ y \in Nat /\ y + m = 2 * n /\ n \in 0 .. m /\ 0 \in 0 .. y /\ 2 * n \in Nat
  BY Parameters
<1>2. ASSUME NEW t \in Nat PROVE w[t] \in 0 .. B - 1 /\ w[t] = v[t - y] /\ (t < y => w[t] = 0)
  <2>1. t - y \in Int
    BY <1>1
  <2>2. w[t] = v[t - y]
    BY DEF Moved
  <2>3. t < y => t - y < 0
    BY <1>1
  <2> HIDE DEF w
  <2> QED BY <2>1, <2>2, <2>3 DEF IsOperand
<1>3. \A j \in 0 .. m - 1 : v[j] \in Int /\ (j \in n .. m - 1 => v[j] = 0)
  <2> SUFFICES ASSUME NEW j \in 0 .. m - 1 PROVE v[j] \in Int /\ (j \in n .. m - 1 => v[j] = 0)
    OBVIOUS
  <2>1. j \in Int
    OBVIOUS
  <2>2. v[j] \in 0 .. B - 1
    BY <2>1 DEF IsOperand
  <2> QED BY <2>1, <2>2 DEF EndsBelow
<1>4. Number(v, m, B) = Number(v, n, B) /\ Number(v, n, B) \in Int
  <2>1. (\A j \in 0 .. m - 1 : v[j] \in Int) /\ \A j \in n .. m - 1 : v[j] = 0
    <3>1. \A j \in n .. m - 1 : j \in 0 .. m - 1
      BY <1>1
    <3> HIDE DEF m
    <3> QED BY <1>3, <3>1
  <2> HIDE DEF m
  <2> QED BY <1>1, <2>1, NumberPadded
<1>5. \A t \in Nat : w[t] \in Int
  BY <1>2
<1> HIDE DEF w, m
<1>6. Number(w, y, B) = 0
  <2>1. (\A j \in 0 .. y - 1 : w[j] \in Int) /\ \A j \in 0 .. y - 1 : w[j] = 0
    <3>1. \A j \in 0 .. y - 1 : j \in Nat /\ j < y
      BY <1>1
    <3> QED BY <1>2, <1>5, <3>1
  <2>2. Number(w, y, B) = Number(w, 0, B)
    BY <1>1, <2>1, NumberPadded
  <2>3. Number(w, 0, B) = 0
    BY <1>1, <2>1, NumberSteps
  <2> QED BY <2>2, <2>3
<1>7. Number(w, y + m, B) = Number(w, y, B) + Power(B, y) * Number(v, m, B)
  <2>1. IntLimbs(w, y + m)
    <3>1. \A j \in 0 .. (y + m) - 1 : j \in Nat
      BY <1>1
    <3> QED BY <1>5, <3>1 DEF IntLimbs
  <2>2. Piece(v, w, y, m)
    <3> SUFFICES ASSUME NEW l \in 0 .. m - 1 PROVE v[l] = w[y + l]
      BY DEF Piece
    <3>1. y + l \in Nat /\ (y + l) - y = l
      BY <1>1
    <3> QED BY <1>2, <3>1
  <2> QED BY <1>1, <2>1, <2>2, NumberSplit
<1>8. Power(B, y) \in Nat
  BY <1>1, PowerPositive
<1>9. Number(w, 2 * n, B) = Power(B, y) * Number(v, n, B)
  <2> DEFINE p == Power(B, y) * Number(v, n, B)
  <2>1. p \in Int /\ Number(w, y + m, B) = 0 + p
    BY <1>4, <1>6, <1>7, <1>8
  <2> HIDE DEF p
  <2>2. Number(w, 2 * n, B) = p
    BY <1>1, <2>1
  <2> QED BY <2>2 DEF p
<1> QED BY <1>4, <1>5, <1>9 DEF w

(* One digit of u over all of v: low halves, and high halves one place up. *)
LEMMA RowNumber ==
  ASSUME NEW u, NEW v, IsOperand(u), IsOperand(v), NEW n \in Nat, EndsBelow(v, n), NEW y \in 0 .. n - 1
  PROVE  Number(Row(u, v, y), 2 * n, B) = u[y] * (Power(B, y) * Number(v, n, B))
<1> DEFINE w == Moved(v, y)  m == 2 * n  x == u[y]  f == Row(u, v, y)  g == [t \in Nat |-> x * w[t]]
           c == [t \in Nat |-> HighOf(x, v[(t - 1) - y])]
<1>1. B \in Nat /\ B > 0 /\ B >= 2 /\ m \in Nat /\ y \in Nat /\ y \in Int /\ y \in 0 .. n /\ 0 \in Nat
  BY Parameters
<1>2. x \in 0 .. B - 1 /\ x \in Int
  <2>1. x \in 0 .. B - 1
    BY <1>1 DEF IsOperand
  <2> QED BY <2>1
<1>3. (\A t \in Nat : w[t] \in Int) /\ Number(w, m, B) = Power(B, y) * Number(v, n, B)
  BY <1>1, MovedNumber
<1>4. ASSUME NEW t \in Nat
      PROVE  /\ c[t] \in Int /\ f[t] \in Int /\ g[t] \in Int
             /\ f[t] + B * c[t + 1] = g[t] + c[t]
  <2> DEFINE q == v[t - y]  r == v[(t - 1) - y]
  <2>1. t - y \in Int /\ (t - 1) - y \in Int /\ (t + 1) - 1 = t /\ t + 1 \in Nat
    BY <1>1
  <2>2. q \in 0 .. B - 1 /\ r \in 0 .. B - 1
    BY <2>1 DEF IsOperand
  <2>3. f[t] = LowOf(x, q) + HighOf(x, r)
    BY DEF Row, Partial
  <2>4. c[t] = HighOf(x, r) /\ c[t + 1] = HighOf(x, q)
    BY <2>1
  <2>5. g[t] = x * q
    BY DEF Moved
  <2> HIDE DEF q, r, f, c, g, x
  <2>6. LowOf(x, q) \in 0 .. B - 1 /\ HighOf(x, q) \in 0 .. B - 1 /\ HighOf(x, r) \in 0 .. B - 1
    BY <1>2, <2>2, HalfDigits
  <2>7. x * q = B * HighOf(x, q) + LowOf(x, q) /\ x * q \in Int
    <3> DEFINE p == x * q
    <3>1. p \in Int /\ B \in Nat \ {0}
      BY <1>1, <1>2, <2>2
    <3>2. p = (p \div B) * B + (p % B) /\ p \div B \in Int
      <4> HIDE DEF p
      <4> QED BY <3>1, DivMod
    <3>3. (p \div B) * B = B * (p \div B)
      <4> HIDE DEF p
      <4> QED BY <1>1, <3>2
    <3> QED BY <3>1, <3>2, <3>3 DEF HighOf, LowOf
  <2>8. B * HighOf(x, q) \in Int
    BY <1>1, <2>6
  <2> QED BY <2>3, <2>4, <2>5, <2>6, <2>7, <2>8
<1>5. c[0] = 0 /\ c[m] = 0
  <2> DEFINE i == (0 - 1) - y  j == (m - 1) - y
  <2>1. i \in Int /\ i < 0 /\ j \in Int /\ j >= n
    BY <1>1
  <2>2. c[0] = HighOf(x, v[i]) /\ c[m] = HighOf(x, v[j])
    BY <1>1
  <2> HIDE DEF i, j, c, x
  <2>3. v[i] = 0 /\ v[j] = 0
    BY <2>1 DEF IsOperand, EndsBelow
  <2>4. HighOf(x, 0) = 0
    <3>1. 0 \in 0 .. B - 1
      BY <1>1
    <3> QED BY <1>2, <3>1, HalfDigits
  <2> QED BY <2>2, <2>3, <2>4
<1>6. \A t \in Nat : g[t] = x * w[t]
  OBVIOUS
<1>7. x - 1 \in Int
  BY <1>2
<1> HIDE DEF c, f, g, w, x, m
<1>8. Number(f, m, B) + Power(B, m) * c[m] = Number(g, m, B) + c[0]
  <2>1. Exchanges(f, g, c, B, m)
    <3>1. (\A l \in 0 .. m - 1 : l \in Nat) /\ \A l \in 0 .. m : l \in Nat
      BY <1>1
    <3> QED BY <1>4, <3>1 DEF Exchanges
  <2> QED BY <1>1, <2>1, Telescope
<1>9. Number(g, m, B) = x * Number(w, m, B) /\ Number(g, m, B) \in Int /\ Number(f, m, B) \in Int
  <2>1. \A l \in 0 .. m - 1 : w[l] \in Int /\ g[l] = w[l] + (x - 1) * w[l] /\ g[l] \in Int /\ f[l] \in Int
    <3> SUFFICES ASSUME NEW l \in 0 .. m - 1
                 PROVE  w[l] \in Int /\ g[l] = w[l] + (x - 1) * w[l] /\ g[l] \in Int /\ f[l] \in Int
      OBVIOUS
    <3> DEFINE z == w[l]
    <3>1. l \in Nat /\ z \in Int /\ g[l] = x * z /\ g[l] \in Int /\ f[l] \in Int
      BY <1>1, <1>3, <1>4, <1>6
    <3> HIDE DEF z
    <3>2. x * z = z + (x - 1) * z
      BY <1>2, <3>1
    <3> QED BY <3>1, <3>2 DEF z
  <2>2. Number(g, m, B) = Number(w, m, B) + (x - 1) * Number(w, m, B)
    BY <1>1, <1>7, <2>1, NumberLinear
  <2>3. Number(w, m, B) \in Int /\ Number(g, m, B) \in Int /\ Number(f, m, B) \in Int
    <3>1. m \in 0 .. m
      BY <1>1
    <3> QED BY <1>1, <2>1, <3>1, NumberSteps
  <2> DEFINE a == Number(w, m, B)
  <2>4. a \in Int /\ Number(g, m, B) = a + (x - 1) * a
    BY <2>2, <2>3
  <2> HIDE DEF a
  <2>5. a + (x - 1) * a = x * a
    BY <1>2, <2>4
  <2> QED BY <2>3, <2>4, <2>5 DEF a
<1>10. Power(B, m) * c[m] = 0
  <2>1. Power(B, m) \in Nat
    BY <1>1, PowerPositive
  <2> QED BY <1>5, <2>1
<1>11. Number(f, m, B) = x * Number(w, m, B)
  BY <1>5, <1>8, <1>9, <1>10
<1> QED BY <1>3, <1>11 DEF f, m, x

FirstRows(u, v, k) == [t \in Nat |-> Convolved(u, v, k, t)]

(* Columns of a product are the product. *)
LEMMA ColumnsNumber ==
  ASSUME NEW u, NEW v, IsOperand(u), IsOperand(v), NEW n \in Nat, EndsBelow(u, n), EndsBelow(v, n),
         NEW f, \A t \in Nat : f[t] = Conv(u, v, t)
  PROVE  /\ \A t \in Nat : f[t] \in Int
         /\ Number(u, n, B) \in Int /\ Number(v, n, B) \in Int
         /\ Number(f, 2 * n, B) = Number(u, n, B) * Number(v, n, B)
<1> DEFINE m == 2 * n  V == Number(v, n, B)  U(k) == Number(u, k, B)  S(k) == Number(FirstRows(u, v, k), m, B)
<1>1. B \in Nat /\ B > 0 /\ m \in Nat /\ n \in 0 .. n /\ 0 \in 0 .. n
  BY Parameters
<1>2. V \in Int
  BY <1>1, MovedNumber
<1>3. (\A k \in 0 .. n : U(k) \in Int) /\ U(0) = 0 /\ \A k \in 0 .. n - 1 : U(k + 1) = U(k) + Power(B, k) * u[k] /\ u[k] \in Int
  <2>1. \A k \in 0 .. n - 1 : u[k] \in Int
    <3>1. \A k \in 0 .. n - 1 : k \in Int
      OBVIOUS
    <3>2. \A k \in 0 .. n - 1 : u[k] \in 0 .. B - 1
      BY <3>1 DEF IsOperand
    <3> QED BY <3>2
  <2> QED BY <1>1, <2>1, NumberSteps
<1>4. ASSUME NEW k \in Nat, NEW t \in Nat
      PROVE  /\ FirstRows(u, v, k)[t] \in Int /\ FirstRows(u, v, k)[t] = Convolved(u, v, k, t)
             /\ FirstRows(u, v, k + 1)[t] = FirstRows(u, v, k)[t] + Partial(u, v, t, k)
             /\ Partial(u, v, t, k) \in Int
  <2> DEFINE g == [y \in 0 .. k - 1 |-> Partial(u, v, t, y)]  h == [y \in 0 .. (k + 1) - 1 |-> Partial(u, v, t, y)]
  <2>1. k + 1 \in Nat /\ k \in 0 .. k + 1 /\ k \in 0 .. (k + 1) - 1 /\ k \in Int /\ t \in Int
    OBVIOUS
  <2>2. IntLimbs(g, k) /\ IntLimbs(h, k + 1)
    BY <2>1, PartialsOf
  <2>3. \A y \in 0 .. k - 1 : h[y] = g[y]
    OBVIOUS
  <2>4. h[k] = Partial(u, v, t, k) /\ Partial(u, v, t, k) \in Int
    BY <2>1, PartialsOf
  <2>5. /\ FirstRows(u, v, k)[t] = Convolved(u, v, k, t) /\ FirstRows(u, v, k + 1)[t] = Convolved(u, v, k + 1, t)
    BY DEF FirstRows
  <2>6. Convolved(u, v, k, t) = Total(g, k) /\ Convolved(u, v, k + 1, t) = Total(h, k + 1)
    BY DEF Convolved
  <2> HIDE DEF g, h
  <2>7. Total(h, k + 1) = Total(h, k) + h[k] /\ Total(h, k) \in Int
    BY <2>1, <2>2, TotalSteps
  <2>8. Total(h, k) = Total(g, k)
    BY <2>2, <2>3, TotalOfSame
  <2> QED BY <2>4, <2>5, <2>6, <2>7, <2>8
<1> DEFINE T == {k \in Nat : k <= n => S(k) = U(k) * V}
<1>5. 0 \in T
  <2>1. \A t \in Nat : FirstRows(u, v, 0)[t] = 0
    <3> SUFFICES ASSUME NEW t \in Nat PROVE FirstRows(u, v, 0)[t] = 0
      OBVIOUS
    <3> DEFINE g == [y \in 0 .. 0 - 1 |-> Partial(u, v, t, y)]
    <3>1. IntLimbs(g, 0)
      BY DEF IntLimbs
    <3>2. FirstRows(u, v, 0)[t] = Total(g, 0)
      BY DEF FirstRows, Convolved
    <3> HIDE DEF g
    <3> QED BY <3>1, <3>2, TotalSteps
  <2> DEFINE z == FirstRows(u, v, 0)
  <2>2. \A j \in 0 .. m - 1 : z[j] \in Int /\ z[j] = 0
    <3>1. \A j \in 0 .. m - 1 : j \in Nat
      BY <1>1
    <3> QED BY <2>1, <3>1
  <2> HIDE DEF z, m
  <2>3. Number(z, m, B) = Number(z, 0, B) /\ Number(z, 0, B) = 0
    <3>1. 0 \in 0 .. m
      BY <1>1
    <3>2. Number(z, m, B) = Number(z, 0, B)
      BY <1>1, <2>2, <3>1, NumberPadded
    <3>3. Number(z, 0, B) = 0
      BY <1>1, <2>2, NumberSteps
    <3> QED BY <3>2, <3>3
  <2>4. U(0) * V = 0
    <3> HIDE DEF V, U
    <3> QED BY <1>2, <1>3
  <2> QED BY <2>3, <2>4 DEF z
<1>6. ASSUME NEW k \in Nat, k \in T PROVE k + 1 \in T
  <2> SUFFICES ASSUME k + 1 <= n PROVE S(k + 1) = U(k + 1) * V
    OBVIOUS
  <2>1. k \in 0 .. n - 1 /\ k <= n /\ k \in 0 .. n
    OBVIOUS
  <2>2. S(k) = U(k) * V
    BY <1>6, <2>1
  <2> DEFINE p == Power(B, k)  R == Number(Row(u, v, k), m, B)
  <2>3. R = u[k] * (p * V) /\ p \in Nat
    BY <1>1, <2>1, RowNumber, PowerPositive
  <2>4. S(k + 1) = S(k) + 1 * R
    <3> DEFINE f0 == FirstRows(u, v, k)  f1 == FirstRows(u, v, k + 1)  g == Row(u, v, k)
    <3>1. \A l \in 0 .. m - 1 : f0[l] \in Int /\ g[l] \in Int /\ f1[l] = f0[l] + 1 * g[l]
      <4> SUFFICES ASSUME NEW l \in 0 .. m - 1 PROVE f0[l] \in Int /\ g[l] \in Int /\ f1[l] = f0[l] + 1 * g[l]
        OBVIOUS
      <4>1. l \in Nat
        BY <1>1
      <4>2. g[l] = Partial(u, v, l, k)
        BY <4>1 DEF Row
      <4> HIDE DEF g
      <4> QED BY <1>4, <4>1, <4>2
    <3>2. m \in Nat /\ 1 \in Int
      BY <1>1
    <3> HIDE DEF f0, f1, g, m
    <3>3. Number(f1, m, B) = Number(f0, m, B) + 1 * Number(g, m, B)
      BY <1>1, <3>1, <3>2, NumberLinear
    <3> QED BY <3>3 DEF f0, f1, g
  <2> DEFINE a == U(k)  x == u[k]  b == U(k + 1)
  <2>5. a \in Int /\ x \in Int /\ b = a + p * x
    BY <1>3, <2>1
  <2> HIDE DEF a, x, p, R, V, b
  <2>6. (a + p * x) * V = a * V + 1 * (x * (p * V)) /\ a * V \in Int
    <3>1. (a + p * x) * V = a * V + (p * x) * V /\ (p * x) * V = x * (p * V) /\ x * (p * V) \in Int /\ a * V \in Int
      BY <1>2, <2>3, <2>5
    <3> QED BY <3>1
  <2>7. S(k) = a * V
    BY <2>2 DEF a, V
  <2>8. S(k + 1) = b * V
    <3> HIDE DEF S
    <3> QED BY <2>3, <2>4, <2>5, <2>6, <2>7 DEF x
  <2> QED BY <2>8 DEF b, V
<1>7. S(n) = U(n) * V
  <2>1. T \subseteq Nat
    OBVIOUS
  <2>2. n \in T
    <3> HIDE DEF T
    <3> QED BY <1>5, <1>6, <2>1, ByInduction
  <2> QED BY <2>2
<1>8. \A t \in Nat : f[t] \in Int /\ f[t] = FirstRows(u, v, n)[t]
  <2> SUFFICES ASSUME NEW t \in Nat PROVE f[t] \in Int /\ f[t] = FirstRows(u, v, n)[t]
    OBVIOUS
  <2>1. Convolved(u, v, n, t) = Conv(u, v, t)
    BY ConvolvedIs
  <2> QED BY <1>4, <2>1
<1>9. Number(f, m, B) = S(n)
  <2> DEFINE g == FirstRows(u, v, n)
  <2>1. \A l \in 0 .. m - 1 : f[l] \in Int /\ f[l] = g[l]
    <3>1. \A j \in 0 .. m - 1 : j \in Nat
      BY <1>1
    <3> QED BY <1>8, <3>1
  <2> HIDE DEF g, m
  <2>2. Number(f, m, B) = Number(g, m, B)
    BY <1>1, <2>1, NumberOfSame
  <2> QED BY <2>2 DEF g
<1> QED BY <1>1, <1>2, <1>3, <1>7, <1>8, <1>9

-----------------------------------------------------------------------------
(* The quotient's estimate: u2 * v, and <u2, u1> added to it *)

EstimateShape == an = L /\ bn = L /\ 2 * L < H /\ IsDigits(ap, 0, 3 * L) /\ IsDigits(bp, 0, L)
Upper == [x \in Int |-> ap[2 * L + x]]
DigitsU == Cut(Upper, 0, L)
OneTable == [k \in Register |-> [s \in Int |-> Share(DigitsU, DigitsB, 0, k, s)]]

LEMMA EstimateSizes ==
  /\ L \in Nat /\ L > 0 /\ Lane = 0 .. L - 1 /\ Register = 0 .. L /\ L + 1 \in Nat /\ 2 * L \in Nat /\ L + L = 2 * L
  /\ B \in Nat /\ B > 0 /\ B >= 2 /\ H \in Nat /\ Width = B * H /\ Width \in Nat
BY VectorSizes, Parameters

LEMMA EstimateOperands ==
  ASSUME EstimateShape
  PROVE  /\ IsOperand(DigitsU) /\ EndsBelow(DigitsU, L) /\ IsOperand(DigitsB) /\ EndsBelow(DigitsB, L)
         /\ \A t \in Nat : /\ ProductColumn(t, 2 * L) = Conv(DigitsU, DigitsB, t)
                           /\ ProductColumn(t, 2 * L) \in 0 .. Width - 1
                           /\ ProductColumn(t, 2 * L) + (B - 1) < Width
<1>1. IsDigits(Upper, 0, L) /\ IsDigits(bp, 0, L) /\ an = L /\ bn = L /\ 2 * L < H
  <2> SUFFICES ASSUME NEW j \in 0 .. L - 1 PROVE Upper[j] \in 0 .. B - 1
    BY DEF IsDigits, EstimateShape
  <2>1. j \in Int /\ 2 * L + j \in 0 .. 3 * L - 1
    BY EstimateSizes
  <2>2. ap[2 * L + j] \in 0 .. B - 1
    BY <2>1 DEF EstimateShape, IsDigits
  <2> QED BY <2>1, <2>2 DEF Upper
<1>2. IsOperand(DigitsU) /\ EndsBelow(DigitsU, L) /\ IsOperand(DigitsB) /\ EndsBelow(DigitsB, L)
  <2>1. 0 \in Nat /\ L \in Nat
    BY EstimateSizes
  <2> QED BY <1>1, <2>1, CutIs DEF DigitsU, DigitsB
<1>3. ASSUME NEW t \in Nat
      PROVE  /\ ProductColumn(t, 2 * L) = Conv(DigitsU, DigitsB, t)
             /\ ProductColumn(t, 2 * L) \in 0 .. Width - 1
             /\ ProductColumn(t, 2 * L) + (B - 1) < Width
  <2> DEFINE from == 2 * L
  <2>1. from \in Nat /\ an \in Nat /\ bn \in Nat /\ IsDigits(Upper, 0, an) /\ IsDigits(bp, 0, bn)
    BY <1>1, EstimateSizes
  <2>2. \A x \in 0 .. an - 1 : Upper[x] = ap[from + x]
    BY <2>1 DEF Upper
  <2>3. Cut(Upper, 0, an) = DigitsU
    BY <1>1 DEF DigitsU
  <2> HIDE DEF from
  <2>4. ProductColumn(t, from) = Conv(DigitsU, DigitsB, t)
    <3>1. ProductColumn(t, from) = Conv(Cut(Upper, 0, an), DigitsB, t)
      BY <2>1, <2>2, ColumnIs
    <3> QED BY <2>3, <3>1
  <2>5. Conv(DigitsU, DigitsB, t) \in 0 .. L * (2 * (B - 1))
    BY <1>2, EstimateSizes, ConvBounds
  <2>6. L * (2 * (B - 1)) + (B - 1) < Width /\ L * (2 * (B - 1)) \in Nat
    <3>1. L * (2 * (B - 1)) + (B - 1) = (2 * L + 1) * (B - 1)
      <4>1. L * (2 * (B - 1)) = 2 * (L * (B - 1)) /\ (2 * L + 1) * (B - 1) = 2 * (L * (B - 1)) + (B - 1)
        BY EstimateSizes
      <4> QED BY <4>1
    <3>2. (2 * L + 1) * (B - 1) <= H * (B - 1)
      <4>1. 2 * L + 1 \in Int /\ H \in Int /\ B - 1 \in Nat /\ 2 * L + 1 <= H
        BY <1>1, EstimateSizes
      <4> QED BY <4>1, MulLe
    <3>3. H * (B - 1) = Width - H /\ H > 0
      <4>1. H * (B - 1) = H * B - H /\ H * B = B * H
        BY EstimateSizes
      <4>2. H > 0
        BY Parameters
      <4> QED BY <4>1, <4>2, EstimateSizes
    <3>4. L * (2 * (B - 1)) \in Nat /\ (2 * L + 1) * (B - 1) \in Int
      BY EstimateSizes
    <3> QED BY <3>1, <3>2, <3>3, <3>4, EstimateSizes
  <2> DEFINE c == ProductColumn(t, from)  d == L * (2 * (B - 1))
  <2>7. c \in 0 .. d /\ d \in Nat /\ d + (B - 1) < Width
    BY <2>4, <2>5, <2>6
  <2> HIDE DEF c, d
  <2>8. c \in 0 .. Width - 1 /\ c + (B - 1) < Width
    BY <2>7, EstimateSizes
  <2> QED BY <2>4, <2>8 DEF c, from
<1> QED BY <1>2, <1>3

LEMMA EstimatePrefix ==
  ASSUME prog = "estimate", EstimateShape
  PROVE  /\ Count = 2 * L /\ PrefixRight(2 * L) /\ CarryAt(0) = 0
         /\ \A t \in 0 .. 2 * L - 1 : /\ ap[t + L] \in 0 .. B - 1 /\ Column(t) = ProductColumn(t, 2 * L) + ap[t + L]
                                      /\ Column(t) \in 0 .. Width - 1
<1>1. Count = 2 * L
  BY DEF Count
<1>2. ASSUME NEW t \in 0 .. 2 * L - 1
      PROVE  /\ ap[t + L] \in 0 .. B - 1 /\ Column(t) = ProductColumn(t, 2 * L) + ap[t + L] /\ Column(t) \in 0 .. Width - 1
  <2>1. t + L \in 0 .. 3 * L - 1 /\ t \in Nat
    BY EstimateSizes
  <2>2. ap[t + L] \in 0 .. B - 1
    BY <2>1 DEF EstimateShape, IsDigits
  <2>3. Column(t) = ProductColumn(t, 2 * L) + ap[t + L]
    BY DEF Column
  <2>4. ProductColumn(t, 2 * L) \in 0 .. Width - 1 /\ ProductColumn(t, 2 * L) + (B - 1) < Width
    BY <2>1, EstimateOperands
  <2> DEFINE a == ap[t + L]  c == ProductColumn(t, 2 * L)
  <2> HIDE DEF a, c
  <2>5. a + c \in 0 .. Width - 1 /\ c + a = a + c
    <3>1. a \in 0 .. B - 1 /\ c \in 0 .. Width - 1 /\ c + (B - 1) < Width
      BY <2>2, <2>4 DEF a, c
    <3> QED BY <3>1, EstimateSizes
  <2>6. Column(t) \in 0 .. Width - 1
    BY <2>3, <2>5 DEF a, c
  <2> QED BY <2>2, <2>3, <2>6
<1>3. PrefixRight(2 * L) /\ CarryAt(0) = 0
  <2>1. Count \in Nat /\ \A t \in 0 .. Count - 1 : Column(t) \in Int
    <3>1. Count \in Nat
      BY <1>1, EstimateSizes
    <3>2. ASSUME NEW t \in 0 .. Count - 1 PROVE Column(t) \in Int
      <4>1. Column(t) \in 0 .. Width - 1
        BY <1>1, <1>2
      <4> QED BY <4>1
    <3> QED BY <3>1, <3>2
  <2> QED BY <1>1, <2>1, PrefixIs
<1> QED BY <1>1, <1>2, <1>3

LEMMA OneTableRight ==
  ASSUME EstimateShape
  PROVE  /\ IsTable(OneTable)
         /\ \A t \in Nat : \A f : ColumnOf(f, OneTable, t) => Total(f, L + 1) = ProductColumn(t, 2 * L)
         /\ Holds(NoTerms, OneTable, -L) /\ Holds(NoTerms, OneTable, L)
         /\ Holds(Terms(Vec(bp, 0), ap, 2, L - 1), OneTable, 0)
<1>1. /\ IsOperand(DigitsU) /\ EndsBelow(DigitsU, L) /\ IsOperand(DigitsB) /\ EndsBelow(DigitsB, L)
      /\ L \in Nat /\ L > 0 /\ Lane = 0 .. L - 1 /\ Register = 0 .. L
  BY EstimateOperands, EstimateSizes
<1>2. ASSUME NEW k \in Register, NEW s \in Int
      PROVE  /\ OneTable[k][s] = Share(DigitsU, DigitsB, 0, k, s) /\ OneTable[k][s] \in Nat
             /\ s >= L \/ s < 0 => OneTable[k][s] = 0
  <2>1. k \in Int /\ 0 \in Int
    BY <1>1
  <2>2. /\ Share(DigitsU, DigitsB, 0, k, s) \in Nat
        /\ DigitsB[s] = 0 => Share(DigitsU, DigitsB, 0, k, s) = 0
    BY <1>1, <2>1, ShareBounds
  <2>3. s >= L \/ s < 0 => DigitsB[s] = 0
    BY <1>1 DEF EndsBelow, IsOperand
  <2> QED BY <2>2, <2>3 DEF OneTable
<1>3. IsTable(OneTable)
  BY <1>2 DEF IsTable
<1>4. ASSUME NEW t \in Nat, NEW f, ColumnOf(f, OneTable, t) PROVE Total(f, L + 1) = ProductColumn(t, 2 * L)
  <2> DEFINE g == [y \in 0 .. L - 1 |-> Partial(DigitsU, DigitsB, t, y)]
  <2>1. t \in Int /\ 0 \in Int
    OBVIOUS
  <2>2. Shares(f, DigitsU, DigitsB, 0, t)
    <3> SUFFICES ASSUME NEW k \in 0 .. L PROVE f[k] = Share(DigitsU, DigitsB, 0, k, (t - 0) - k)
      BY DEF Shares
    <3>1. k \in Register /\ k \in Int /\ t - k \in Int /\ (t - 0) - k = t - k
      BY <1>1
    <3>2. f[k] = OneTable[k][t - k]
      BY <1>4, <3>1 DEF ColumnOf
    <3> QED BY <1>2, <3>1, <3>2
  <2>3. Partials(g, DigitsU, DigitsB, 0, t)
    BY DEF Partials
  <2>4. Convolved(DigitsU, DigitsB, L, t) = Total(g, L)
    BY DEF Convolved
  <2> HIDE DEF g
  <2>5. Total(f, L + 1) = Total(g, L)
    BY <1>1, <2>1, <2>2, <2>3, ShareColumn
  <2>6. Convolved(DigitsU, DigitsB, L, t) = Conv(DigitsU, DigitsB, t)
    BY <1>1, ConvolvedIs
  <2> QED BY <2>4, <2>5, <2>6, EstimateOperands
<1>5. ASSUME NEW base \in Int, base >= L \/ base <= -L PROVE Holds(NoTerms, OneTable, base)
  <2> SUFFICES ASSUME NEW k \in Register, NEW l \in Lane PROVE NoTerms[k][l] = Word(OneTable[k][base + l])
    BY DEF Holds
  <2>1. base + l \in Int /\ (base + l >= L \/ base + l < 0)
    BY <1>1, <1>5
  <2>2. OneTable[k][base + l] = 0
    BY <1>2, <2>1
  <2> QED BY <2>2, ZeroWord DEF NoTerms, Zero
<1>6. Holds(NoTerms, OneTable, -L) /\ Holds(NoTerms, OneTable, L)
  <2>1. -L \in Int /\ -L <= -L /\ L \in Int /\ L >= L
    BY <1>1
  <2> QED BY <1>5, <2>1
<1>7. Holds(Terms(Vec(bp, 0), ap, 2, L - 1), OneTable, 0)
  <2> SUFFICES ASSUME NEW k \in Register, NEW l \in Lane
               PROVE  Terms(Vec(bp, 0), ap, 2, L - 1)[k][l] = Word(OneTable[k][0 + l])
    BY DEF Holds
  <2> DEFINE s == 0  upto == L - 1  vec == Vec(bp, 0)
  <2>1. VectorFrom(vec, DigitsB, s)
    <3> SUFFICES ASSUME NEW j \in Lane PROVE Vec(bp, 0)[j] = DigitsB[0 + j]
      BY DEF VectorFrom
    <3>1. 0 + j = j /\ j \in Int /\ 0 <= j /\ j < bn /\ 0 * L + j = j
      BY <1>1 DEF EstimateShape
    <3> QED BY <3>1 DEF Vec, DigitsB, Cut
  <2>2. SplatFrom(ap, 2, upto, DigitsU, s)
    <3> SUFFICES ASSUME NEW j \in 0 .. L - 1 PROVE DigitsU[0 + j] = IF j <= L - 1 THEN ap[2 * L + j] ELSE 0
      BY DEF SplatFrom
    <3>1. 0 + j = j /\ j \in Int /\ 0 <= j /\ j < L /\ j <= L - 1
      BY <1>1
    <3> QED BY <3>1 DEF DigitsU, Cut, Upper
  <2>3. upto \in -1 .. L - 1 /\ s \in Int /\ s + l = l /\ 0 + l = l /\ l \in Int
    BY <1>1
  <2> DEFINE q == 2
  <2>4. SplatFrom(ap, q, upto, DigitsU, s) /\ q \in Nat
    BY <2>2
  <2> HIDE DEF s, upto, vec, q
  <2>5. Terms(vec, ap, q, upto)[k][l] = Word(Share(DigitsU, DigitsB, s, k, s + l))
    <3>1. IsOperand(DigitsU) /\ IsOperand(DigitsB) /\ upto \in -1 .. L - 1 /\ s \in Int
      BY <1>1, <2>3
    <3> QED BY <2>1, <2>4, <3>1, TermsLane
  <2>6. OneTable[k][0 + l] = Share(DigitsU, DigitsB, s, k, s + l)
    BY <1>2, <2>3 DEF s
  <2> QED BY <2>5, <2>6 DEF upto, vec, q
<1> QED BY <1>3, <1>4, <1>6, <1>7

LEMMA EstimateLeaves ==
  ASSUME EstimateShape, NEW base \in Nat, NEW regs, NEW below, Holds(regs, OneTable, base),
         Holds(below, OneTable, base - L), NEW l \in Lane
  PROVE  Leaving(regs, below)[l] = ProductColumn(base + l, 2 * L)
<1>1. base + l \in Nat /\ base \in Int
  BY EstimateSizes
<1> DEFINE f == [k \in Register |-> OneTable[k][(base + l) - k]]
<1>2. ColumnOf(f, OneTable, base + l)
  BY DEF ColumnOf
<1> HIDE DEF f
<1>3. Leaving(regs, below)[l] = Word(Total(f, L + 1))
  BY <1>1, <1>2, OneTableRight, LeavingLane
<1>4. Total(f, L + 1) = ProductColumn(base + l, 2 * L)
  BY <1>1, <1>2, OneTableRight
<1>5. ProductColumn(base + l, 2 * L) \in 0 .. Width - 1
  BY <1>1, EstimateOperands
<1> QED BY <1>3, <1>4, <1>5, SmallWord

(* u2 * v + <u2, u1> carries out of two blocks at most once. *)
LEMMA EstimateCarry ==
  ASSUME prog = "estimate", EstimateShape, CarryAt(2 * L) \in Int
  PROVE  CarryAt(2 * L) <= 1
<1> DEFINE n == 2 * L  X == Power(B, L)  U == Number(DigitsU, L, B)  V == Number(DigitsB, L, B)
           w == [t \in Nat |-> ap[t + L]]  col == [t \in Nat |-> ProductColumn(t, 2 * L)]
           sum == [t \in Nat |-> Column(t)]  d == [t \in Nat |-> Prefix[t] % B]  c == [t \in Nat |-> CarryAt(t)]
           W == Number(w, n, B)
<1>1. L \in Nat /\ n \in Nat /\ n = L + L /\ n \in 0 .. n /\ B \in Nat /\ B > 0 /\ B \in Nat \ {0} /\ 0 \in 0 .. n /\ n = 2 * L
  BY EstimateSizes
<1>2. /\ PrefixRight(n) /\ CarryAt(0) = 0
      /\ \A t \in 0 .. n - 1 : /\ w[t] \in 0 .. B - 1 /\ sum[t] = col[t] + 1 * w[t] /\ col[t] \in Int /\ w[t] \in Int /\ sum[t] \in Int
  <2> SUFFICES ASSUME NEW t \in 0 .. n - 1
               PROVE  w[t] \in 0 .. B - 1 /\ sum[t] = col[t] + 1 * w[t] /\ col[t] \in Int /\ w[t] \in Int /\ sum[t] \in Int
    BY EstimatePrefix
  <2> DEFINE x == ap[t + L]  y == ProductColumn(t, 2 * L)  z == Column(t)
  <2>1. t \in Nat
    BY <1>1
  <2>2. w[t] = x /\ col[t] = y /\ sum[t] = z
    BY <2>1
  <2>3. x \in 0 .. B - 1 /\ z = y + x
    BY EstimatePrefix
  <2>4. y \in 0 .. Width - 1
    BY <2>1, EstimateOperands
  <2> HIDE DEF x, y, z, w, col, sum
  <2> QED BY <2>2, <2>3, <2>4
<1>3. Number(col, n, B) = U * V
  <2>1. \A t \in Nat : col[t] = Conv(DigitsU, DigitsB, t)
    BY EstimateOperands
  <2> HIDE DEF col
  <2> QED BY <1>1, <2>1, EstimateOperands, ColumnsNumber
<1>4. U \in 0 .. X - 1 /\ V \in 0 .. X - 1 /\ X \in Nat /\ X > 0
  <2>1. \A j \in 0 .. L - 1 : DigitsU[j] \in 0 .. B - 1 /\ DigitsB[j] \in 0 .. B - 1
    <3>1. \A j \in 0 .. L - 1 : j \in Int
      OBVIOUS
    <3> QED BY <3>1, EstimateOperands DEF IsOperand
  <2> QED BY <1>1, <2>1, NumberBounds, PowerPositive
<1>5. W \in 0 .. X * X - 1 /\ Power(B, n) = X * X
  <2>1. Power(B, n) = X * X
    BY <1>1, PowerSum
  <2> HIDE DEF w
  <2>2. W \in 0 .. Power(B, n) - 1
    BY <1>1, <1>2, NumberBounds
  <2> HIDE DEF W
  <2> QED BY <2>1, <2>2
<1>6. Number(sum, n, B) = U * V + W
  <2>1. \A t \in 0 .. n - 1 : col[t] \in Int /\ w[t] \in Int /\ sum[t] = col[t] + 1 * w[t]
    BY <1>2
  <2> HIDE DEF sum, col, w, U, V, n
  <2>2. Number(sum, n, B) = Number(col, n, B) + 1 * Number(w, n, B)
    BY <1>1, <2>1, NumberLinear
  <2>3. W \in Int
    BY <1>4, <1>5
  <2> QED BY <1>3, <2>2, <2>3
<1>7. \A t \in 0 .. n : c[t] \in Int
  <2> SUFFICES ASSUME NEW t \in 0 .. n PROVE c[t] \in Int
    OBVIOUS
  <2>1. c[t] = CarryAt(t)
    BY <1>1
  <2>2. t \in 0 .. n - 1 \/ t = n
    BY <1>1
  <2> HIDE DEF c
  <2>3. CASE t \in 0 .. n - 1
    BY <1>2, <2>1, <2>3 DEF PrefixRight
  <2>4. CASE t = n
    BY <2>1, <2>4
  <2> QED BY <2>2, <2>3, <2>4
<1>8. ASSUME NEW t \in 0 .. n - 1 PROVE d[t] \in 0 .. B - 1 /\ d[t] + B * c[t + 1] = sum[t] + c[t]
  <2> DEFINE z == Prefix[t]
  <2>1. t \in Nat /\ t + 1 \in Nat /\ (t + 1) - 1 = t
    BY <1>1
  <2>2. d[t] = z % B /\ c[t] = CarryAt(t) /\ sum[t] = Column(t) /\ c[t + 1] = z \div B
    BY <2>1 DEF CarryAt
  <2>3. z \in Int /\ z = CarryAt(t) + Column(t) /\ CarryAt(t) \in Int /\ Column(t) \in Int
    BY <1>2 DEF PrefixRight
  <2> HIDE DEF z, d, c, sum
  <2>4. z = (z \div B) * B + (z % B) /\ z % B \in 0 .. B - 1 /\ z \div B \in Int
    BY <1>1, <2>3, DivMod
  <2>5. (z \div B) * B = B * (z \div B) /\ B * (z \div B) \in Int
    BY <1>1, <2>4
  <2> QED BY <2>2, <2>3, <2>4, <2>5
<1> HIDE DEF d, sum, c
<1>9. Number(d, n, B) + Power(B, n) * c[n] = Number(sum, n, B) + c[0]
  <2>1. Exchanges(d, sum, c, B, n)
    <3>1. \A t \in 0 .. n - 1 : d[t] \in Int /\ sum[t] \in Int
      <4>1. \A t \in 0 .. n - 1 : d[t] \in Int
        BY <1>8
      <4> QED BY <1>2, <4>1
    <3> HIDE DEF n
    <3> QED BY <1>7, <1>8, <3>1 DEF Exchanges
  <2> HIDE DEF n
  <2> QED BY <1>1, <2>1, Telescope
<1>10. Number(d, n, B) \in Nat
  <2>1. \A l \in 0 .. n - 1 : d[l] \in 0 .. B - 1
    BY <1>8
  <2>2. Number(d, n, B) \in 0 .. Power(B, n) - 1
    <3> HIDE DEF n
    <3> QED BY <1>1, <2>1, NumberBounds
  <2> QED BY <2>2
<1>11. c[0] = 0 /\ c[n] = CarryAt(2 * L) /\ c[n] \in Int
  BY <1>1, <1>2 DEF c
<1> HIDE DEF U, V, W, X, n
<1>12. U * V <= X * X /\ U * V \in Int /\ X * X \in Nat
  <2>1. U * V <= X * V
    BY <1>4, MulLe
  <2>2. V * X <= X * X
    BY <1>4, MulLe
  <2>3. X * V = V * X /\ U * V \in Int /\ X * V \in Int /\ X * X \in Nat
    BY <1>4
  <2> QED BY <2>1, <2>2, <2>3
<1> DEFINE q == c[n]  p == X * X
<1>13. p * q < 2 * p /\ p \in Nat \ {0} /\ q \in Int
  <2>1. Number(d, n, B) + p * q = (U * V + W) + 0
    BY <1>5, <1>6, <1>9, <1>11
  <2>2. p > 0 /\ p \in Nat /\ q \in Int
    BY <1>4, <1>11
  <2>3. U * V <= p /\ U * V \in Int /\ W < p /\ W \in Int
    BY <1>5, <1>12
  <2> HIDE DEF p, q
  <2>4. p * q \in Int
    BY <2>2
  <2> QED BY <1>10, <2>1, <2>2, <2>3, <2>4
<1>14. q < 2
  <2> HIDE DEF p, q
  <2>1. q * p < 2 * p
    BY <1>13
  <2> QED BY <1>13, <2>1, CancelLt
<1> QED BY <1>11, <1>14

LEMMA TwoStored ==
  ASSUME NEW mem, NEW lo, NEW hi, \A l \in Lane : lo[l] = Prefix[l] % B /\ hi[l] = Prefix[L + l] % B
  PROVE  Resolved(Stored(Stored(mem, 0, lo, L), 1, hi, L), 2 * L)
<1>1. /\ L \in Nat /\ L \in 0 .. L /\ Lane = 0 .. L - 1 /\ Limbs = 0 .. Room - 1 /\ Room \in Nat
      /\ 0 * L = 0 /\ 0 * L + L = 1 * L /\ 1 * L = L /\ 1 * L + L = 2 * L
  BY VectorSizes
<1>2. Resolved(mem, 0 * L)
  <2>1. \A j \in Limbs : ~(j < 0)
    BY <1>1
  <2> QED BY <1>1, <2>1 DEF Resolved
<1>3. (\A l \in 0 .. L - 1 : lo[l] = Prefix[0 * L + l] % B) /\ \A l \in 0 .. L - 1 : hi[l] = Prefix[1 * L + l] % B
  <2>1. \A l \in 0 .. L - 1 : 0 * L + l = l /\ 1 * L + l = L + l /\ l \in Lane
    BY <1>1
  <2> QED BY <2>1
<1> DEFINE first == Stored(mem, 0, lo, L)
<1>4. Resolved(first, 1 * L)
  <2>1. Resolved(Stored(mem, 0, lo, L), 0 * L + L)
    BY <1>1, <1>2, <1>3, ResolvedStored
  <2> QED BY <1>1, <2>1
<1> HIDE DEF first
<1>5. Resolved(Stored(first, 1, hi, L), 1 * L + L)
  <2>1. 1 \in Nat /\ L \in 0 .. L
    BY <1>1
  <2> QED BY <1>3, <1>4, <2>1, ResolvedStored
<1> QED BY <1>1, <1>5 DEF first

SingleShape == IF prog = "estimate" THEN EstimateShape ELSE StreamShape /\ an = 2 * L
SingleState ==
  /\ DOMAIN rp = Limbs
  /\ IF done THEN Resolved(rp, 2 * L) /\ (prog = "estimate" => chain.cin = CarryAt(2 * L)) ELSE kept = NoTerms
SingleInv == prog \in {"estimate", "backmul"} => SingleShape /\ SingleState

LEMMA SingleReached ==
  ASSUME prog \in {"estimate", "backmul"}, SingleShape, UNCHANGED <<prog, an, bn, ap, bp>>, done', DOMAIN rp' = Limbs,
         Resolved(rp', 2 * L), prog = "estimate" => chain'.cin = CarryAt(2 * L)
  PROVE  SingleInv'
<1>1. Prefix' = Prefix /\ \A t : CarryAt(t)' = CarryAt(t)
  BY PrefixKept
<1>2. SingleShape'
  BY DEF SingleShape, EstimateShape, StreamShape, ProductShape, IsDigits
<1>3. Limbs' = Limbs /\ L' = L
  BY DEF Limbs
<1>4. Resolved(rp, 2 * L)'
  BY <1>1, <1>3 DEF Resolved
<1>5. prog' = "estimate" => chain'.cin = CarryAt(2 * L)'
  BY <1>1 DEF CarryAt
<1> QED BY <1>2, <1>3, <1>4, <1>5 DEF SingleInv, SingleState

LEMMA EstimateSteps ==
  ASSUME SingleInv, Estimate
  PROVE  SingleInv'
<1> DEFINE regs == Terms(Vec(bp, 0), ap, 2, L - 1)  lo == Plus(Harvest(regs), Vec(ap, 1))
           hi == Plus(Flush(regs), Vec(ap, 2))  q == canon2(lo, hi)
<1>1. /\ prog = "estimate" /\ ~done /\ done' /\ UNCHANGED <<prog, an, bn, ap, bp>>
      /\ rp' = Stored(Stored(rp, 0, q.lo, L), 1, q.hi, L)
      /\ chain' = [NoCarry EXCEPT !.cin = IF q.over THEN 1 ELSE 0]
  BY DEF Estimate
<1>2. EstimateShape /\ SingleShape /\ kept = NoTerms
  BY <1>1 DEF SingleInv, SingleShape, SingleState
<1>3. /\ L \in Nat /\ L > 0 /\ Lane = 0 .. L - 1 /\ L - L = 0 /\ 0 - L = -L /\ L + L = 2 * L /\ 0 \in Nat
      /\ 1 * L = L
  BY EstimateSizes
<1>4. \A l \in Lane : Leaving(regs, NoTerms)[l] = ProductColumn(0 + l, 2 * L) /\ Leaving(NoTerms, regs)[l] = ProductColumn(L + l, 2 * L)
  <2> HIDE DEF regs
  <2>1. Holds(regs, OneTable, 0) /\ Holds(NoTerms, OneTable, 0 - L) /\ Holds(NoTerms, OneTable, L) /\ Holds(regs, OneTable, L - L)
    BY <1>2, <1>3, OneTableRight DEF regs
  <2>2. \A l \in Lane : Leaving(regs, NoTerms)[l] = ProductColumn(0 + l, 2 * L)
    BY <1>2, <1>3, <2>1, EstimateLeaves
  <2>3. \A l \in Lane : Leaving(NoTerms, regs)[l] = ProductColumn(L + l, 2 * L)
    BY <1>2, <1>3, <2>1, EstimateLeaves
  <2> QED BY <2>2, <2>3
<1>5. ASSUME NEW l \in Lane PROVE lo[l] = Column(l) /\ hi[l] = Column(L + l) /\ IsWord(lo[l]) /\ IsWord(hi[l])
  <2>1. l \in 0 .. 2 * L - 1 /\ L + l \in 0 .. 2 * L - 1 /\ 0 + l = l /\ 1 * L + l = l + L /\ 2 * L + l = (L + l) + L
    BY <1>3
  <2>2. lo[l] = Word(ProductColumn(l, 2 * L) + ap[l + L]) /\ hi[l] = Word(ProductColumn(L + l, 2 * L) + ap[(L + l) + L])
    <3>1. /\ lo[l] = Word(Leaving(regs, kept)[l] + ap[1 * L + l])
          /\ hi[l] = Word(Leaving(NoTerms, regs)[l] + ap[2 * L + l])
      BY DEF Plus, Harvest, Flush, Vec
    <3> HIDE DEF lo, hi, regs
    <3> QED BY <1>2, <1>4, <2>1, <3>1
  <2> HIDE DEF lo, hi
  <2>3. Column(l) = ProductColumn(l, 2 * L) + ap[l + L] /\ Column(l) \in 0 .. Width - 1
    BY <1>1, <1>2, <2>1, EstimatePrefix
  <2> DEFINE m == L + l
  <2>4. m \in 0 .. 2 * L - 1
    BY <2>1
  <2> HIDE DEF m
  <2>5. Column(m) = ProductColumn(m, 2 * L) + ap[m + L] /\ Column(m) \in 0 .. Width - 1
    BY <1>1, <1>2, <2>4, EstimatePrefix
  <2>6. Word(Column(l)) = Column(l) /\ Word(Column(m)) = Column(m)
    BY <2>3, <2>5, SmallWord
  <2>7. lo[l] = Column(l) /\ hi[l] = Column(m)
    BY <2>2, <2>3, <2>5, <2>6 DEF m
  <2> QED BY <2>3, <2>5, <2>7, FullWord DEF IsWord, m
<1>6. lo = [l \in Lane |-> lo[l]] /\ hi = [l \in Lane |-> hi[l]]
  BY DEF Plus
<1> HIDE DEF lo, hi, q
<1>7. WordLanes(lo) /\ WordLanes(hi)
  BY <1>5, <1>6 DEF WordLanes
<1>8. /\ \A l \in Lane : q.lo[l] = Prefix[l] % B /\ q.hi[l] = Prefix[L + l] % B
      /\ CarryAt(2 * L) \in Nat /\ (q.over <=> CarryAt(2 * L) # 0)
  <2>1. PrefixRight(2 * L) /\ CarryAt(0) = 0 /\ \A l \in Lane : lo[l] = Column(l) /\ hi[l] = Column(L + l)
    BY <1>1, <1>2, <1>5, EstimatePrefix
  <2>2. q = canon2(lo, hi)
    BY DEF q
  <2> QED BY <1>7, <2>1, <2>2, Canon2Settled
<1>9. chain'.cin = CarryAt(2 * L)
  <2>1. CarryAt(2 * L) <= 1
    <3>1. CarryAt(2 * L) \in Int
      BY <1>8
    <3> QED BY <1>1, <1>2, <3>1, EstimateCarry
  <2>2. chain'.cin = IF q.over THEN 1 ELSE 0
    BY <1>1 DEF NoCarry
  <2>3. CarryAt(2 * L) = 0 \/ CarryAt(2 * L) = 1
    BY <1>8, <2>1
  <2> QED BY <1>8, <2>2, <2>3
<1>10. Resolved(rp', 2 * L) /\ DOMAIN rp' = Limbs
  <2>1. DOMAIN rp' = Limbs
    BY <1>1 DEF Stored
  <2> QED BY <1>1, <1>8, <2>1, TwoStored
<1> QED BY <1>1, <1>2, <1>9, <1>10, SingleReached

LEMMA BackmulPrefix ==
  ASSUME prog = "backmul", StreamShape
  PROVE  /\ Count = 2 * L /\ PrefixRight(2 * L) /\ CarryAt(0) = 0
         /\ \A t \in Nat : Column(t) = ProductColumn(t, 0) /\ Column(t) \in 0 .. Width - 1
<1>1. Count = 2 * L /\ Count \in Nat
  BY EstimateSizes DEF Count
<1>2. \A t \in Nat : Column(t) = ProductColumn(t, 0) /\ Column(t) \in 0 .. Width - 1
  <2> SUFFICES ASSUME NEW t \in Nat PROVE Column(t) = ProductColumn(t, 0) /\ Column(t) \in 0 .. Width - 1
    OBVIOUS
  <2>1. Column(t) = ProductColumn(t, 0)
    BY DEF Column
  <2>2. ProductColumn(t, 0) \in 0 .. Width - 1
    BY ProductOperands DEF StreamShape
  <2> QED BY <2>1, <2>2
<1>3. \A t \in 0 .. Count - 1 : Column(t) \in Int
  <2> SUFFICES ASSUME NEW t \in 0 .. Count - 1 PROVE Column(t) \in Int
    OBVIOUS
  <2>1. t \in Nat
    BY <1>1
  <2>2. Column(t) \in 0 .. Width - 1
    BY <1>2, <2>1
  <2> QED BY <2>2
<1> QED BY <1>1, <1>2, <1>3, PrefixIs

LEMMA BackmulSteps ==
  ASSUME SingleInv, Backmul
  PROVE  SingleInv'
<1> DEFINE first == Terms(Vec(bp, 0), ap, 0, L - 1)  second == Terms(Vec(bp, 0), ap, 1, L - 1)
           lo == Leaving(first, NoTerms)  hi == Leaving(second, first)  q == canon2(lo, hi)
<1>1. prog = "backmul" /\ ~done /\ done' /\ UNCHANGED <<prog, an, bn, ap, bp>> /\ kept = NoTerms /\ SingleShape
  BY DEF Backmul, SingleInv, SingleState
<1>2. rp' = Stored(Stored(rp, 0, q.lo, L), 1, q.hi, L)
  BY <1>1 DEF Backmul, Harvest
<1>3. StreamShape /\ an = 2 * L
  BY <1>1 DEF SingleShape
<1>4. /\ L \in Nat /\ L > 0 /\ Lane = 0 .. L - 1 /\ L + L = 2 * L /\ L + 1 \in Nat
  BY EstimateSizes
<1>5. Turns = 2
  <2>1. 2 * L = 2 * L + 0 /\ 0 \in 0 .. L - 1 /\ L \in Nat \ {0} /\ 2 * L \in Int /\ 2 \in Int
    BY <1>4
  <2>2. (2 * L) \div L = 2
    BY <2>1, DivModUnique
  <2> QED BY <1>3, <2>2 DEF Turns
<1>6. Upto(0) = L - 1 /\ Upto(1) = L - 1
  BY <1>5 DEF Upto
<1>7. Holds(NoTerms, StreamTable, 0 - L) /\ Holds(first, StreamTable, 0) /\ Holds(second, StreamTable, L) /\ Holds(first, StreamTable, L - L)
  <2>1. 0 \in Int /\ 1 \in Int /\ -1 \in Int /\ 0 \in 0 .. Turns /\ 1 \in 0 .. Turns /\ -1 \notin 0 .. Turns
    BY <1>5
  <2>2. (-1) * L = 0 - L /\ 0 * L = 0 /\ 1 * L = L /\ L - L = 0
    BY <1>4
  <2>3. Holds(NoTerms, StreamTable, (-1) * L)
    BY <1>3, <2>1, StreamRegisters
  <2>4. Holds(Terms(Vec(bp, 0), ap, 0, Upto(0)), StreamTable, 0 * L)
    BY <1>3, <2>1, StreamRegisters
  <2>5. Holds(Terms(Vec(bp, 0), ap, 1, Upto(1)), StreamTable, 1 * L)
    BY <1>3, <2>1, StreamRegisters
  <2> QED BY <1>6, <2>2, <2>3, <2>4, <2>5
<1>8. lo = [l \in Lane |-> lo[l]] /\ hi = [l \in Lane |-> hi[l]]
  BY <1>4, SumIsFunction DEF Leaving
<1>9. ASSUME NEW l \in Lane PROVE lo[l] = Column(l) /\ hi[l] = Column(L + l) /\ IsWord(lo[l]) /\ IsWord(hi[l])
  <2> HIDE DEF first, second
  <2>1. 0 \in Nat /\ L \in Nat /\ l \in Nat /\ L + l \in Nat /\ 0 + l = l
    BY <1>4
  <2>2. ProductShape /\ RightTable(StreamTable)
    BY <1>3, StreamTableRight DEF StreamShape
  <2>3. lo[l] = ProductColumn(0 + l, 0)
    BY <1>7, <2>1, <2>2, VectorLeaves
  <2>4. hi[l] = ProductColumn(L + l, 0)
    BY <1>7, <2>1, <2>2, VectorLeaves
  <2> HIDE DEF lo, hi
  <2>5. /\ Column(l) = ProductColumn(l, 0) /\ Column(l) \in 0 .. Width - 1
        /\ Column(L + l) = ProductColumn(L + l, 0) /\ Column(L + l) \in 0 .. Width - 1
    BY <1>1, <1>3, <2>1, BackmulPrefix
  <2> QED BY <2>1, <2>3, <2>4, <2>5, FullWord DEF IsWord
<1> HIDE DEF lo, hi, q
<1>10. WordLanes(lo) /\ WordLanes(hi)
  BY <1>8, <1>9 DEF WordLanes
<1>11. \A l \in Lane : q.lo[l] = Prefix[l] % B /\ q.hi[l] = Prefix[L + l] % B
  <2>1. PrefixRight(2 * L) /\ CarryAt(0) = 0 /\ \A l \in Lane : lo[l] = Column(l) /\ hi[l] = Column(L + l)
    BY <1>1, <1>3, <1>9, BackmulPrefix
  <2>2. q = canon2(lo, hi)
    BY DEF q
  <2> QED BY <1>10, <2>1, <2>2, Canon2Settled
<1>12. Resolved(rp', 2 * L) /\ DOMAIN rp' = Limbs
  <2>1. DOMAIN rp' = Limbs
    BY <1>2 DEF Stored
  <2> QED BY <1>2, <1>11, <2>1, TwoStored
<1> QED BY <1>1, <1>12, SingleReached

LEMMA InitSingle == ProductInputs /\ DigitInputs /\ Init => SingleInv
<1> SUFFICES ASSUME ProductInputs, DigitInputs, Init, prog \in {"estimate", "backmul"} PROVE SingleShape /\ SingleState
  BY DEF SingleInv
<1>1. PICK shape \in Shapes[prog] : an = shape[1] /\ bn = shape[2]
  BY DEF Init
<1>2. prog \in Products \cap DOMAIN Shapes /\ ap \in Patterns[prog] /\ bp \in Patterns[prog]
  BY DEF Init, Products
<1> DEFINE m == OperandLimbs(prog, shape)
<1>3. /\ \A digits \in Patterns[prog] : \A j \in 0 .. m - 1 : digits[j] \in 0 .. B - 1
      /\ prog = "estimate" => shape = <<L, L>> /\ 2 * L < H
      /\ prog = "backmul" => shape = <<2 * L, L>> /\ 2 * shape[2] <= H
  BY <1>1, <1>2 DEF DigitInputs
<1>4. SingleShape
  <2>1. CASE prog = "estimate"
    <3>1. m = 3 * L
      BY <2>1 DEF OperandLimbs
    <3>2. an = L /\ bn = L /\ 2 * L < H
      BY <1>1, <1>3, <2>1
    <3> HIDE DEF m
    <3>3. IsDigits(ap, 0, 3 * L) /\ IsDigits(bp, 0, L)
      <4>1. \A j \in 0 .. L - 1 : j \in 0 .. 3 * L - 1
        BY EstimateSizes
      <4> QED BY <1>2, <1>3, <3>1, <4>1 DEF IsDigits
    <3> QED BY <2>1, <3>2, <3>3 DEF SingleShape, EstimateShape
  <2>2. CASE prog = "backmul"
    <3>1. m = 2 * L
      BY <2>2 DEF OperandLimbs
    <3>2. an = 2 * L /\ bn = L /\ 2 * bn <= H
      BY <1>1, <1>3, <2>2
    <3> HIDE DEF m
    <3>3. IsDigits(ap, 0, an) /\ IsDigits(bp, 0, bn)
      <4>1. \A j \in 0 .. L - 1 : j \in 0 .. 2 * L - 1
        BY EstimateSizes
      <4> QED BY <1>2, <1>3, <3>1, <3>2, <4>1 DEF IsDigits
    <3>4. an \in Nat \ {0} /\ bn \in Nat \ {0}
      BY <3>2, EstimateSizes
    <3> QED BY <2>2, <3>2, <3>3, <3>4 DEF SingleShape, StreamShape, ProductShape
  <2> QED BY <2>1, <2>2
<1>5. SingleState
  BY DEF Init, SingleState
<1> QED BY <1>4, <1>5

-----------------------------------------------------------------------------
(* Comparing two blocks *)

(* The top digit in which two operands differ decides their order. *)
Ordered(f, g, n) == \A t \in 0 .. n - 1 : f[t] >= g[t] \/ \E k \in t + 1 .. n - 1 : f[k] > g[k]
LEMMA TopOrders ==
  ASSUME NEW n \in Nat, NEW f, NEW g, \A j \in 0 .. n - 1 : f[j] \in Int /\ g[j] \in Int,
         NEW m \in 0 .. n - 1, f[m] # g[m], \A j \in m + 1 .. n - 1 : f[j] = g[j]
  PROVE  Ordered(f, g, n) <=> f[m] > g[m]
<1>1. ASSUME f[m] > g[m], NEW t \in 0 .. n - 1 PROVE f[t] >= g[t] \/ \E k \in t + 1 .. n - 1 : f[k] > g[k]
  <2>1. CASE t < m
    <3>1. m \in t + 1 .. n - 1
      BY <2>1
    <3> QED BY <1>1, <3>1
  <2>2. CASE t = m
    BY <1>1, <2>2
  <2>3. CASE t > m
    <3>1. t \in m + 1 .. n - 1
      BY <2>3
    <3> QED BY <3>1
  <2> QED BY <2>1, <2>2, <2>3
<1>2. ASSUME Ordered(f, g, n), ~(f[m] > g[m]) PROVE FALSE
  <2>1. ~(f[m] >= g[m])
    BY <1>2
  <2>2. PICK k \in m + 1 .. n - 1 : f[k] > g[k]
    BY <1>2, <2>1 DEF Ordered
  <2>3. f[k] = g[k] /\ k \in 0 .. n - 1
    OBVIOUS
  <2> QED BY <2>2, <2>3
<1> QED BY <1>1, <1>2 DEF Ordered

LEMMA GreaterTop ==
  ASSUME NEW u, NEW v, \A l \in Lane : u[l] \in Int /\ v[l] \in Int,
         NEW m \in Lane, u[m] # v[m], \A l \in Lane : l > m => u[l] = v[l]
  PROVE  block_ge(u, v) <=> u[m] > v[m]
<1> DEFINE ne == {l \in Lane : u[l] # v[l]}  lt == {l \in Lane : u[l] < v[l]}  ge == ne \ lt
<1>1. block_ge(u, v) <=> ne = {} \/ MaskInt(ge) > MaskInt(lt)
  BY DEF block_ge
<1>2. m \in ne /\ (\A l \in Lane : l > m => l \notin ge /\ l \notin lt)
  <2> SUFFICES ASSUME NEW l \in Lane, l > m PROVE l \notin ge /\ l \notin lt
    OBVIOUS
  <2>1. u[l] = v[l] /\ u[l] \in Int
    OBVIOUS
  <2> QED BY <2>1
<1>3. (u[m] > v[m] => m \in ge /\ m \notin lt) /\ (~(u[m] > v[m]) => m \in lt /\ m \notin ge)
  <2>1. u[m] \in Int /\ v[m] \in Int
    OBVIOUS
  <2> QED BY <2>1
<1>4. ne # {}
  BY <1>2
<1> HIDE DEF ne, lt, ge
<1>5. CASE u[m] > v[m]
  <2>1. MaskInt(lt) \in Int /\ MaskInt(ge) \in Int /\ MaskInt(lt) < MaskInt(ge)
    BY <1>2, <1>3, <1>5, MasksCompare
  <2> QED BY <1>1, <1>5, <2>1
<1>6. CASE ~(u[m] > v[m])
  <2>1. MaskInt(lt) \in Int /\ MaskInt(ge) \in Int /\ MaskInt(ge) < MaskInt(lt)
    BY <1>2, <1>3, <1>6, MasksCompare
  <2> QED BY <1>1, <1>4, <1>6, <2>1
<1> QED BY <1>5, <1>6

(* The top lane in which two vectors differ. *)
LEMMA TopLane ==
  ASSUME NEW u, NEW v, \E l \in Lane : u[l] # v[l]
  PROVE  \E m \in Lane : u[m] # v[m] /\ \A l \in Lane : l > m => u[l] = v[l]
<1> DEFINE ne == {l \in Lane : u[l] # v[l]}
<1>1. PICK m \in ne : \A k \in ne : k <= m
  BY LargestLane
<1>2. ASSUME NEW l \in Lane, l > m PROVE u[l] = v[l]
  <2>1. l \in Int /\ m \in Int
    BY Parameters
  <2> QED BY <1>1, <1>2, <2>1
<1> QED BY <1>1, <1>2

(* Two blocks above one another, compared lane by lane, are compared as the   *)
(* numbers they hold.                                                         *)
LEMMA BlocksOrdered ==
  ASSUME NEW f, NEW g, IsDigits(f, 0, 2 * L), IsDigits(g, 0, 2 * L)
  PROVE  block_ge2(Vec(f, 1), Vec(f, 0), Vec(g, 1), Vec(g, 0)) <=> Ordered(f, g, 2 * L)
<1> DEFINE u1 == Vec(f, 1)  u0 == Vec(f, 0)  v1 == Vec(g, 1)  v0 == Vec(g, 0)  n == 2 * L
<1>1. n \in Nat /\ L \in Nat /\ Lane = 0 .. L - 1 /\ n = L + L
  BY EstimateSizes
<1>2. \A j \in 0 .. n - 1 : f[j] \in Int /\ g[j] \in Int
  <2>1. B \in Int
    BY EstimateSizes
  <2> QED BY <2>1 DEF IsDigits
<1>3. /\ \A l \in Lane : u1[l] = f[L + l] /\ u0[l] = f[l] /\ v1[l] = g[L + l] /\ v0[l] = g[l]
      /\ \A l \in Lane : l \in 0 .. n - 1 /\ L + l \in 0 .. n - 1
  <2> SUFFICES ASSUME NEW l \in Lane
               PROVE  /\ u1[l] = f[L + l] /\ u0[l] = f[l] /\ v1[l] = g[L + l] /\ v0[l] = g[l]
                      /\ l \in 0 .. n - 1 /\ L + l \in 0 .. n - 1
    OBVIOUS
  <2>1. l \in Int /\ 1 * L + l = L + l /\ 0 * L + l = l /\ l \in 0 .. n - 1 /\ L + l \in 0 .. n - 1
    BY <1>1
  <2>2. u1[l] = f[1 * L + l] /\ u0[l] = f[0 * L + l] /\ v1[l] = g[1 * L + l] /\ v0[l] = g[0 * L + l]
    BY DEF Vec
  <2> QED BY <2>1, <2>2
<1>4. \A l \in Lane : u1[l] \in Int /\ v1[l] \in Int /\ u0[l] \in Int /\ v0[l] \in Int
  BY <1>2, <1>3
<1>5. (u1 # v1 <=> \E l \in Lane : u1[l] # v1[l]) /\ (u0 # v0 <=> \E l \in Lane : u0[l] # v0[l])
  BY DEF Vec
<1>6. block_ge2(u1, u0, v1, v0) <=> IF u1 # v1 THEN block_ge(u1, v1) ELSE block_ge(u0, v0)
  BY DEF block_ge2
<1> HIDE DEF u1, u0, v1, v0
<1>7. CASE u1 # v1
  <2>1. PICK m \in Lane : u1[m] # v1[m] /\ \A l \in Lane : l > m => u1[l] = v1[l]
    BY <1>5, <1>7, TopLane
  <2> DEFINE k == L + m
  <2>2. k \in 0 .. n - 1 /\ f[k] = u1[m] /\ g[k] = v1[m]
    BY <1>3
  <2>3. ASSUME NEW j \in k + 1 .. n - 1 PROVE f[j] = g[j]
    <3>1. j - L \in Lane /\ j - L > m /\ L + (j - L) = j
      BY <1>1
    <3>2. u1[j - L] = v1[j - L]
      BY <2>1, <3>1
    <3>3. u1[j - L] = f[j] /\ v1[j - L] = g[j]
      BY <1>3, <3>1
    <3> QED BY <3>2, <3>3
  <2> HIDE DEF k, n
  <2>4. Ordered(f, g, n) <=> f[k] > g[k]
    <3>1. f[k] # g[k]
      BY <2>1, <2>2
    <3> QED BY <1>1, <1>2, <2>2, <2>3, <3>1, TopOrders
  <2>5. block_ge(u1, v1) <=> u1[m] > v1[m]
    BY <1>4, <2>1, GreaterTop
  <2> QED BY <1>6, <1>7, <2>2, <2>4, <2>5 DEF n, u1, u0, v1, v0
<1>8. CASE u1 = v1 /\ u0 # v0
  <2>1. PICK m \in Lane : u0[m] # v0[m] /\ \A l \in Lane : l > m => u0[l] = v0[l]
    BY <1>5, <1>8, TopLane
  <2>2. m \in 0 .. n - 1 /\ f[m] = u0[m] /\ g[m] = v0[m]
    BY <1>3
  <2>3. ASSUME NEW j \in m + 1 .. n - 1 PROVE f[j] = g[j]
    <3>1. CASE j < L
      <4>1. j \in Lane /\ j > m
        BY <1>1, <3>1
      <4>2. u0[j] = v0[j]
        BY <2>1, <4>1
      <4> QED BY <1>3, <4>1, <4>2
    <3>2. CASE j >= L
      <4>1. j - L \in Lane /\ L + (j - L) = j
        BY <1>1, <3>2
      <4>2. u1[j - L] = f[j] /\ v1[j - L] = g[j]
        BY <1>3, <4>1
      <4> QED BY <1>8, <4>2
    <3> QED BY <1>1, <3>1, <3>2
  <2> HIDE DEF n
  <2>4. Ordered(f, g, n) <=> f[m] > g[m]
    <3>1. f[m] # g[m]
      BY <2>1, <2>2
    <3> QED BY <1>1, <1>2, <2>2, <2>3, <3>1, TopOrders
  <2>5. block_ge(u0, v0) <=> u0[m] > v0[m]
    BY <1>4, <2>1, GreaterTop
  <2> QED BY <1>6, <1>8, <2>2, <2>4, <2>5 DEF n, u1, u0, v1, v0
<1>9. CASE u1 = v1 /\ u0 = v0
  <2>1. block_ge(u0, v0)
    <3>1. {l \in Lane : u0[l] # v0[l]} = {}
      BY <1>9
    <3> QED BY <3>1 DEF block_ge
  <2>2. ASSUME NEW t \in 0 .. n - 1 PROVE f[t] = g[t]
    <3>1. CASE t < L
      <4>1. t \in Lane
        BY <1>1, <3>1
      <4> QED BY <1>3, <1>9, <4>1
    <3>2. CASE t >= L
      <4>1. t - L \in Lane /\ L + (t - L) = t
        BY <1>1, <3>2
      <4>2. u1[t - L] = f[t] /\ v1[t - L] = g[t]
        BY <1>3, <4>1
      <4> QED BY <1>9, <4>2
    <3> QED BY <1>1, <3>1, <3>2
  <2>3. Ordered(f, g, n)
    <3> SUFFICES ASSUME NEW t \in 0 .. n - 1 PROVE f[t] >= g[t]
      BY DEF Ordered
    <3> QED BY <1>2, <2>2
  <2> QED BY <1>6, <1>9, <2>1, <2>3 DEF n, u1, u0, v1, v0
<1> QED BY <1>7, <1>8, <1>9

OrderShape == IsDigits(ap, 0, 2 * L) /\ IsDigits(bp, 0, 2 * L) /\ 0 \in Limbs
OrderState ==
  /\ DOMAIN rp = Limbs
  /\ done => (rp[0] = 1 <=> Ordered(ap, bp, 2 * L))
OrderInv == prog = "order" => OrderShape /\ OrderState

LEMMA InitOrder == ProductInputs /\ DigitInputs /\ Init => OrderInv
<1> SUFFICES ASSUME ProductInputs, DigitInputs, Init, prog = "order" PROVE OrderShape /\ OrderState
  BY DEF OrderInv
<1>1. PICK shape \in Shapes["order"] : an = shape[1] /\ bn = shape[2]
  BY DEF Init
<1>2. "order" \in Products \cap DOMAIN Shapes /\ ap \in Patterns["order"] /\ bp \in Patterns["order"]
  BY DEF Init, Products
<1>3. /\ ResultLimbs("order", shape) <= Room
      /\ \A digits \in Patterns["order"] : \A j \in 0 .. OperandLimbs("order", shape) - 1 : digits[j] \in 0 .. B - 1
  BY <1>1, <1>2 DEF DigitInputs
<1>4. OperandLimbs("order", shape) = 2 * L /\ ResultLimbs("order", shape) = 1
  BY DEF OperandLimbs, ResultLimbs
<1>5. OrderShape
  <2>1. 0 \in Limbs
    <3>1. Room \in Nat /\ 1 <= Room
      BY <1>3, <1>4, RoomAssumption
    <3> QED BY <3>1 DEF Limbs
  <2> QED BY <1>2, <1>3, <1>4, <2>1 DEF OrderShape, IsDigits
<1>6. OrderState
  BY DEF Init, OrderState
<1> QED BY <1>5, <1>6

LEMMA OrderSteps ==
  ASSUME OrderInv, OrderBlocks
  PROVE  OrderInv'
<1> DEFINE ge == block_ge2(Vec(ap, 1), Vec(ap, 0), Vec(bp, 1), Vec(bp, 0))
<1>1. prog = "order" /\ rp' = [rp EXCEPT ![0] = IF ge THEN 1 ELSE 0] /\ UNCHANGED <<prog, ap, bp>>
  BY DEF OrderBlocks
<1>2. OrderShape /\ OrderState
  BY <1>1 DEF OrderInv
<1>3. ge <=> Ordered(ap, bp, 2 * L)
  BY <1>2, BlocksOrdered DEF OrderShape
<1> HIDE DEF ge
<1>4. DOMAIN rp' = Limbs /\ (rp'[0] = 1 <=> ge)
  BY <1>1, <1>2 DEF OrderShape, OrderState
<1>5. OrderShape' /\ OrderState'
  BY <1>1, <1>2, <1>3, <1>4 DEF OrderShape, OrderState, Ordered, IsDigits, Limbs
<1> QED BY <1>5 DEF OrderInv

-----------------------------------------------------------------------------
(* Every product is right *)

(* The result has room. *)
Fits == prog \in Products \ {"order"} => Count \in Nat /\ Count <= Room
ProductInv == RedundantInv /\ StreamInv /\ BlockInv /\ SingleInv /\ OrderInv /\ Fits

LEMMA InitFits == ProductInputs /\ DigitInputs /\ Init => Fits
<1> SUFFICES ASSUME ProductInputs, DigitInputs, Init, prog \in Products \ {"order"} PROVE Count \in Nat /\ Count <= Room
  BY DEF Fits
<1>1. PICK shape \in Shapes[prog] : an = shape[1] /\ bn = shape[2]
  BY DEF Init
<1>2. prog \in Products \cap DOMAIN Shapes
  BY DEF Init
<1>3. an \in Nat /\ bn \in Nat
  BY <1>1, <1>2 DEF ProductInputs
<1>4. ResultLimbs(prog, shape) <= Room
  BY <1>1, <1>2 DEF DigitInputs
<1>5. Count = ResultLimbs(prog, shape)
  BY <1>1 DEF Count, ResultLimbs
<1>6. Count \in Nat
  <2>1. L \in Nat /\ an * L \in Nat
    BY <1>3, VectorSizes
  <2> QED BY <1>3, <2>1 DEF Count
<1> QED BY <1>4, <1>5, <1>6

(* Nothing moves. *)
LEMMA ProductStutters ==
  ASSUME ProductInv, UNCHANGED vars
  PROVE  ProductInv'
<1>1. UNCHANGED <<prog, an, bn, ap, bp>> /\ vi' = vi /\ kept' = kept /\ chain' = chain /\ rp' = rp /\ done' = done
  BY DEF vars
<1>2. Count' = Count /\ Prefix' = Prefix /\ \A t : CarryAt(t)' = CarryAt(t)
  BY <1>1, PrefixKept
<1>3. RedundantInv'
  <2>1. CASE prog \in {"narrow", "wide"}
    <3> DEFINE next == vi * L
    <3>1. RedundantShape /\ RedundantState
      BY <2>1 DEF ProductInv, RedundantInv
    <3>2. vi' \in Nat /\ DOMAIN rp' = Limbs /\ next = vi' * L
      BY <1>1, <3>1 DEF RedundantState
    <3>3. IF done' THEN vi' > LastVector /\ AllColumns(rp', an + bn)
          ELSE vi' <= LastVector /\ AllColumns(rp', next) /\ Holds(kept', Table, next - L)
      BY <1>1, <3>1 DEF RedundantState
    <3> HIDE DEF next
    <3> QED BY <1>1, <3>1, <3>2, <3>3, RedundantReached
  <2>2. CASE prog \notin {"narrow", "wide"}
    BY <1>1, <2>2 DEF RedundantInv
  <2> QED BY <2>1, <2>2
<1>4. StreamInv'
  <2>1. CASE prog \in {"vec", "fast"}
    <3> DEFINE next == vi * L
    <3>1. StreamShape /\ StreamState
      BY <2>1 DEF ProductInv, StreamInv
    <3>2. vi' \in Nat /\ DOMAIN rp' = Limbs /\ next = vi' * L /\ PosChain(chain')
      BY <1>1, <3>1 DEF StreamState
    <3>3. IF done' THEN vi' > Turns /\ Resolved(rp', Count)
          ELSE /\ vi' <= Turns /\ Resolved(rp', next) /\ Holds(kept', StreamTable, next - L)
               /\ chain'.hi + chain'.cin = CarryAt(next)
      BY <1>1, <3>1 DEF StreamState
    <3> HIDE DEF next
    <3> QED BY <1>1, <3>1, <3>2, <3>3, StreamReached
  <2>2. CASE prog \notin {"vec", "fast"}
    BY <1>1, <2>2 DEF StreamInv
  <2> QED BY <2>1, <2>2
<1>5. BlockInv'
  <2>1. CASE prog \in {"addc", "subb"}
    <3>1. BlockShape /\ BlockState
      BY <2>1 DEF ProductInv, BlockInv
    <3>2. /\ vi' \in Nat /\ vi' <= an /\ DOMAIN rp' = Limbs /\ chain'.cin \in {0, 1} /\ (done' => vi' = an)
          /\ Resolved(rp', vi' * L)
          /\ (IF prog = "addc" THEN chain'.cin ELSE 0 - chain'.cin) = CarryAt(vi' * L)
      BY <1>1, <3>1 DEF BlockState, BlockCarry
    <3> QED BY <1>1, <2>1, <3>1, <3>2, BlockReached
  <2>2. CASE prog \notin {"addc", "subb"}
    BY <1>1, <2>2 DEF BlockInv
  <2> QED BY <2>1, <2>2
<1>6. SingleInv'
  <2>1. CASE prog \in {"estimate", "backmul"} /\ done
    <3>1. SingleShape /\ SingleState
      BY <2>1 DEF ProductInv, SingleInv
    <3>2. done' /\ DOMAIN rp' = Limbs /\ Resolved(rp', 2 * L) /\ (prog = "estimate" => chain'.cin = CarryAt(2 * L))
      BY <1>1, <2>1, <3>1 DEF SingleState
    <3> QED BY <1>1, <2>1, <3>1, <3>2, SingleReached
  <2>2. CASE prog \in {"estimate", "backmul"} /\ ~done
    <3>1. SingleShape /\ SingleState
      BY <2>2 DEF ProductInv, SingleInv
    <3>2. SingleShape'
      BY <1>1, <3>1 DEF SingleShape, EstimateShape, StreamShape, ProductShape, IsDigits
    <3>3. SingleState'
      BY <1>1, <2>2, <3>1 DEF SingleState, Limbs, NoTerms, Register, Zero, Lane
    <3> QED BY <3>2, <3>3 DEF SingleInv
  <2>3. CASE prog \notin {"estimate", "backmul"}
    BY <1>1, <2>3 DEF SingleInv
  <2> QED BY <2>1, <2>2, <2>3
<1>7. OrderInv'
  <2>1. CASE prog = "order"
    <3>1. OrderShape /\ OrderState
      BY <2>1 DEF ProductInv, OrderInv
    <3>2. OrderShape' /\ OrderState'
      BY <1>1, <3>1 DEF OrderShape, OrderState, Ordered, IsDigits, Limbs
    <3> QED BY <3>2 DEF OrderInv
  <2>2. CASE prog # "order"
    BY <1>1, <2>2 DEF OrderInv
  <2> QED BY <2>1, <2>2
<1>8. Fits'
  BY <1>1, <1>2 DEF ProductInv, Fits, Products
<1> QED BY <1>3, <1>4, <1>5, <1>6, <1>7, <1>8 DEF ProductInv

(* The program of a call does not change, and its operands neither. *)
LEMMA OperandsStay ==
  ASSUME Next \/ AddSubNext
  PROVE  UNCHANGED <<prog, an, bn, ap, bp>>
<1>1. CASE AddSubNext
  BY <1>1 DEF AddSubNext, BlockVector, OneVector, MaskedTail, SingleLimb, Words
<1>2. CASE Next
  BY <1>2 DEF Next, NarrowTurn, NarrowTail, NarrowFlush, WideTurn, WideEnd, VecTurn, VecEnd, FastTurn, FastEnd,
              StreamTurn, StreamEnd, Estimate, Backmul, AddBlock, SubBlock, OrderBlocks, Turn, Finish, MidTurn, MidEnd, VerticalEnd
<1> QED BY <1>1, <1>2

LEMMA NextProduct == ProductInv /\ [Next \/ AddSubNext]_vars => ProductInv'
<1> SUFFICES ASSUME ProductInv, [Next \/ AddSubNext]_vars PROVE ProductInv'
  OBVIOUS
<1>1. CASE UNCHANGED vars
  BY <1>1, ProductStutters
<1>2. CASE Next \/ AddSubNext
  <2>1. UNCHANGED <<prog, an, bn, ap, bp>> /\ prog' = prog
    BY <1>2, OperandsStay
  <2>2. Fits'
    BY <2>1, PrefixKept DEF ProductInv, Fits, Products
  <2>3. CASE prog = "narrow" \/ prog = "wide"
    <3>1. RedundantInv'
      <4>1. NarrowTurn \/ NarrowTail \/ NarrowFlush \/ WideTurn \/ WideEnd
        BY <1>2, <2>3 DEF Next, AddSubNext, BlockVector, OneVector, MaskedTail, SingleLimb, Running, Words, VecTurn, VecEnd,
             FastTurn, FastEnd, StreamTurn, StreamEnd, Estimate, Backmul, AddBlock, SubBlock, OrderBlocks, MidTurn, MidEnd, VerticalEnd
      <4> QED BY <4>1, NarrowSteps, WideSteps DEF ProductInv
    <3> QED BY <2>1, <2>2, <2>3, <3>1 DEF ProductInv, StreamInv, BlockInv, SingleInv, OrderInv
  <2>4. CASE prog = "vec" \/ prog = "fast"
    <3>1. StreamInv'
      <4>1. \E p \in {"vec", "fast"} : StreamTurn(p) \/ StreamEnd(p)
        BY <1>2, <2>4 DEF Next, AddSubNext, BlockVector, OneVector, MaskedTail, SingleLimb, Running, Words, VecTurn, VecEnd,
             FastTurn, FastEnd, NarrowTurn, NarrowTail, NarrowFlush, WideTurn, WideEnd, Estimate, Backmul, AddBlock, SubBlock,
             OrderBlocks, MidTurn, MidEnd, VerticalEnd
      <4> QED BY <4>1, StreamSteps DEF ProductInv
    <3> QED BY <2>1, <2>2, <2>4, <3>1 DEF ProductInv, RedundantInv, BlockInv, SingleInv, OrderInv
  <2>5. CASE prog = "addc" \/ prog = "subb"
    <3>1. BlockInv'
      <4>1. AddBlock \/ SubBlock
        BY <1>2, <2>5 DEF Next, AddSubNext, BlockVector, OneVector, MaskedTail, SingleLimb, Running, Words, VecTurn, VecEnd,
             FastTurn, FastEnd, StreamTurn, StreamEnd, NarrowTurn, NarrowTail, NarrowFlush, WideTurn, WideEnd, Estimate, Backmul,
             OrderBlocks, MidTurn, MidEnd, VerticalEnd
      <4> QED BY <4>1, BlockSteps DEF ProductInv
    <3> QED BY <2>1, <2>2, <2>5, <3>1 DEF ProductInv, RedundantInv, StreamInv, SingleInv, OrderInv
  <2>6. CASE prog = "estimate" \/ prog = "backmul"
    <3>1. SingleInv'
      <4>1. Estimate \/ Backmul
        BY <1>2, <2>6 DEF Next, AddSubNext, BlockVector, OneVector, MaskedTail, SingleLimb, Running, Words, VecTurn, VecEnd,
             FastTurn, FastEnd, StreamTurn, StreamEnd, NarrowTurn, NarrowTail, NarrowFlush, WideTurn, WideEnd, AddBlock, SubBlock,
             OrderBlocks, MidTurn, MidEnd, VerticalEnd
      <4> QED BY <4>1, EstimateSteps, BackmulSteps DEF ProductInv
    <3> QED BY <2>1, <2>2, <2>6, <3>1 DEF ProductInv, RedundantInv, StreamInv, BlockInv, OrderInv
  <2>7. CASE prog = "order"
    <3>1. OrderInv'
      <4>1. OrderBlocks
        BY <1>2, <2>7 DEF Next, AddSubNext, BlockVector, OneVector, MaskedTail, SingleLimb, Running, Words, VecTurn, VecEnd,
             FastTurn, FastEnd, StreamTurn, StreamEnd, NarrowTurn, NarrowTail, NarrowFlush, WideTurn, WideEnd, AddBlock, SubBlock,
             Estimate, Backmul, MidTurn, MidEnd, VerticalEnd
      <4> QED BY <4>1, OrderSteps DEF ProductInv
    <3> QED BY <2>1, <2>2, <2>7, <3>1 DEF ProductInv, RedundantInv, StreamInv, BlockInv, SingleInv
  <2>8. CASE prog \notin Products
    BY <2>1, <2>2, <2>8 DEF ProductInv, RedundantInv, StreamInv, BlockInv, SingleInv, OrderInv, Products
  <2> QED BY <2>3, <2>4, <2>5, <2>6, <2>7, <2>8 DEF Products
<1> QED BY <1>1, <1>2

LEMMA ProductDone == ProductInv => ProductRight
<1> SUFFICES ASSUME ProductInv, done, prog \in Products
             PROVE  CASE prog \in {"narrow", "wide"} -> \A t \in 0 .. Count - 1 : rp[t] = Column(t)
                      [] prog = "order" ->
                           rp[0] = 1 <=> \A t \in 0 .. (2 * L) - 1 :
                                          ap[t] >= bp[t] \/ \E k \in t + 1 .. (2 * L) - 1 : ap[k] > bp[k]
                      [] OTHER -> \E to \in {Prefix} : /\ \A t \in 0 .. Count - 1 : rp[t] = to[t] % B
                                                       /\ chain.cin = LastCarry(to)
  BY DEF ProductRight
<1>1. prog # "order" => Count \in Nat /\ \A t \in 0 .. Count - 1 : t \in Limbs /\ t < Count
  <2>1. Room \in Nat /\ (prog # "order" => Count \in Nat /\ Count <= Room)
    BY RoomAssumption DEF ProductInv, Fits
  <2> QED BY <2>1 DEF Limbs
<1>2. CASE prog \in {"narrow", "wide"}
  <2>1. AllColumns(rp, an + bn) /\ Count = an + bn
    BY <1>2 DEF ProductInv, RedundantInv, RedundantState, Count
  <2>2. \A t : Column(t) = ProductColumn(t, 0)
    BY <1>2 DEF Column
  <2>3. \A t \in 0 .. Count - 1 : rp[t] = Column(t)
    BY <1>1, <1>2, <2>1, <2>2 DEF AllColumns
  <2> QED BY <1>2, <2>3
<1>3. CASE prog = "order"
  <2>1. rp[0] = 1 <=> Ordered(ap, bp, 2 * L)
    BY <1>3 DEF ProductInv, OrderInv, OrderState
  <2> QED BY <1>3, <2>1 DEF Ordered
<1>4. CASE prog \notin {"narrow", "wide", "order"}
  <2>1. Resolved(rp, Count) /\ chain.cin = LastCarry(Prefix)
    <3>1. CASE prog \in {"vec", "fast"}
      BY <3>1 DEF ProductInv, StreamInv, StreamState, LastCarry
    <3>2. CASE prog \in {"addc", "subb"}
      <4>1. BlockShape /\ BlockState /\ vi = an
        BY <3>2 DEF ProductInv, BlockInv, BlockState
      <4>2. Resolved(rp, Count) /\ BlockCarry = CarryAt(Count) /\ chain.cin \in {0, 1}
        BY <3>2, <4>1 DEF BlockState, Count
      <4> DEFINE x == Prefix[Count - 1] \div B
      <4>3. BlockCarry = x
        BY <4>2 DEF CarryAt
      <4>4. chain.cin = IF prog = "addc" THEN x ELSE -x
        <5> HIDE DEF x
        <5>1. CASE prog = "addc"
          BY <4>3, <5>1 DEF BlockCarry
        <5>2. CASE prog # "addc"
          <6>1. x = 0 - chain.cin
            BY <4>3, <5>2 DEF BlockCarry
          <6> QED BY <4>2, <5>2, <6>1
        <5> QED BY <5>1, <5>2
      <4>5. LastCarry(Prefix) = IF prog = "addc" THEN x ELSE -x
        BY <3>2 DEF LastCarry
      <4> QED BY <4>2, <4>4, <4>5
    <3>3. CASE prog \in {"estimate", "backmul"}
      <4>1. Resolved(rp, 2 * L) /\ (prog = "estimate" => chain.cin = CarryAt(2 * L)) /\ Count = 2 * L
        BY <3>3 DEF ProductInv, SingleInv, SingleState, Count
      <4>2. chain.cin = LastCarry(Prefix)
        BY <3>3, <4>1 DEF LastCarry, CarryAt
      <4> QED BY <4>1, <4>2
    <3> QED BY <1>4, <3>1, <3>2, <3>3 DEF Products
  <2>2. \A t \in 0 .. Count - 1 : rp[t] = Prefix[t] % B
    BY <1>1, <1>4, <2>1 DEF Resolved
  <2> QED BY <1>4, <2>1, <2>2
<1> QED BY <1>2, <1>3, <1>4

(* ProductRight: every product holds the columns of its digits' low and high  *)
(* halves, as whole sums or with the carries resolved and the last one in the *)
(* chain, and the comparison of two blocks is that of their numbers: for      *)
(* operands of every length and content, every number of lanes, base and      *)
(* headroom.                                                                  *)
THEOREM ProductsAlwaysRight ==
  ASSUME ProductInputs, DigitInputs
  PROVE  ProductsSpec => []ProductRight
<1>1. Init => ProductInv
  BY InitRedundant, InitStream, InitBlock, InitSingle, InitOrder, InitFits DEF ProductInv
<1>2. ProductInv /\ [Next \/ AddSubNext]_vars => ProductInv'
  BY NextProduct
<1>3. ProductInv => ProductRight
  BY ProductDone
<1> QED BY <1>1, <1>2, <1>3, PTL DEF ProductsSpec

=============================================================================
