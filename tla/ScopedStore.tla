---------------------------- MODULE ScopedStore ----------------------------
(***************************************************************************)
(* What the scratch allocator of include/scratch.h promises its callers:   *)
(* a stack of scopes, each holding private buffers.  A buffer has contents *)
(* and no address; nothing but its owner's writes changes it; closing a    *)
(* scope drops exactly the buffers obtained in it; a buffer obtained       *)
(* "zeroed" is zero.  Exhaustion is a hard stop.                           *)
(***************************************************************************)
EXTENDS Integers, Sequences

CONSTANTS Sizes         \* the request sizes

VARIABLES running,      \* "absent", "ready" or "aborted"
          depth,        \* number of open scopes
          buffers       \* the buffers, oldest first: [scope, state, data]

storeVars == <<running, depth, buffers>>

StoreInit == running = "absent" /\ depth = 0 /\ buffers = << >>

Open    == running = "absent" /\ running' = "ready" /\ UNCHANGED <<depth, buffers>>
Close   == /\ running = "ready" /\ depth = 0
           /\ running' = "absent" /\ buffers' = << >> /\ depth' = 0
GiveUp  == running # "aborted" /\ running' = "aborted" /\ UNCHANGED <<depth, buffers>>

Enter   == running = "ready" /\ depth' = depth + 1 /\ UNCHANGED <<running, buffers>>

Leave   ==
  /\ running = "ready" /\ depth > 0
  /\ depth' = depth - 1
  /\ \E k \in 0 .. Len(buffers) :
       /\ buffers' = SubSeq(buffers, 1, k)
       /\ \A i \in 1 .. Len(buffers) : i > k <=> buffers[i].scope = depth
  /\ UNCHANGED running

(* A new buffer is appended, the older ones keep their contents. *)
Obtain(zeroed) ==
  /\ running = "ready"
  /\ Len(buffers') = Len(buffers) + 1
  /\ \A i \in 1 .. Len(buffers) : buffers'[i] = buffers[i]
  /\ LET b == buffers'[Len(buffers')]
     IN  /\ b.scope = depth
         /\ b.state = IF zeroed THEN "zeroed" ELSE "raw"
         /\ \E n \in Sizes : DOMAIN b.data = 0 .. n - 1
         /\ zeroed => \A k \in DOMAIN b.data : b.data[k] = 0
  /\ UNCHANGED <<running, depth>>

(* The owner of buffer i fills it with a value of its own. *)
Fill(i) ==
  /\ running = "ready"
  /\ buffers' = [buffers EXCEPT ![i].state = "written",
                                ![i].data = [k \in DOMAIN @ |-> i]]
  /\ UNCHANGED <<running, depth>>

StoreNext ==
  \/ Open \/ Close \/ GiveUp \/ Enter \/ Leave
  \/ \E zeroed \in BOOLEAN : Obtain(zeroed)
  \/ \E i \in 1 .. Len(buffers) : Fill(i)

StoreSpec == StoreInit /\ [][StoreNext]_storeVars
=============================================================================
