------------------------------ MODULE Streams ------------------------------
(***************************************************************************)
(* What pipes promise to programs: every pipe is a bounded byte stream     *)
(* with two ends.  Bytes leave in the order in which they entered,         *)
(* nothing is written or read at a closed end, and a stream is reused only *)
(* after both ends are closed.                                             *)
(***************************************************************************)
EXTENDS Naturals, Sequences

CONSTANTS Pages, Bytes, Capacity

VARIABLES items,     \* the bytes in each stream
          ends       \* its open ends

vars == <<items, ends>>

Init == /\ items = [g \in Pages |-> <<>>]
        /\ ends  = [g \in Pages |-> {}]

Open(g) == /\ ends[g] = {}
           /\ ends' = [ends EXCEPT ![g] = {"r", "w"}]
           /\ items' = [items EXCEPT ![g] = <<>>]

(* n bytes go in, whichever they are. *)
Put(g, n) == /\ "w" \in ends[g]
             /\ Len(items[g]) + n <= Capacity
             /\ Len(items'[g]) = Len(items[g]) + n
             /\ \E s \in [1..n -> Bytes] : items' = [items EXCEPT ![g] = @ \o s]
             /\ UNCHANGED ends

Get(g, k) == /\ "r" \in ends[g]
             /\ items' = [items EXCEPT ![g] = SubSeq(@, k + 1, Len(@))]
             /\ UNCHANGED ends

(* What is still in a stream when its last end is closed is gone. *)
Close(g, e) == /\ e \in ends[g]
               /\ ends' = [ends EXCEPT ![g] = @ \ {e}]
               /\ items' = [items EXCEPT ![g] = IF ends[g] = {e} THEN <<>> ELSE @]

Next == \E g \in Pages :
          \/ Open(g)
          \/ \E n \in 1..Capacity : Put(g, n)
          \/ \E k \in 1..Len(items[g]) : Get(g, k)
          \/ \E e \in {"r", "w"} : Close(g, e)

Spec == Init /\ [][Next]_vars
=============================================================================
