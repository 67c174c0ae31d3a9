-------------------------------- MODULE Fifo --------------------------------
(***************************************************************************)
(* What a pipe promises: bytes come out once, in the order they went in,   *)
(* and at most Capacity of them are under way.                             *)
(***************************************************************************)
EXTENDS Naturals, Sequences

CONSTANTS Bytes, Capacity

VARIABLES q,    \* the bytes under way
          got   \* the last byte received

Init == q = <<>> /\ got \in Bytes

Put(b) == /\ Len(q) < Capacity
          /\ q' = Append(q, b)
          /\ UNCHANGED got

Get == /\ q # <<>>
       /\ got' = Head(q)
       /\ q' = Tail(q)

Next == (\E b \in Bytes : Put(b)) \/ Get

Spec == Init /\ [][Next]_<<q, got>>
=============================================================================
