----------------------------- MODULE BlockStore -----------------------------
(***************************************************************************)
(* What the buffer cache promises: blocks that one process at a time       *)
(* holds, reads and updates, as if they were all in memory.                *)
(***************************************************************************)
CONSTANTS Procs, Blocks, Vals, NoProc

VARIABLES mem,   \* contents of the blocks
          owner  \* who holds each of them

Init == mem \in [Blocks -> Vals] /\ owner = [k \in Blocks |-> NoProc]

Acquire(p, k) == /\ owner[k] = NoProc
                 /\ owner' = [owner EXCEPT ![k] = p]
                 /\ UNCHANGED mem

Write(p, k, v) == /\ owner[k] = p
                  /\ mem' = [mem EXCEPT ![k] = v]
                  /\ UNCHANGED owner

Release(p, k) == /\ owner[k] = p
                 /\ owner' = [owner EXCEPT ![k] = NoProc]
                 /\ UNCHANGED mem

Next == \E p \in Procs, k \in Blocks :
          \/ Acquire(p, k) \/ Release(p, k)
          \/ \E v \in Vals : Write(p, k, v)

Spec == Init /\ [][Next]_<<mem, owner>>
=============================================================================
