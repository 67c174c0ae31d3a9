------------------------------- MODULE Mutex -------------------------------
(* What a sleep-lock promises its users: one owner at a time. *)
CONSTANTS Procs, NoProc

VARIABLE owner

Init == owner = NoProc

Acquire(p) == owner = NoProc /\ owner' = p

Release(p) == owner = p /\ owner' = NoProc

Next == \E p \in Procs : Acquire(p) \/ Release(p)

Spec == Init /\ [][Next]_owner
=============================================================================
