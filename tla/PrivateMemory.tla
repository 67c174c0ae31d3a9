---------------------------- MODULE PrivateMemory ----------------------------
(***************************************************************************)
(* What page tables promise: each process has a memory of its own, pages   *)
(* that only it writes.  Memory appears filled with zeros, or as a copy of *)
(* the parent's, or as a fresh program, and disappears as a whole.         *)
(***************************************************************************)
CONSTANTS Procs, Values, Zero, Text, Images

VARIABLE mem   \* per process a function from its pages to values

Nothing == [v \in {} |-> Zero]

Store(p) ==
  \E v \in DOMAIN mem[p], x \in Values : mem' = [mem EXCEPT ![p][v] = x]

\* Pages that stay keep their value, new ones are zero.
Resize(p, pages) ==
  mem' = [mem EXCEPT ![p] = [v \in pages |-> IF v \in DOMAIN @ THEN @[v] ELSE Zero]]

\* A child starts with a copy.
Spawn(p, c) == mem[c] = Nothing /\ mem' = [mem EXCEPT ![c] = mem[p]]

\* A program's image: its text, and zeros.
Replace(p) == \E image \in Images : mem' = [mem EXCEPT ![p] = image]

Vanish(p) == mem' = [mem EXCEPT ![p] = Nothing]

Init == \E p \in Procs : mem = [q \in Procs |-> IF q = p THEN [v \in {0} |-> Text] ELSE Nothing]

Next ==
  \E p \in Procs :
    \/ Store(p) \/ Replace(p) \/ Vanish(p)
    \/ \E c \in Procs : Spawn(p, c)
    \/ \E pages \in SUBSET UNION {DOMAIN mem[q] \cup DOMAIN mem'[q] : q \in Procs} : Resize(p, pages)

Spec == Init /\ [][Next]_mem
=============================================================================
