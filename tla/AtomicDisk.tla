----------------------------- MODULE AtomicDisk -----------------------------
(***************************************************************************)
(* What the logging layer of xv6 promises to the file system above it.     *)
(*                                                                         *)
(* File-system operations run between Begin and End and update the blocks  *)
(* they see at once; what survives a crash is always the state of the      *)
(* blocks at some moment when no operation was under way, so an operation  *)
(* survives a crash with all of its writes or with none of them.           *)
(***************************************************************************)
CONSTANTS Procs,    \* processes that run file-system operations
          Blocks,   \* disk blocks the operations update
          Vals      \* contents of a block

VARIABLES durable,  \* what a crash leaves
          view,     \* what the running operations read
          active    \* processes inside an operation

vars == <<durable, view, active>>

Init == /\ durable \in [Blocks -> Vals]
        /\ view = durable
        /\ active = {}

Begin(p) == /\ p \notin active
            /\ active' = active \cup {p}
            /\ UNCHANGED <<durable, view>>

Write(p, b, v) == /\ p \in active
                  /\ view' = [view EXCEPT ![b] = v]
                  /\ UNCHANGED <<durable, active>>

End(p) == /\ p \in active
          /\ active' = active \ {p}
          /\ UNCHANGED <<durable, view>>

\* The one moment at which the durable state changes.
Commit == /\ active = {}
          /\ durable' = view
          /\ UNCHANGED <<view, active>>

Crash == /\ view' = durable
         /\ active' = {}
         /\ UNCHANGED durable

Next == \/ \E p \in Procs : Begin(p) \/ End(p)
        \/ \E p \in Procs, b \in Blocks, v \in Vals : Write(p, b, v)
        \/ Commit
        \/ Crash

Spec == Init /\ [][Next]_vars
=============================================================================
