------------------------------ MODULE FileStore ------------------------------
(***************************************************************************)
(* What the layers below the names promise: files are sequences of bytes,  *)
(* a write of up to Chunk bytes happens at once, and after a crash all     *)
(* files are as they were together at some earlier moment.                 *)
(***************************************************************************)
EXTENDS Integers

CONSTANTS Files, Values, Chunk

VARIABLES
  files,    \* contents by position, or Gone
  durable   \* what a crash goes back to

vars == <<files, durable>>

Gone == [i \in {-1} |-> 0]
Empty == [i \in {} |-> 0]

\* Overwrites or extends: a write begins within the file or at its end.
Written(old, new) ==
  \E off \in DOMAIN new, n \in 1..Chunk, v \in Values :
    /\ off = 0 \/ off - 1 \in DOMAIN old
    /\ new = [i \in DOMAIN old \cup off..(off + n - 1) |-> IF i \in off..(off + n - 1) THEN v ELSE old[i]]

Write(f) ==
  /\ files[f] # Gone /\ files'[f] # Gone
  /\ files' = [files EXCEPT ![f] = files'[f]]
  /\ Written(files[f], files'[f])

Create(f) == files[f] = Gone /\ files' = [files EXCEPT ![f] = Empty]
Remove(f) == files[f] # Gone /\ files' = [files EXCEPT ![f] = Gone]

Change == \E f \in Files : Write(f) \/ Create(f) \/ Remove(f)
Crash == files' = durable /\ UNCHANGED durable

Init == files = [f \in Files |-> Gone] /\ durable = files
Next ==
  \/ (UNCHANGED files \/ Change) /\ (UNCHANGED durable \/ durable' = files')
  \/ Crash
Spec == Init /\ [][Next]_vars
=============================================================================
