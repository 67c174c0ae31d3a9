------------------------------ MODULE LineQueue ------------------------------
(***************************************************************************)
(* What the console promises: characters are typed into a line that can    *)
(* still be edited, then committed, and each committed character goes to   *)
(* one reader, in the order typed.  An end of file ends one read, the one  *)
(* that has read nothing yet.                                              *)
(***************************************************************************)
EXTENDS Naturals, Sequences

CONSTANTS Readers, Chars, Newline, Eof

VARIABLES
  queue,   \* committed characters
  line,    \* characters that can still be edited
  got      \* what each reader's call has read so far

vars == <<queue, line, got>>

Append1(c) == queue' = queue /\ line' = Append(line, c)
Commit(c) == queue' = queue \o Append(line, c) /\ line' = <<>>
Erase == \E n \in 0..Len(line) : line' = SubSeq(line, 1, n) /\ queue' = queue

Type ==
  /\ Erase \/ \E c \in Chars : Append1(c) \/ Commit(c)
  /\ UNCHANGED got

Take(p) ==
  /\ queue # <<>> /\ Head(queue) # Eof
  /\ queue' = Tail(queue)
  /\ got' = [got EXCEPT ![p] = Append(@, Head(queue))]
  /\ UNCHANGED line

\* The end of file stays for the next call if this one has read something.
TakeEof(p) ==
  /\ queue # <<>> /\ Head(queue) = Eof
  /\ queue' = IF got[p] = <<>> THEN Tail(queue) ELSE queue
  /\ got' = [got EXCEPT ![p] = <<>>]
  /\ UNCHANGED line

Return(p) == got' = [got EXCEPT ![p] = <<>>] /\ UNCHANGED <<queue, line>>

Init == queue = <<>> /\ line = <<>> /\ got = [p \in Readers |-> <<>>]
Next == Type \/ \E p \in Readers : Take(p) \/ TakeEof(p) \/ Return(p)
Spec == Init /\ [][Next]_vars
=============================================================================
