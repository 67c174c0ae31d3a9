------------------------------- MODULE Console -------------------------------
(***************************************************************************)
(* The console's input (console.c): the interrupt handler edits and commits*)
(* a line in a ring, readers take characters out of it.  The indices r, w  *)
(* and e are unsigned: they wrap at Wrap (2^32), a multiple of INPUT_BUF.  *)
(* cons.lock makes an interrupt one step; a reader holds it for several.   *)
(***************************************************************************)
EXTENDS Integers, Sequences

CONSTANTS
  Readers,
  INPUT_BUF,
  Wrap,
  Letters,   \* characters without a meaning
  MaxRead    \* bound on the size of a read

VARIABLES
  buf, r, w, e,   \* input
  lock,           \* the reader that has cons.lock
  reader          \* pc, the bytes still wanted, what has been read, killed

vars == <<buf, r, w, e, lock, reader>>

Newline == "\n"
Eof == "^D"
Chars == Letters \cup {Newline, Eof}
NoOne == "no one"
Minus(a, b) == (a - b + Wrap) % Wrap
Plus(a, b) == (a + b) % Wrap
Slot(i) == i % INPUT_BUF

Woken == [p \in Readers |-> IF reader[p].pc = "asleep" THEN [reader[p] EXCEPT !.pc = "woken"] ELSE reader[p]]

\* consoleintr for a character; a full ring is committed as it is.
Room_wrong == Minus(e, w) < INPUT_BUF
Room == Minus(e, r) < INPUT_BUF
Full(i) == i = Plus(r, INPUT_BUF)

Type(c) ==
  /\ lock = NoOne
  /\ Room
  /\ buf' = [buf EXCEPT ![Slot(e)] = c]
  /\ e' = Plus(e, 1)
  /\ IF c \in {Newline, Eof} \/ Full(e')
       THEN w' = e' /\ reader' = Woken
       ELSE UNCHANGED <<w, reader>>
  /\ UNCHANGED <<r, lock>>

\* ^H and ^U.
Backspace ==
  /\ lock = NoOne
  /\ e # w
  /\ e' = Minus(e, 1)
  /\ UNCHANGED <<buf, r, w, lock, reader>>

KillLine ==
  /\ lock = NoOne
  /\ \E n \in 1..INPUT_BUF :
       /\ \A j \in 1..n : Minus(e, j - 1) # w /\ buf[Slot(Minus(e, j))] # Newline
       /\ Minus(e, n) = w \/ buf[Slot(Minus(e, n + 1))] = Newline
       /\ e' = Minus(e, n)
  /\ UNCHANGED <<buf, r, w, lock, reader>>

\* consoleread
Enter(p) ==
  /\ reader[p].pc = "out" /\ ~reader[p].killed
  /\ \E n \in 1..MaxRead : reader' = [reader EXCEPT ![p].pc = "acquire", ![p].n = n]
  /\ UNCHANGED <<buf, r, w, e, lock>>

Acquire(p) ==
  /\ reader[p].pc \in {"acquire", "woken"} /\ lock = NoOne
  /\ lock' = p
  /\ reader' = [reader EXCEPT ![p].pc = "loop"]
  /\ UNCHANGED <<buf, r, w, e>>

Release(p) ==
  /\ lock' = NoOne
  /\ reader' = [reader EXCEPT ![p].pc = "out", ![p].n = 0, ![p].got = <<>>]

\* A turn of the loop, with the lock: nothing there ...
SleepOrDie(p) ==
  /\ lock = p /\ reader[p].pc = "loop" /\ reader[p].n > 0 /\ r = w
  /\ IF reader[p].killed THEN Release(p)
     ELSE lock' = NoOne /\ reader' = [reader EXCEPT ![p].pc = "asleep"]
  /\ UNCHANGED <<buf, r, w, e>>

\* ... or a character; ^D after others is put back.
Take(p) ==
  /\ lock = p /\ reader[p].pc = "loop" /\ reader[p].n > 0 /\ r # w
  /\ LET c == buf[Slot(r)] IN
       IF c = Eof
         THEN /\ r' = IF reader[p].got # <<>> THEN r ELSE Plus(r, 1)
              /\ Release(p)
         ELSE /\ r' = Plus(r, 1)
              /\ reader' = [reader EXCEPT ![p].n = IF c = Newline THEN 0 ELSE @ - 1, ![p].got = Append(@, c)]
              /\ UNCHANGED lock
  /\ UNCHANGED <<buf, w, e>>

Done(p) ==
  /\ lock = p /\ reader[p].pc = "loop" /\ reader[p].n = 0
  /\ Release(p)
  /\ UNCHANGED <<buf, r, w, e>>

\* kill wakes the sleeper; the process exits when the call returns, and its
\* slot is used again.
Kill(p) ==
  /\ ~reader[p].killed
  /\ reader' = [reader EXCEPT ![p].killed = TRUE, ![p].pc = IF @ = "asleep" THEN "woken" ELSE @]
  /\ UNCHANGED <<buf, r, w, e, lock>>

Exits(p) ==
  /\ reader[p].killed /\ reader[p].pc = "out"
  /\ reader' = [reader EXCEPT ![p].killed = FALSE]
  /\ UNCHANGED <<buf, r, w, e, lock>>

Init ==
  /\ buf = [i \in 0..(INPUT_BUF - 1) |-> Newline]
  /\ r = 0 /\ w = 0 /\ e = 0
  /\ lock = NoOne
  /\ reader = [p \in Readers |-> [pc |-> "out", n |-> 0, got |-> <<>>, killed |-> FALSE]]

Next ==
  \/ \E c \in Chars : Type(c)
  \/ Backspace
  \/ KillLine
  \/ \E p \in Readers :
       Enter(p) \/ Acquire(p) \/ SleepOrDie(p) \/ Take(p) \/ Done(p) \/ Kill(p) \/ Exits(p)

Spec == Init /\ [][Next]_vars

-----------------------------------------------------------------------------

Stretch(from, to) == [j \in 1..Minus(to, from) |-> buf[Slot(Plus(from, j - 1))]]
Lines == INSTANCE LineQueue WITH
  queue <- Stretch(r, w), line <- Stretch(w, e), got <- [p \in Readers |-> reader[p].got]

\* The ring, with its wrapping indices and its edits behind the readers'
\* backs, is a queue of committed characters: none is lost, changed, read
\* twice or erased, and ^D ends one read that has read nothing.
ImplementsLineQueue == Lines!Spec

\* Nobody sleeps while there is something to read, and when the ring is full
\* there is: otherwise no key but erasing would ever be accepted again.
NeverStuck ==
  /\ \A p \in Readers : reader[p].pc = "asleep" => r = w
  /\ Minus(e, r) = INPUT_BUF => w = e
=============================================================================
