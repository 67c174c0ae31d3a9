-------------------------------- MODULE Flip --------------------------------
(***************************************************************************)
(* flip: converts the ends of lines of a file in place.  It writes a       *)
(* temporary file, a character at a time, removes the original and renames *)
(* the temporary file.  A signal that it catches sets got_sig; one that it *)
(* cannot catch ends it anywhere.  Writes that fail are seen when the      *)
(* temporary file is flushed.                                              *)
(***************************************************************************)
EXTENDS Naturals, Sequences, SequencesExt

CONSTANT MaxLen      \* a file has at most so many characters

VARIABLES
  opt,       \* the options: which, and the set of the others
  old,       \* the file as flip finds it
  file,      \* what is under its name
  temp,      \* the temporary file
  rest,      \* what is not read yet
  state,     \* of the conversion
  got_sig,
  pc

vars == <<opt, old, file, temp, rest, state, got_sig, pc>>

Absent == <<"absent">>
MSTOIX == "MSTOIX"
IXTOMS == "IXTOMS"

\* "a" is text, "^A" binary; "CR+" and "LF+" have the high bit.
Chars == {"a", "^A", "CR", "LF", "^Z", "CR+"}
BINCHAR(c) == c \in {"^A", "CR+"}
STRIP(c) == IF c = "CR+" THEN "CR" ELSE c
Read(c) == IF "strip" \in opt.flags THEN STRIP(c) ELSE c

Options == [which : {MSTOIX, IXTOMS}, flags : SUBSET {"strip", "bintoo", "ztrunc"}]
Files == SeqOf(Chars, MaxLen)

Idle ==
  /\ opt = [which |-> MSTOIX, flags |-> {}] /\ old = <<>> /\ file = <<>> /\ temp = Absent
  /\ rest = <<>> /\ state = "NONE" /\ got_sig = FALSE /\ pc = "idle"
Init == Idle

main ==
  /\ pc = "idle"
  /\ opt' \in Options /\ old' \in Files /\ file' = old' /\ pc' = "dofile"
  /\ UNCHANGED <<temp, rest, state, got_sig>>

\* flip gives up on a signal, or when it cannot open the file or the
\* temporary file.
dofile ==
  /\ pc = "dofile"
  /\ \/ pc' = "end" /\ UNCHANGED <<temp, rest>>
     \/ ~got_sig /\ pc' = opt.which /\ temp' = <<>> /\ rest' = file
  /\ UNCHANGED <<opt, old, file, state, got_sig>>

\* A character is consumed: what is written, the next state, what is left.
Put(out, to, left) ==
  temp' = temp \o out /\ state' = to /\ rest' = left /\ UNCHANGED <<opt, old, file, got_sig, pc>>

Stops == got_sig \/ ("bintoo" \notin opt.flags /\ BINCHAR(Head(rest)))
Abandon_wrong ==
  /\ pc \in {MSTOIX, IXTOMS} /\ rest # <<>> /\ Stops
  /\ pc' = "flush"
  /\ UNCHANGED <<opt, old, file, temp, rest, state, got_sig>>
Abandon ==
  /\ pc \in {MSTOIX, IXTOMS} /\ rest # <<>> /\ Stops
  /\ temp' = Absent /\ pc' = "end"
  /\ UNCHANGED <<opt, old, file, rest, state, got_sig>>

Converted == pc' = "flush" /\ UNCHANGED <<opt, old, file, rest, got_sig>>

mstoix ==
  /\ pc = MSTOIX /\ rest # <<>> /\ ~Stops
  /\ LET c == Read(Head(rest))
         pending == IF state = "SAWCR" THEN <<"CR">> ELSE <<>>
         past == IF state = "SAWCR" THEN "NONE" ELSE state
     IN  \/ c = "LF" /\ Put(<<c>>, past, Tail(rest))
         \/ c = "CR" /\ Put(<<>>, "SAWCR", Tail(rest))
         \/ c = "^Z" /\ "ztrunc" \notin opt.flags /\ Len(rest) > 1
              /\ Put(pending \o <<c>>, "SAWCTRLZ", Tail(rest))
         \/ c = "^Z" /\ ("ztrunc" \in opt.flags \/ Len(rest) = 1)
              /\ temp' = temp \o pending /\ state' = "SAWCTRLZ" /\ Converted
         \/ c \notin {"LF", "CR", "^Z"} /\ Put(pending \o <<c>>, past, Tail(rest))

ixtoms ==
  /\ pc = IXTOMS /\ rest # <<>> /\ ~Stops
  /\ LET c == Read(Head(rest))
     IN  \/ c = "LF" /\ state = "SAWCR" /\ Put(<<c>>, "NONE", Tail(rest))
         \/ c = "LF" /\ state # "SAWCR" /\ Put(<<"CR", c>>, state, Tail(rest))
         \/ c = "CR" /\ Put(<<c>>, "SAWCR", Tail(rest))
         \/ c = "^Z" /\ "ztrunc" \in opt.flags /\ Converted /\ UNCHANGED <<temp, state>>
         \/ (c \notin {"LF", "CR", "^Z"} \/ (c = "^Z" /\ "ztrunc" \notin opt.flags))
              /\ Put(<<c>>, "NONE", Tail(rest))

\* The end of the file.
eof == pc \in {MSTOIX, IXTOMS} /\ rest = <<>> /\ Converted /\ UNCHANGED <<temp, state>>

\* The temporary file is left behind if it could not be written.
flush ==
  /\ pc = "flush" /\ pc' \in {"unlink", "end"}
  /\ UNCHANGED <<opt, old, file, temp, rest, state, got_sig>>

\* Whether the original could be removed is not looked at.
unlink ==
  /\ pc = "unlink" /\ pc' = "rename" /\ file' \in {file, Absent}
  /\ UNCHANGED <<opt, old, temp, rest, state, got_sig>>

rename ==
  /\ pc = "rename"
  /\ \/ file' = temp /\ temp' = Absent /\ pc' = "end"
     \/ temp' = Absent /\ pc' = "not renamed" /\ UNCHANGED file
  /\ UNCHANGED <<opt, old, rest, state, got_sig>>

cleanup ==
  /\ pc \notin {"idle", "end", "not renamed"} /\ ~got_sig /\ got_sig' = TRUE
  /\ UNCHANGED <<opt, old, file, temp, rest, state, pc>>

Kill ==
  /\ pc \notin {"idle", "end", "not renamed"} /\ pc' = "end"
  /\ UNCHANGED <<opt, old, file, temp, rest, state, got_sig>>

\* Everything is forgotten before the next file.
Done ==
  /\ pc \in {"end", "not renamed"} /\ pc' = "idle"
  /\ opt' = [which |-> MSTOIX, flags |-> {}] /\ old' = <<>> /\ file' = <<>> /\ temp' = Absent
  /\ rest' = <<>> /\ state' = "NONE" /\ got_sig' = FALSE

Next ==
  main \/ dofile \/ Abandon \/ mstoix \/ ixtoms \/ eof \/ flush \/ unlink \/ rename \/ cleanup \/ Kill \/ Done

Spec == Init /\ [][Next]_vars

-----------------------------------------------------------------------------
\* What the conversion means, without a state machine: which characters
\* stay, by what follows them, and which line feeds get a carriage return.
Meant ==
  LET s == [i \in DOMAIN old |-> Read(old[i])]
      zs == {i \in DOMAIN s : s[i] = "^Z"}
      last == IF "ztrunc" \in opt.flags /\ zs # {} THEN CHOOSE z \in zs : \A y \in zs : z <= y ELSE Len(s)
      Follows(i, set) == i < Len(s) /\ s[i + 1] \in set
      Unix(i) == IF (s[i] = "^Z" /\ i = last) \/ (s[i] = "CR" /\ (i = Len(s) \/ Follows(i, {"CR", "LF"})))
                 THEN <<>> ELSE <<s[i]>>
      Dos(i) == IF s[i] = "LF" /\ (i = 1 \/ s[i - 1] # "CR") THEN <<"CR", "LF">>
                ELSE IF s[i] = "^Z" /\ "ztrunc" \in opt.flags THEN <<>> ELSE <<s[i]>>
  IN  FlattenSeq([i \in 1..last |-> IF opt.which = MSTOIX THEN Unix(i) ELSE Dos(i)])

\* Whatever ends flip and wherever it is, the file is what it was or wholly
\* converted; or it is not there, and then the temporary file holds all of
\* the conversion, unless the last rename failed (flip.c:329-345).
FileIsOldOrNew ==
  \/ file \in {old, Meant}
  \/ file = Absent /\ (temp = Meant \/ pc = "not renamed")
=============================================================================
