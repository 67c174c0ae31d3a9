------------------------------ MODULE Library ------------------------------
(***************************************************************************)
(* The string and formatting routines of the kernel and of the user        *)
(* library, and grep.  A character is a string; Nul ends a C string and the *)
(* character with the number n is ToString(n).  Positions count from 1.    *)
(***************************************************************************)
EXTENDS Integers, Sequences, SequencesExt, FiniteSets, TLC

CONSTANT Width  \* bits of an int

Nul == "NUL"
Char(s, i) == IF i \in DOMAIN s THEN s[i] ELSE Nul

-----------------------------------------------------------------------------
(***************************************************************************)
(* printf and cprintf.                                                     *)
(***************************************************************************)
Digits == <<"0", "1", "2", "3", "4", "5", "6", "7", "8", "9", "A", "B", "C", "D", "E", "F">>
RECURSIVE digits(_, _)
digits(x, base) ==
  LET last == Digits[(x % base) + 1]
  IN  IF x \div base = 0 THEN <<last>> ELSE Append(digits(x \div base, base), last)

\* The digits come out last first into a buffer that is printed backwards.
printint(xx, base, sgn) ==
  IF sgn /\ xx < 0 THEN <<"-">> \o digits((-xx) % 2^Width, base) ELSE digits(xx % 2^Width, base)

\* The string at an address.
StringAt(a) == IF a = 0 THEN <<"(null)">> ELSE <<"string", ToString(a)>>

\* One turn of the loop of printf: st has the output, the number of
\* arguments used and whether a % came before.
printfstep(st, c, args) ==
  LET put(s) == [st EXCEPT !.out = @ \o s, !.percent = FALSE]
      arg == args[st.used + 1]
      next(s) == [put(s) EXCEPT !.used = @ + 1]
  IN  CASE ~st.percent /\ c = "%" -> [st EXCEPT !.percent = TRUE]
        [] ~st.percent /\ c # "%" -> put(<<c>>)
        [] st.percent /\ c = "d" -> next(printint(arg, 10, TRUE))
        [] st.percent /\ c \in {"x", "p"} -> next(printint(arg, 16, FALSE))
        [] st.percent /\ c = "s" -> next(StringAt(arg))
        [] st.percent /\ c = "c" -> next(<<ToString(arg)>>)
        [] st.percent /\ c = "%" -> put(<<"%">>)
        [] OTHER -> put(<<"%", c>>)

printf(fmt, args) ==
  FoldLeft(LAMBDA st, c : printfstep(st, c, args), [out |-> <<>>, used |-> 0, percent |-> FALSE], fmt).out

\* cprintf takes the character after a % in the same turn, knows no %c and
\* stops at a % that ends the format.
RECURSIVE cprintf(_, _, _)
cprintf(fmt, i, args) ==
  LET c == Char(fmt, i + 1)
      rest == cprintf(fmt, i + 2, args)
      after == cprintf(fmt, i + 2, Tail(args))
  IN  CASE Char(fmt, i) = Nul -> <<>>
        [] Char(fmt, i) \notin {"%", Nul} -> <<fmt[i]>> \o cprintf(fmt, i + 1, args)
        [] Char(fmt, i) = "%" /\ c = Nul -> <<>>
        [] Char(fmt, i) = "%" /\ c = "d" -> printint(Head(args), 10, TRUE) \o after
        [] Char(fmt, i) = "%" /\ c \in {"x", "p"} -> printint(Head(args), 16, FALSE) \o after
        [] Char(fmt, i) = "%" /\ c = "s" -> StringAt(Head(args)) \o after
        [] Char(fmt, i) = "%" /\ c = "%" -> <<"%">> \o rest
        [] OTHER -> <<"%", c>> \o rest

\* The number that digits stand for.
Value(ds, base) == FoldLeft(LAMBDA v, d : v * base + (CHOOSE i \in DOMAIN Digits : Digits[i] = d) - 1, 0, ds)
PrintsItsNumber(xx, base) ==
  LET s == printint(xx, base, TRUE)
      u == printint(xx, base, FALSE)
      ds == IF s[1] = "-" THEN Tail(s) ELSE s
  IN  /\ (IF s[1] = "-" THEN -Value(ds, base) ELSE Value(ds, base)) = xx
      /\ Value(u, base) = xx % 2^Width
      /\ Len(ds) > 1 => ds[1] # "0"

\* A % is a directive's first character if the run of % before it is even;
\* the k-th directive that takes an argument takes the k-th.
Run(fmt, i) == CHOOSE n \in 0..(i - 1) :
  (\A j \in (i - n)..(i - 1) : fmt[j] = "%") /\ (n = i - 1 \/ fmt[i - n - 1] # "%")
Opens(fmt, i) == i \in DOMAIN fmt /\ fmt[i] = "%" /\ Run(fmt, i) % 2 = 0
Takes(fmt, i) == Opens(fmt, i - 1) /\ fmt[i] \in {"d", "x", "p", "s", "c"}
Rendered(fmt, args, i) ==
  LET arg == args[Cardinality({j \in 1..i : Takes(fmt, j)})]
  IN  CASE Opens(fmt, i) -> <<>>
        [] Takes(fmt, i) /\ fmt[i] = "d" -> printint(arg, 10, TRUE)
        [] Takes(fmt, i) /\ fmt[i] \in {"x", "p"} -> printint(arg, 16, FALSE)
        [] Takes(fmt, i) /\ fmt[i] = "s" -> StringAt(arg)
        [] Takes(fmt, i) /\ fmt[i] = "c" -> <<ToString(arg)>>
        [] Opens(fmt, i - 1) /\ fmt[i] = "%" -> <<"%">>
        [] Opens(fmt, i - 1) -> <<"%", fmt[i]>>
        [] OTHER -> <<fmt[i]>>
FormatsInOrder(fmt, args) ==
  /\ printf(fmt, args) = FlattenSeq([i \in DOMAIN fmt |-> Rendered(fmt, args, i)])
  /\ (\A i \in DOMAIN fmt : ~(Opens(fmt, i - 1) /\ fmt[i] = "c")) => cprintf(fmt, 1, args) = printf(fmt, args)

-----------------------------------------------------------------------------
(***************************************************************************)
(* Memory and strings.  mem is an array.                                   *)
(***************************************************************************)
\* n bytes forwards, one after the other.
RECURSIVE forwards(_, _, _, _)
forwards(mem, d, s, n) ==
  IF n = 0 THEN mem ELSE forwards([mem EXCEPT ![d] = mem[s]], d + 1, s + 1, n - 1)
RECURSIVE backwards(_, _, _, _)
backwards(mem, d, s, n) ==
  IF n = 0 THEN mem ELSE backwards([mem EXCEPT ![d - 1] = mem[s - 1]], d - 1, s - 1, n - 1)

memmove(mem, d, s, n) ==
  IF s < d /\ s + n > d THEN backwards(mem, d + n, s + n, n) ELSE forwards(mem, d, s, n)
\* The one of the user library.
umemmove(mem, d, s, n) == forwards(mem, d, s, n)

Copied(mem, d, s, n) == [i \in DOMAIN mem |-> IF i \in d..(d + n - 1) THEN mem[s + i - d] ELSE mem[i]]
MovesMemory(mem) ==
  \A d, s \in DOMAIN mem : \A n \in 0..(Len(mem) - (IF d > s THEN d ELSE s) + 1) :
    /\ memmove(mem, d, s, n) = Copied(mem, d, s, n)
    /\ (d <= s \/ s + n <= d) => umemmove(mem, d, s, n) = Copied(mem, d, s, n)

\* The difference of the first characters that differ: equal or not.
RECURSIVE strncmp(_, _, _, _)
strncmp(p, q, i, n) ==
  IF n > 0 /\ Char(p, i) # Nul /\ Char(p, i) = Char(q, i) THEN strncmp(p, q, i + 1, n - 1)
  ELSE n = 0 \/ Char(p, i) = Char(q, i)

\* The n characters that s gets, with zeros after the end of t.
RECURSIVE strncpy(_, _, _)
strncpy(t, i, n) ==
  CASE n = 0 -> <<>>
    [] n > 0 /\ Char(t, i) = Nul -> [j \in 1..n |-> Nul]
    [] OTHER -> <<t[i]>> \o strncpy(t, i + 1, n - 1)
\* At most n - 1 characters and a zero.
RECURSIVE safestrcpy(_, _, _)
safestrcpy(t, i, n) ==
  CASE n <= 0 -> <<>>
    [] n > 0 /\ (n = 1 \/ Char(t, i) = Nul) -> <<Nul>>
    [] OTHER -> <<t[i]>> \o safestrcpy(t, i + 1, n - 1)

\* A directory entry holds a name of n characters without a zero: what
\* strncpy has put there strncmp must find again, and no other name.
First(s, n) == SubSeq(s, 1, IF Len(s) < n THEN Len(s) ELSE n)
NamesAreFound(p, q) ==
  \A n \in 1..(Len(p) + 1) :
    /\ strncmp(p, strncpy(q, 1, n), 1, n) <=> First(p, n) = First(q, n)
    /\ safestrcpy(p, 1, n) = Append(First(p, n - 1), Nul)

-----------------------------------------------------------------------------
(***************************************************************************)
(* grep.                                                                   *)
(***************************************************************************)
RECURSIVE matchhere(_, _, _, _)
RECURSIVE matchstar(_, _, _, _, _)
\* Whether re from j on matches at the start of text from i on.
matchhere(re, j, text, i) ==
  CASE Char(re, j) = Nul -> TRUE
    [] Char(re, j) # Nul /\ Char(re, j + 1) = "*" -> matchstar(re[j], re, j + 2, text, i)
    [] Char(re, j) = "$" /\ Char(re, j + 1) = Nul -> Char(text, i) = Nul
    [] OTHER -> Char(text, i) # Nul /\ re[j] \in {".", text[i]} /\ matchhere(re, j + 1, text, i + 1)

\* Zero or more c, as few as will do.
matchstar(c, re, j, text, i) ==
  \/ matchhere(re, j, text, i)
  \/ Char(text, i) # Nul /\ c \in {".", text[i]} /\ matchstar(c, re, j, text, i + 1)

\* Does not look at the empty rest of the text.
match_wrong(re, text) ==
  IF Char(re, 1) = "^" THEN matchhere(re, 2, text, 1)
  ELSE \E i \in 1..Len(text) : matchhere(re, 1, text, i)
match(re, text) ==
  IF Char(re, 1) = "^" THEN matchhere(re, 2, text, 1)
  ELSE \E i \in 1..(Len(text) + 1) : matchhere(re, 1, text, i)

\* A turn of the loop over the buffer: the lines that a newline ends are
\* matched and the rest is kept, but not if the buffer holds no newline.
Lines(s) == [k \in 1..Cardinality({i \in DOMAIN s : s[i] = "\n"}) |->
  LET ends == SetToSortSeq({i \in DOMAIN s : s[i] = "\n"}, LAMBDA a, b : a < b)
  IN  SubSeq(s, IF k = 1 THEN 1 ELSE ends[k - 1] + 1, ends[k] - 1)]
Rest(s) == LET ends == {0} \cup {i \in DOMAIN s : s[i] = "\n"}
           IN  SubSeq(s, (CHOOSE e \in ends : \A f \in ends : f <= e) + 1, Len(s))

RECURSIVE grep(_, _, _, _, _)
grep(pattern, buf, file, size, most) ==
  LET room == size - Len(buf) - 1
      n == CHOOSE k \in {room, most, Len(file)} : \A j \in {room, most, Len(file)} : k <= j
      full == buf \o SubSeq(file, 1, n)
      printed == SelectSeq(Lines(full), LAMBDA l : match(pattern, l))
      kept == IF Lines(full) = <<>> THEN <<>> ELSE Rest(full)
  IN  IF n = 0 THEN <<>> ELSE printed \o grep(pattern, kept, SubSeq(file, n + 1, Len(file)), size, most)

\* The language of a pattern, by the positions its items lead to: an item
\* is a character with or without a star.
RECURSIVE Items(_, _)
Items(re, j) ==
  CASE j > Len(re) -> <<>>
    [] Char(re, j + 1) = "*" -> <<[c |-> re[j], star |-> TRUE]>> \o Items(re, j + 2)
    [] j = Len(re) /\ re[j] = "$" -> <<[c |-> "end", star |-> FALSE]>>
    [] OTHER -> <<[c |-> re[j], star |-> FALSE]>> \o Items(re, j + 1)
Fits(c, x) == c \in {".", x}
After(text, from, item) ==
  CASE item.c = "end" -> from \cap {Len(text) + 1}
    [] item.star -> {e \in 1..(Len(text) + 1) : \E i \in from : i <= e /\ \A k \in i..(e - 1) : Fits(item.c, text[k])}
    [] OTHER -> {i + 1 : i \in {k \in from : k <= Len(text) /\ Fits(item.c, text[k])}}
Matches(re, text) ==
  LET anchored == Char(re, 1) = "^"
      from == IF anchored THEN {1} ELSE 1..(Len(text) + 1)
  IN  FoldLeft(LAMBDA S, item : After(text, S, item), from, Items(re, IF anchored THEN 2 ELSE 1)) # {}

\* grep prints the lines that match, those that end with a newline and are
\* not longer than the buffer, if every read gives what it is asked for.
FindsTheLines(pattern, file, size) ==
  (\A l \in Range(Lines(file)) \cup {Rest(file)} : Len(l) + 1 < size) =>
    grep(pattern, <<>>, file, size, size) = SelectSeq(Lines(file), LAMBDA l : Matches(pattern, l))
=============================================================================
