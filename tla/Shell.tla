------------------------------- MODULE Shell -------------------------------
(***************************************************************************)
(* The parser of the shell.  A line is a sequence of characters, where a   *)
(* character that is neither white space nor a symbol may be any string.   *)
(* A word is the pair <<q, eq>> of its first position and the one after    *)
(* its last, as the source points into the buffer; texts replaces it by    *)
(* the string that stands there.  Positions count from 1.                  *)
(***************************************************************************)
EXTENDS Integers, Sequences, SequencesExt, FiniteSets, FiniteSetsExt

CONSTANT MAXARGS

Whitespace == {" "}
Symbols == {"<", "|", ">", "&", ";", "(", ")"}

EXEC(argv) == [type |-> "EXEC", argv |-> argv]
REDIR(cmd, file, mode, fd) == [type |-> "REDIR", cmd |-> cmd, file |-> file, mode |-> mode, fd |-> fd]
PIPE(left, right) == [type |-> "PIPE", left |-> left, right |-> right]
LIST(left, right) == [type |-> "LIST", left |-> left, right |-> right]
BACK(cmd) == [type |-> "BACK", cmd |-> cmd]

\* The parser stopped the shell's child with a message.
Panic == [type |-> "panic"]
Failed(cmd) == cmd.type = "panic"

At(line, s) == IF s \in DOMAIN line THEN line[s] ELSE "eof"
InWord(line, s) == s \in DOMAIN line /\ line[s] \notin Whitespace \cup Symbols

skip(line, s) == Min({q \in s..(Len(line) + 1) : At(line, q) \notin Whitespace})
wordend(line, s) == Min({q \in s..(Len(line) + 1) : ~InWord(line, q)})

\* The token at s: its kind, where it stands and where the next one is.
gettoken(line, s) ==
  LET q == skip(line, s)
      kind == IF InWord(line, q) THEN "a"
              ELSE IF At(line, q) = ">" /\ At(line, q + 1) = ">" THEN "+"
              ELSE At(line, q)
      eq == CASE kind = "eof" -> q
              [] kind = "a" -> wordend(line, q)
              [] kind = "+" -> q + 2
              [] OTHER -> q + 1
  IN  [kind |-> kind, word |-> <<q, eq>>, next |-> skip(line, eq)]

peek(line, s, toks) == At(line, skip(line, s)) \in toks

\* The redirection of cmd that an arrow and a file name stand for.
Redirect(cmd, r) ==
  IF r.arrow = "<" THEN REDIR(cmd, r.file, {}, "0") ELSE REDIR(cmd, r.file, {"WRONLY", "CREATE"}, "1")
RECURSIVE Times(_, _)
Times(n, cmd) == IF n = 0 THEN cmd ELSE BACK(Times(n - 1, cmd))

\* What a parsing function gives: a value and the position after it.  The
\* words and redirections of an EXEC are collected first; the redirections
\* are put around it in the order in which they stand.
Parsed(val, s) == [bad |-> FALSE, val |-> val, s |-> s]
Bad == [bad |-> TRUE]
Execcmd(words, redirs) == FoldLeft(Redirect, EXEC(words), redirs)

\* The parsing functions of the line, by their names and positions.
Parse(line) ==
  LET end == Len(line) + 1
      After(s) == gettoken(line, s).next
      p[f \in {"parseredirs", "parseargs", "parseexec", "parsepipe", "parseback", "parseline"}, s \in 1..end] ==
    CASE f = "parseredirs" ->
           LET tok == gettoken(line, s)
               file == gettoken(line, tok.next)
               more == p["parseredirs", file.next]
           IN  IF ~peek(line, s, {"<", ">"}) THEN Parsed(<<>>, s)
               ELSE IF file.kind # "a" \/ more.bad THEN Bad
               ELSE Parsed(<<[arrow |-> tok.kind, file |-> file.word]>> \o more.val, more.s)
      [] f = "parseargs" ->
           LET tok == gettoken(line, s)
               redirs == p["parseredirs", tok.next]
               more == p["parseargs", redirs.s]
           IN  IF peek(line, s, {"|", ")", "&", ";"}) \/ tok.kind = "eof" THEN Parsed([words |-> <<>>, redirs |-> <<>>], s)
               ELSE IF tok.kind # "a" \/ redirs.bad \/ more.bad THEN Bad
               ELSE Parsed([words |-> <<tok.word>> \o more.val.words, redirs |-> redirs.val \o more.val.redirs], more.s)
      [] f = "parseexec" /\ peek(line, s, {"("}) ->
           LET body == p["parseline", After(s)]
               redirs == p["parseredirs", After(body.s)]
           IN  IF body.bad \/ ~peek(line, body.s, {")"}) \/ redirs.bad THEN Bad
               ELSE Parsed(FoldLeft(Redirect, body.val, redirs.val), redirs.s)
      [] f = "parseexec" /\ ~peek(line, s, {"("}) ->
           LET redirs == p["parseredirs", s]
               args == p["parseargs", redirs.s]
           IN  IF redirs.bad \/ args.bad \/ Len(args.val.words) >= MAXARGS THEN Bad
               ELSE Parsed(Execcmd(args.val.words, redirs.val \o args.val.redirs), args.s)
      [] f = "parsepipe" ->
           LET left == p["parseexec", s]
               right == p["parsepipe", After(left.s)]
           IN  IF left.bad \/ ~peek(line, left.s, {"|"}) THEN left
               ELSE IF right.bad THEN Bad ELSE Parsed(PIPE(left.val, right.val), right.s)
      [] f = "parseback" ->
           LET more == p["parseback", After(s)]
           IN  IF peek(line, s, {"&"}) THEN Parsed(more.val + 1, more.s) ELSE Parsed(0, s)
      [] f = "parseline" ->
           LET pipe == p["parsepipe", s]
               back == p["parseback", pipe.s]
               job == Times(back.val, pipe.val)
               rest == p["parseline", After(back.s)]
           IN  IF pipe.bad THEN Bad
               ELSE IF ~peek(line, back.s, {";"}) THEN Parsed(job, back.s)
               ELSE IF rest.bad THEN Bad ELSE Parsed(LIST(job, rest.val), rest.s)
  IN  p["parseline", 1]

\* The positions that get a 0: those after the words.
RECURSIVE nulterminate(_)
nulterminate(cmd) ==
  CASE cmd.type = "EXEC" -> {w[2] : w \in Range(cmd.argv)}
    [] cmd.type = "REDIR" -> nulterminate(cmd.cmd) \cup {cmd.file[2]}
    [] cmd.type \in {"PIPE", "LIST"} -> nulterminate(cmd.left) \cup nulterminate(cmd.right)
    [] cmd.type = "BACK" -> nulterminate(cmd.cmd)

\* The string that starts at q, in a line with zeros.
RECURSIVE text(_, _, _)
text(line, zeros, q) ==
  IF q \in DOMAIN line /\ q \notin zeros THEN line[q] \o text(line, zeros, q + 1) ELSE ""

RECURSIVE texts(_, _, _)
texts(line, zeros, cmd) ==
  CASE cmd.type = "EXEC" -> EXEC([i \in DOMAIN cmd.argv |-> text(line, zeros, cmd.argv[i][1])])
    [] cmd.type = "REDIR" -> [cmd EXCEPT !.cmd = texts(line, zeros, @), !.file = text(line, zeros, @[1])]
    [] cmd.type = "BACK" -> BACK(texts(line, zeros, cmd.cmd))
    [] OTHER -> [cmd EXCEPT !.left = texts(line, zeros, @), !.right = texts(line, zeros, @)]

\* The command of a line, with its words as runcmd sees them.
Terminated(line, r) ==
  IF r.bad \/ (~r.bad /\ At(line, skip(line, r.s)) # "eof") THEN Panic
  ELSE texts(line, nulterminate(r.val), r.val)
parsecmd(line) == Terminated(line, Parse(line))

-----------------------------------------------------------------------------
(***************************************************************************)
(* The language of the shell, by its grammar:                              *)
(*   line   ::= job | job ";" line        job  ::= pipe | job "&"          *)
(*   pipe   ::= exec | exec "|" pipe      exec ::= simple | block redir*   *)
(*   block  ::= "(" line ")"              simple ::= (word | redir)*       *)
(* Grammar(toks)[n, i, j] is the set of the commands that the tokens i to  *)
(* j (symbols and words) stand for as an n.                                *)
(***************************************************************************)
Arrows == {"<", ">", ">>"}
IsWord(t) == t \notin Symbols \cup {">>"}

\* The words and the redirections of a simple command.
SimpleOf(toks, i, j) ==
  LET Named(k) == k > i /\ toks[k - 1] \in Arrows
      words == {k \in i..j : IsWord(toks[k]) /\ ~Named(k)}
      files == {k \in i..j : IsWord(toks[k]) /\ Named(k)}
      List(S, Item(_)) == [n \in 1..Cardinality(S) |-> Item(CHOOSE k \in S : Cardinality({l \in S : l <= k}) = n)]
  IN  IF {k \in i..j : ~IsWord(toks[k])} # {k - 1 : k \in files} \/ Cardinality(words) >= MAXARGS THEN {}
      ELSE {Execcmd(List(words, LAMBDA k : toks[k]),
                    List(files, LAMBDA k : [arrow |-> toks[k - 1], file |-> toks[k]]))}

Grammar(toks) ==
  LET g[n \in {"line", "job", "pipe", "exec", "block"}, i \in 1..(Len(toks) + 1), j \in 0..Len(toks)] ==
        LET Around(t, l, r, Make(_, _)) ==
              UNION {{Make(a, b) : a \in g[l, i, k - 1], b \in g[r, k + 1, j]} : k \in {k \in i..j : toks[k] = t}}
        IN  CASE n = "line" -> g["job", i, j] \cup Around(";", "job", "line", LIST)
              [] n = "job" ->
                   g["pipe", i, j] \cup (IF i <= j /\ toks[j] = "&" THEN {BACK(c) : c \in g["job", i, j - 1]} ELSE {})
              [] n = "pipe" -> g["exec", i, j] \cup Around("|", "exec", "pipe", PIPE)
              [] n = "exec" -> SimpleOf(toks, i, j) \cup g["block", i, j]
              [] n = "block" ->
                   IF i >= j THEN {}
                   ELSE IF toks[i] = "(" /\ toks[j] = ")" THEN g["line", i + 1, j - 1]
                   ELSE IF IsWord(toks[j]) /\ toks[j - 1] \in Arrows
                   THEN {Redirect(c, [arrow |-> toks[j - 1], file |-> toks[j]]) : c \in g["block", i, j - 2]}
                   ELSE {}
  IN  g["line", 1, Len(toks)]

\* A line has at most one reading, and the parser finds it: neither the
\* order in which the functions look ahead nor the zeros that end the words
\* make it refuse, or read in another way, a line of the grammar.
OnlyReading(cmd, readings) == readings = {cmd} \/ (readings = {} /\ cmd = Panic)
ParsesTheGrammar(line, toks) == OnlyReading(parsecmd(line), Grammar(toks))
=============================================================================
