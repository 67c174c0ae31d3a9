---------------------------- MODULE MCUsertests ----------------------------
(***************************************************************************)
(* The tests of usertests.c and command lines of the shell, each from a    *)
(* fresh disk.                                                             *)
(***************************************************************************)
EXTENDS Syscalls, Usertests, Programs

Binary(name) == [name |-> name, data |-> <<name>>]
MCImage == <<[name |-> "README", data |-> <<"x", "v6">>], Binary("echo"), Binary("cat"), Binary("wc"),
             Binary("zombie"), Binary("init"), Binary("ls"), Binary("rm"), Binary("mkdir"), Binary("ln"),
             Binary("stressfs")>>
MCLongNames == ("123456789012345" :> "12345678901234")

\* The command line, then a look at the file it wrote.
Ran(lines, expected) ==
  sh(lines) \o <<Reads("fd", <<"out">>), ReadAll("fd"), Gives(0, Do("bufis", <<expected>>)), Close("fd")>>

CONSTANT MAXARGS
Parser == INSTANCE Shell

\* The line of the words w, with a space after each.
Typed(w) == FlattenSeq([i \in DOMAIN w |-> <<w[i], " ">>])

\* The lines that are typed, and what the parser makes of them.
ToOut(cmd) == Parser!REDIR(cmd, "out", {"WRONLY", "CREATE"}, "1")
FromReadme(cmd) == Parser!REDIR(cmd, "README", {}, "0")
Cat == Parser!EXEC(<<"cat">>)
Wc == Parser!EXEC(<<"wc">>)
MCLines ==
  << [words |-> <<"cat", "README", "|", "wc", ">", "out">>,
      cmd |-> Parser!PIPE(Parser!EXEC(<<"cat", "README">>), ToOut(Wc))],
     [words |-> <<"zombie", "&", ";", "cat", ">", "out", "<", "README">>,
      cmd |-> Parser!LIST(Parser!BACK(Parser!EXEC(<<"zombie">>)), FromReadme(ToOut(Cat)))],
     [words |-> <<"cat", "<", "README", "|", "cat", "|", "wc", ">", "out">>,
      cmd |-> Parser!PIPE(FromReadme(Cat), Parser!PIPE(Cat, ToOut(Wc)))],
     [words |-> <<"mkdir", "d">>, cmd |-> Parser!EXEC(<<"mkdir", "d">>)],
     [words |-> <<"ln", "README", "f", ";", "rm", "f", "d", "x", ";", "ls", "d">>,
      cmd |-> Parser!LIST(Parser!EXEC(<<"ln", "README", "f">>),
                          Parser!LIST(Parser!EXEC(<<"rm", "f", "d", "x">>), Parser!EXEC(<<"ls", "d">>)))],
     [words |-> <<"ls", ")">>, cmd |-> Parser!Panic],
     [words |-> <<"(", "ls", ";", "stressfs", ")">>,
      cmd |-> Parser!LIST(Parser!EXEC(<<"ls">>), Parser!EXEC(<<"stressfs">>))] >>
ASSUME LinesAreParsed == \A i \in DOMAIN MCLines : Parser!parsecmd(Typed(MCLines[i].words)) = MCLines[i].cmd

\* The parser on these lines; the assumption says that it is Shell's.
MCparsecmd(line) == MCLines[CHOOSE i \in DOMAIN MCLines : Typed(MCLines[i].words) = line].cmd
L(i) == Typed(MCLines[i].words)

Shell1 == Ran(<<L(1)>>, <<"2">>)
Shell2 == Ran(<<L(2)>>, <<"x", "v6">>)
Shell3 == Ran(<<L(3)>>, <<"2">>)
Shell4 == sh(<<L(4), L(5)>>)
Shell5 == sh(<<L(6), L(7)>>)

\* All descriptors taken: pipe finds none, then only one, and open none; a
\* pipe without a reader still takes what fits.
FullTable ==
  <<While(Do("dup", <<"0">>), Ok, <<>>),
    Mustnt("pipe", <<>>), Mustnt("open", <<<<"README">>, {}>>),
    Close("2"), Mustnt("pipe", <<>>), Reads("fd", <<"README">>), Close("fd"),
    Close("1"), Gives(0, Do("pipe", <<>>)), Close("p0"), Mustnt("write", <<"p1", <<"x", "y">>>>)>>

MCPrograms == Tests \o <<Shell1, Shell2, Shell3, Shell4, Shell5, FullTable>>
MCBoot == [j \in DOMAIN MCPrograms |-> init(MCPrograms[j])]
=============================================================================
