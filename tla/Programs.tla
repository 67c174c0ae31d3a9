------------------------------ MODULE Programs ------------------------------
(***************************************************************************)
(* init, the shell and the small commands as programs over the system      *)
(* calls.  argv[1] is the command, as in the source argv[0].               *)
(***************************************************************************)
EXTENDS Script, SequencesExt, TLC

CONSTANT
  ParseCmd(_)  \* the shell's parser, of module Shell

\* In the children of a pipeline: the end `p` becomes descriptor fd, and
\* both ends of the parent are closed.
PipeEnd(fd, p) == <<Close(fd), Do("dup", <<p>>), Close("p0"), Close("p1")>>

RECURSIVE runcmd(_)
runcmd(cmd) ==
  CASE cmd.type = "EXEC" ->
         (IF cmd.argv = <<>> THEN <<>> ELSE <<Do("exec", <<<<cmd.argv[1]>>, cmd.argv>>)>>) \o ExitNow
    [] cmd.type = "REDIR" ->
         <<Close(cmd.fd), If(OpenFile("r", <<cmd.file>>, cmd.mode), Err, ExitNow, <<>>)>> \o runcmd(cmd.cmd)
    [] cmd.type = "LIST" -> <<Fork(runcmd(cmd.left)), Wait>> \o runcmd(cmd.right)
    [] cmd.type = "PIPE" ->
         <<Must("pipe", <<>>),
           Fork(PipeEnd("1", "p1") \o runcmd(cmd.left)),
           Fork(PipeEnd("0", "p0") \o runcmd(cmd.right)),
           Close("p0"), Close("p1"), Wait, Wait>> \o ExitNow
    [] cmd.type = "BACK" -> <<Fork(runcmd(cmd.cmd))>> \o ExitNow
    [] cmd.type = "panic" -> ExitNow

\* The shell opens the console until it has three descriptors, then reads
\* a line at a time.  A line, as Shell has them, is for cd, which the shell
\* does itself, or for a child, which parses it.
sh(lines) ==
  LET line(l) == IF SubSeq(l, 1, 3) = <<"c", "d", " ">> THEN <<Do("chdir", <<SubSeq(l, 4, Len(l))>>)>>
                 ELSE <<Fork(runcmd(ParseCmd(l))), Wait>>
  IN  <<While(OpenFile("fd", <<"console">>, {"RDWR"}), <<0, 2>>, <<>>), Close("fd")>>
      \o FlattenSeq([j \in DOMAIN lines |-> <<Gives(1, Do("read", <<"0", 1>>))>> \o line(lines[j])])

\* init gives the console to descriptors 0, 1 and 2, starts the shell and
\* from then on waits for whatever ends.
init(child) ==
  <<If(OpenFile("fd", <<"console">>, {"RDWR"}), Err,
       <<Do("mknod", <<<<"console">>>>), OpenFile("fd", <<"console">>, {"RDWR"})>>, <<>>),
    Do("dup", <<"0">>), Do("dup", <<"0">>), Fork(child), While(Wait, AnyResult, <<>>)>>

\* Copies what fd gives to descriptor 1, a unit at a time.
cat(fd) == <<While(Must("read", <<fd, 1>>), Positive, <<If(Do("write", <<"1", <<"$buf">>>>), Err, ExitNow, <<>>)>>)>>
\* Prints the number of units.
wc(fd) == <<ReadAll(fd), Do("write", <<"1", <<"$len">>>>)>>

\* A filter over the files of its arguments, or over descriptor 0.
Filter(body(_), argv) ==
  IF Len(argv) = 1 THEN body("0")
  ELSE FlattenSeq([j \in 1..(Len(argv) - 1) |->
         <<If(OpenFile("fd", <<argv[j + 1]>>, {}), Err, ExitNow, <<>>)>> \o body("fd") \o <<Close("fd")>>])

\* Prints the arguments.
echo(argv) == [j \in 1..(Len(argv) - 1) |-> Do("write", <<"1", <<argv[j + 1]>>>>)]

\* Opens and looks at the file, and at its entries if it is a directory.
ls(argv) ==
  LET path == IF Len(argv) = 1 THEN <<".">> ELSE <<argv[2]>>
  IN  <<If(OpenFile("fd", path, {}), Err, ExitNow, <<>>), If(Do("fstat", <<"fd">>), Err, <<Close("fd")>> \o ExitNow, <<>>),
        Do("read", <<"fd", 99>>), Close("fd")>>

\* The call for each argument, until one fails.
EachArg(op, argv) ==
  FlattenSeq([j \in 1..(Len(argv) - 1) |-> <<If(Do(op, <<<<argv[j + 1]>>>>), Err, ExitNow, <<>>)>>])

ln(argv) == IF Len(argv) = 3 THEN <<Do("link", <<<<argv[2]>>, <<argv[3]>>>>)>> ELSE <<>>

\* The parent leaves before or after the child: init reaps either.
zombie == <<If(Do("fork", <<<<>>>>), Ok, <<Do("sleep", <<>>)>>, <<>>)>>

\* A chain of processes, each writing and reading a file of its own.
RECURSIVE stressfs(_, _)
stressfs(i, last) ==
  LET path == <<"stressfs" \o ToString(i)>>
  IN  (IF i < last THEN <<Do("fork", <<stressfs(i + 1, last)>>)>> ELSE <<>>)
      \o <<OpenFile("fd", path, {"CREATE", "RDWR"}), Do("write", <<"fd", <<"a">>>>), Do("write", <<"fd", <<"a">>>>),
           Close("fd"), OpenFile("fd", path, {}), Do("read", <<"fd", 1>>), Do("read", <<"fd", 1>>),
           Close("fd"), Wait>>

\* The code of a program file; <<>> if the contents are no program.
exec(data, argv) ==
  CASE data = <<"cat">> -> Filter(cat, argv) \o ExitNow
    [] data = <<"wc">> -> Filter(wc, argv) \o ExitNow
    [] data = <<"echo">> -> echo(argv) \o ExitNow
    [] data = <<"ls">> -> ls(argv) \o ExitNow
    [] data = <<"rm">> -> EachArg("unlink", argv) \o ExitNow
    [] data = <<"mkdir">> -> EachArg("mkdir", argv) \o ExitNow
    [] data = <<"ln">> -> ln(argv) \o ExitNow
    [] data = <<"zombie">> -> zombie \o ExitNow
    [] data = <<"stressfs">> -> stressfs(0, 1) \o ExitNow
    [] OTHER -> <<>>
=============================================================================
