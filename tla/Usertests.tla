----------------------------- MODULE Usertests -----------------------------
(***************************************************************************)
(* The tests of usertests.c as programs over the system calls.  A check    *)
(* whose failure the test reports is the set of results it accepts; loops  *)
(* over many files or processes are cut to a few turns, the file names and *)
(* the order of the calls are the source's.                                *)
(***************************************************************************)
EXTENDS Script, SequencesExt, TLC

CONSTANTS
  FileUnits,  \* MAXFILE
  Slots       \* processes that can be forked before the table is full

\* Bounds on the loops of the tests.
N == 2

Times(n, code) == FlattenSeq([i \in 1..n |-> code])
\* code(0) \o ... \o code(n - 1)
For(n, code(_)) == FlattenSeq([i \in 1..n |-> code(i - 1)])
Numbered(letter, i) == <<letter \o ToString(i)>>

iputtest ==
  <<Must("mkdir", <<<<"iputdir">>>>), Must("chdir", <<<<"iputdir">>>>),
    Must("unlink", <<<<"..", "iputdir">>>>), Must("chdir", <<Root>>)>>

exitiputtest ==
  <<Fork(<<Must("mkdir", <<<<"iputdir">>>>), Must("chdir", <<<<"iputdir">>>>),
           Must("unlink", <<<<"..", "iputdir">>>>)>>),
    Wait>>

openiputtest ==
  <<Must("mkdir", <<<<"oidir">>>>),
    Fork(<<Mustnt("open", <<<<"oidir">>, {"RDWR"}>>)>>),
    Do("sleep", <<>>), Gives(0, Unlink(<<"oidir">>)), Wait>>

opentest ==
  <<Reads("fd", <<"echo">>), Close("fd"), Mustnt("open", <<<<"doesnotexist">>, {}>>)>>

writetest ==
  <<Create("fd", <<"small">>)>>
  \o Times(N, <<Write("fd", <<"aaaaaaaaaa">>), Write("fd", <<"bbbbbbbbbb">>)>>)
  \o <<Close("fd"), Reads("fd", <<"small">>), Gives(2 * N, Do("read", <<"fd", 2 * N>>)),
       Close("fd"), Must("unlink", <<<<"small">>>>)>>

\* Fills a file up to MAXFILE blocks and reads it back block by block.
writetest1 ==
  <<Create("fd", <<"big">>)>>
  \o For(FileUnits, LAMBDA i : <<Write("fd", <<ToString(i)>>)>>)
  \o <<Close("fd"), Reads("fd", <<"big">>), ReadAll("fd"),
       Gives(0, Do("bufis", <<[i \in 1..FileUnits |-> ToString(i - 1)]>>)),
       Close("fd"), Must("unlink", <<<<"big">>>>)>>

createtest ==
  For(N, LAMBDA i : <<OpenFile("fd", Numbered("a", i), {"CREATE", "RDWR"}), Close("fd")>>)
  \o For(N, LAMBDA i : <<Unlink(Numbered("a", i))>>)

dirtest ==
  <<Must("mkdir", <<<<"dir0">>>>), Must("chdir", <<<<"dir0">>>>), Must("chdir", <<<<"..">>>>),
    Must("unlink", <<<<"dir0">>>>)>>

exectest == <<Must("exec", <<<<"echo">>, <<"echo", "ALL", "TESTS", "PASSED">>>>)>>

\* The child writes more than the pipe holds, the parent reads to the end.
pipe1 ==
  LET sent(n) == [i \in 1..3 |-> ToString(3 * n + i)]
  IN  <<Gives(0, Do("pipe", <<>>)),
        Fork(<<Close("p0")>> \o For(N, LAMBDA n : <<Write("p1", sent(n))>>)),
        Close("p1"),
        ReadAll("p0"),
        Gives(0, Do("bufis", <<sent(0) \o sent(1)>>)),
        Close("p0"), Wait>>

preempt ==
  <<To("pid1", Fork(<<Do("spin", <<>>)>>)),
    To("pid2", Fork(<<Do("spin", <<>>)>>)),
    Do("pipe", <<>>),
    To("pid3", Fork(<<Close("p0"), Write("p1", <<"x">>), Close("p1"), Do("spin", <<>>)>>)),
    Close("p1"),
    Gives(1, Do("read", <<"p0", 8>>)),
    Close("p0"),
    Do("kill", <<"pid1">>), Do("kill", <<"pid2">>), Do("kill", <<"pid3">>),
    Wait, Wait, Wait>>

exitwait ==
  Times(N, <<To("pid", Fork(<<>>)), To("wpid", Wait), Gives(0, Do("same", <<"pid", "wpid">>))>>)

\* Two processes write through one descriptor: the offset is shared.
sharedfd ==
  LET writes(c) == Times(N, <<Write("fd", <<c>>)>>)
  IN  <<Unlink(<<"sharedfd">>), Create("fd", <<"sharedfd">>), Fork(writes("c"))>>
      \o writes("p")
      \o <<Wait, Close("fd"), Reads("fd", <<"sharedfd">>), ReadAll("fd"), Close("fd"),
           Unlink(<<"sharedfd">>),
           Gives(N, Do("bufhas", <<"c">>)), Gives(N, Do("bufhas", <<"p">>))>>

fourfiles ==
  LET name(pi) == Numbered("f", pi)
      kids == N
  IN  For(kids, LAMBDA pi :
        <<Unlink(name(pi)),
          Fork(<<Create("fd", name(pi))>> \o Times(N, <<Write("fd", <<ToString(pi)>>)>>))>>)
      \o Times(kids, <<Wait>>)
      \o For(2, LAMBDA i :
           <<OpenFile("fd", name(i), {}), ReadAll("fd"),
             Gives(0, Do("bufis", <<[j \in 1..N |-> ToString(i)]>>)),
             Close("fd"), Unlink(name(i))>>)

\* Two children create four files each and delete some of them again; the
\* last loop of the source unlinks by a name that does not depend on pi.
createdelete ==
  LET letters == <<"p", "q", "r", "s">>
      name(pi, i) == Numbered(letters[pi + 1], i)
      files == 4
      exists(i) == i = 0 \/ i >= files \div 2
  IN  For(N, LAMBDA pi :
        <<Fork(For(files, LAMBDA i :
            <<Create("fd", name(pi, i)), Close("fd")>>
            \o IF i > 0 /\ i % 2 = 0 THEN <<Must("unlink", <<name(pi, i \div 2)>>)>> ELSE <<>>))>>)
      \o Times(N, <<Wait>>)
      \o For(files, LAMBDA i : For(N, LAMBDA pi :
           IF exists(i) THEN <<Reads("fd", name(pi, i)), Close("fd")>>
                        ELSE <<Mustnt("open", <<name(pi, i), {}>>)>>))
      \o For(files, LAMBDA i : Times(N, <<Unlink(name(i, i))>>))

unlinkread ==
  <<Create("fd", <<"unlinkread">>), Do("write", <<"fd", <<"h", "ello">>>>), Close("fd"),
    To("fd", Must("open", <<<<"unlinkread">>, {"RDWR"}>>)),
    Gives(0, Unlink(<<"unlinkread">>)),
    OpenFile("fd1", <<"unlinkread">>, {"CREATE", "RDWR"}), Do("write", <<"fd1", <<"yyy">>>>), Close("fd1"),
    Gives(2, Do("read", <<"fd", 4>>)),
    Gives(0, Do("bufis", <<<<"h", "ello">>>>)),
    Write("fd", <<"h", "ello">>),
    Close("fd"), Unlink(<<"unlinkread">>)>>

linktest ==
  <<Unlink(<<"lf1">>), Unlink(<<"lf2">>),
    Create("fd", <<"lf1">>), Write("fd", <<"hello">>), Close("fd"),
    Must("link", <<<<"lf1">>, <<"lf2">>>>), Unlink(<<"lf1">>),
    Mustnt("open", <<<<"lf1">>, {}>>),
    Reads("fd", <<"lf2">>), Gives(1, Do("read", <<"fd", 4>>)), Close("fd"),
    Mustnt("link", <<<<"lf2">>, <<"lf2">>>>), Unlink(<<"lf2">>),
    Mustnt("link", <<<<"lf2">>, <<"lf1">>>>),
    Mustnt("link", <<<<".">>, <<"lf1">>>>)>>

\* Parent and child create, link and unlink the same names at once; the
\* directory must then list every name once.
concreate ==
  LET files == 3
      file(i) == Numbered("C", i)
      make(i, links) ==
        IF links THEN <<Do("link", <<file(0), file(i)>>)>> ELSE <<Create("fd", file(i)), Close("fd")>>
      use(i, opens) ==
        IF opens THEN Times(N, <<OpenFile("fd", file(i), {}), Close("fd")>>) ELSE Times(N, <<Unlink(file(i))>>)
  IN  For(files, LAMBDA i :
        <<Unlink(file(i)), Fork(make(i, i % 5 = 1))>> \o make(i, i % 3 = 1) \o <<Wait>>)
      \o <<OpenFile("fd", <<".">>, {}), Do("read", <<"fd", 99>>), Close("fd")>>
      \o For(files, LAMBDA i : <<Gives(1, Do("bufhas", <<file(i)[1]>>))>>)
      \o For(files, LAMBDA i : <<Fork(use(i, i % 3 = 0))>> \o use(i, i % 3 = 1) \o <<Wait>>)

\* The pseudo-random choice of the source is left open.
linkunlink ==
  LET loop == Times(N, <<Choose(<<<<OpenFile("fd", <<"x">>, {"RDWR", "CREATE"}), Close("fd")>>,
                                 <<Do("link", <<<<"cat">>, <<"x">>>>)>>,
                                 <<Unlink(<<"x">>)>>>>)>>)
  IN  <<Unlink(<<"x">>), Fork(loop)>> \o loop \o <<Wait>>

bigdir ==
  <<Unlink(<<"bd">>), To("fd", Must("open", <<<<"bd">>, {"CREATE"}>>)), Close("fd")>>
  \o For(N, LAMBDA i : <<Gives(0, Do("link", <<<<"bd">>, Numbered("x", i)>>))>>)
  \o <<Unlink(<<"bd">>)>>
  \o For(N, LAMBDA i : <<Gives(0, Unlink(Numbered("x", i)))>>)

subdir ==
  LET dd == <<"dd">>
      ddff == <<"dd", "ff">>
      ddffff == <<"dd", "ff", "ff">>
      ddxxff == <<"dd", "xx", "ff">>
      dddd == <<"dd", "dd">>
      ddddff == <<"dd", "dd", "ff">>
      ddddxx == <<"dd", "dd", "xx">>
      link2 == <<"dd", "dd", "ffff">>
      rw == {"CREATE", "RDWR"}
  IN  <<Unlink(<<"ff">>), Gives(0, Do("mkdir", <<dd>>)),
        Create("fd", ddff), Do("write", <<"fd", <<"f", "f">>>>), Close("fd"),
        Mustnt("unlink", <<dd>>), Gives(0, Do("mkdir", <<<<"/", "dd", "dd">>>>)),
        Create("fd", ddddff), Do("write", <<"fd", <<"F", "F">>>>), Close("fd"),
        Reads("fd", <<"dd", "dd", "..", "ff">>), Gives(2, Do("read", <<"fd", 8>>)),
        Gives(0, Do("bufis", <<<<"f", "f">>>>)), Close("fd"),
        Gives(0, Do("link", <<ddddff, link2>>)), Gives(0, Unlink(ddddff)),
        Mustnt("open", <<ddddff, {}>>),
        Gives(0, Do("chdir", <<dd>>)), Gives(0, Do("chdir", <<<<"dd", "..", "..", "dd">>>>)),
        Gives(0, Do("chdir", <<<<"dd", "..", "..", "..", "dd">>>>)),
        Gives(0, Do("chdir", <<<<".", "..">>>>)),
        Reads("fd", link2), Gives(2, Do("read", <<"fd", 8>>)), Close("fd"),
        Mustnt("open", <<ddddff, {}>>), Mustnt("open", <<ddffff, rw>>), Mustnt("open", <<ddxxff, rw>>),
        Mustnt("open", <<dd, {"CREATE"}>>), Mustnt("open", <<dd, {"RDWR"}>>),
        Mustnt("open", <<dd, {"WRONLY"}>>),
        Mustnt("link", <<ddffff, ddddxx>>), Mustnt("link", <<ddxxff, ddddxx>>),
        Mustnt("link", <<ddff, link2>>),
        Mustnt("mkdir", <<ddffff>>), Mustnt("mkdir", <<ddxxff>>), Mustnt("mkdir", <<link2>>),
        Mustnt("unlink", <<ddxxff>>), Mustnt("unlink", <<ddffff>>),
        Mustnt("chdir", <<ddff>>), Mustnt("chdir", <<<<"dd", "xx">>>>),
        Gives(0, Unlink(link2)), Gives(0, Unlink(ddff)), Mustnt("unlink", <<dd>>),
        Must("unlink", <<dddd>>), Must("unlink", <<dd>>)>>

\* Writes within a transaction and of more than one.
bigwrite ==
  <<Unlink(<<"bigwrite">>)>>
  \o For(2, LAMBDA i :
       LET data == [j \in 1..(1 + 2 * i) |-> "b"]
       IN  <<Create("fd", <<"bigwrite">>), Write("fd", data), Write("fd", data), Close("fd"),
             Unlink(<<"bigwrite">>)>>)

\* Written by 600 bytes, read by 300.
bigfile ==
  <<Unlink(<<"bigfile">>), Create("fd", <<"bigfile">>)>>
  \o For(N, LAMBDA i : <<Write("fd", <<ToString(i), ToString(i)>>)>>)
  \o <<Close("fd"), Reads("fd", <<"bigfile">>), ReadAll("fd"),
       Gives(0, Do("bufis", <<[j \in 1..(2 * N) |-> ToString((j - 1) \div 2)]>>)),
       Close("fd"), Unlink(<<"bigfile">>)>>

fourteen ==
  LET a == "12345678901234"
      b == "123456789012345"
  IN  <<Gives(0, Do("mkdir", <<<<a>>>>)), Gives(0, Do("mkdir", <<<<a, b>>>>)),
        To("fd", Must("open", <<<<b, b, b>>, {"CREATE"}>>)), Close("fd"),
        Reads("fd", <<a, a, a>>), Close("fd"),
        Mustnt("mkdir", <<<<a, a>>>>), Mustnt("mkdir", <<<<b, a>>>>)>>

rmdot ==
  <<Gives(0, Do("mkdir", <<<<"dots">>>>)), Gives(0, Do("chdir", <<<<"dots">>>>)),
    Mustnt("unlink", <<<<".">>>>), Mustnt("unlink", <<<<"..">>>>),
    Gives(0, Do("chdir", <<Root>>)),
    Mustnt("unlink", <<<<"dots", ".">>>>), Mustnt("unlink", <<<<"dots", "..">>>>),
    Gives(0, Unlink(<<"dots">>))>>

dirfile ==
  LET xx == <<"dirfile", "xx">>
  IN  <<To("fd", Must("open", <<<<"dirfile">>, {"CREATE"}>>)), Close("fd"),
        Mustnt("chdir", <<<<"dirfile">>>>), Mustnt("open", <<xx, {}>>), Mustnt("open", <<xx, {"CREATE"}>>),
        Mustnt("mkdir", <<xx>>), Mustnt("unlink", <<xx>>), Mustnt("link", <<<<"README">>, xx>>),
        Gives(0, Unlink(<<"dirfile">>)),
        Mustnt("open", <<<<".">>, {"RDWR"}>>), OpenFile("fd", <<".">>, {}),
        Mustnt("write", <<"fd", <<"x">>>>), Close("fd")>>

\* Calls with an empty path, one directory deeper each time: each must give
\* back the i-node it started from.
iref ==
  Times(N, <<Gives(0, Do("mkdir", <<<<"irefd">>>>)), Gives(0, Do("chdir", <<<<"irefd">>>>)),
             Do("mkdir", <<<<>>>>), Do("link", <<<<"README">>, <<>>>>),
             If(OpenFile("fd", <<>>, {"CREATE"}), Ok, <<Close("fd")>>, <<>>),
             If(OpenFile("fd", <<"xx">>, {"CREATE"}), Ok, <<Close("fd")>>, <<>>),
             Unlink(<<"xx">>)>>)
  \o <<Do("chdir", <<Root>>)>>

\* fork until it fails, then wait for exactly as many children.
forktest ==
  <<While(Do("fork", <<<<>>>>), Ok, <<>>)>> \o Times(Slots, <<Must("wait", <<>>)>>)
  \o <<Mustnt("wait", <<>>)>>

bigargtest ==
  <<Unlink(<<"bigarg-ok">>),
    Fork(<<Do("exec", <<<<"echo">>, [i \in 1..31 |-> "bigargs test: failed"]>>),
           OpenFile("fd", <<"bigarg-ok">>, {"CREATE"}), Close("fd")>>),
    Wait, Reads("fd", <<"bigarg-ok">>), Close("fd"), Unlink(<<"bigarg-ok">>)>>

\* The child touches an I/O port and is killed by the trap.
uio == <<Fork(<<Do("trap", <<>>), Mustnt("sleep", <<>>)>>), Wait>>

\* The buffer lies beyond the end of the memory, which argptr refuses.
argptest ==
  <<Reads("fd", <<"init">>), Close("fd")>>

\* What main does around the tests; a second run stops at once.
main ==
  <<If(OpenFile("fd", <<"usertests.ran">>, {}), Ok, ExitNow, <<>>),
    OpenFile("fd", <<"usertests.ran">>, {"CREATE"}), Close("fd")>>
  \o argptest \o exectest

Tests ==
  <<iputtest, exitiputtest, openiputtest, opentest, writetest, writetest1, createtest, dirtest,
    pipe1, preempt, exitwait, sharedfd, fourfiles, createdelete, unlinkread, linktest, concreate,
    linkunlink, bigdir, subdir, bigwrite, bigfile, fourteen, rmdot, dirfile, iref, forktest,
    bigargtest, uio, main>>
=============================================================================
