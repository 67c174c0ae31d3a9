------------------------------ MODULE Syscalls ------------------------------
(***************************************************************************)
(* The kernel as user programs see it: file descriptors, i-nodes with      *)
(* names and link counts, pipes, processes.  A system call is one step,    *)
(* except for calls that wait (wait, read and write of a pipe) and writes  *)
(* longer than a transaction.  What happens inside the calls, with their   *)
(* locks and transactions, is the matter of Inode, Pipe, Log and Proc.     *)
(*                                                                         *)
(* A process runs `code`, a sequence of instructions: system calls with    *)
(* the results the program accepts, and a little control flow.  Data is a  *)
(* sequence of units; a unit stands for the bytes a program writes at      *)
(* once.  A path is a sequence of elements, <<"/", ...>> if absolute.      *)
(*                                                                         *)
(* The tables are one record k; a call is an operator from the tables, the *)
(* process and the arguments to the new tables and the result.             *)
(***************************************************************************)
EXTENDS Script, FiniteSets, FiniteSetsExt, SequencesExt, TLC

CONSTANTS
  NInodes,    \* i-nodes of the disk (sb.ninodes)
  NFile,      \* entries of ftable (NFILE)
  NOFile,     \* descriptors of a process (NOFILE)
  NPipe,      \* pipes there is memory for
  NProc,      \* slots of the process table (NPROC)
  MaxPid,     \* bound: pids ever given out
  PipeSize,   \* units a pipe holds (PIPESIZE)
  MaxFile,    \* units a file holds (MAXFILE)
  MaxChunk,   \* units filewrite puts into one transaction
  LongNames,  \* names longer than DIRSIZ, mapped to what is left of them
  MaxArgs,    \* arguments that fit into the page of the stack
  NLines,     \* lines typed at the console, then the end of input
  Image,      \* the files of the fresh disk, a sequence of names and contents
  Boot,       \* the code the first process may have, a sequence of programs
  Exec(_, _)  \* the code of a program file, from its contents and arguments

VARIABLES
  k,     \* the tables of the kernel
  proc   \* the processes, by pid

vars == <<k, proc>>

Pids == 1..MaxPid
InitPid == 1
Inums == 1..NInodes
RootIno == 1
Files == 1..NFile
Fds == 0..(NOFile - 1)
Pipes == 1..NPipe

Least(S, none) == IF S = {} THEN none ELSE Min(S)

(***************************************************************************)
(* I-nodes and names.                                                      *)
(***************************************************************************)
FreeInode == [type |-> "free", nlink |-> 0, ref |-> 0, dir |-> {}, data |-> <<>>]

iget(I, i) == [I EXCEPT ![i].ref = @ + 1]

\* fs.c iput, for a process that holds a reference.
iput(I, i) ==
  IF I[i].ref = 1 /\ I[i].nlink = 0
    THEN [I EXCEPT ![i] = FreeInode]
    ELSE [I EXCEPT ![i].ref = @ - 1]

\* The i-node of the entry n of directory d, 0 if there is none.
dirlookup(I, d, n) == Least({e[2] : e \in {x \in I[d].dir : x[1] = n}}, 0)

skipelem(n) == IF n \in DOMAIN LongNames THEN LongNames[n] ELSE n

Relative(path) == IF path # <<>> /\ path[1] = "/" THEN Tail(path) ELSE path
Start(cwd, path) == IF path # <<>> /\ path[1] = "/" THEN RootIno ELSE cwd

\* A path that meets a freed i-node makes ilock panic.
Freed == -1

\* A turn of namex's loop: the i-node is locked, then searched.
Element(I, i, n) ==
  IF i \in {0, Freed} THEN i
  ELSE IF I[i].type = "free" THEN Freed
  ELSE IF I[i].type = "dir" THEN dirlookup(I, i, skipelem(n)) ELSE 0

Walk(I, i, path) == FoldLeft(LAMBDA j, n : Element(I, j, n), i, path)

\* Every caller of namei locks what it gets.
namei(I, cwd, path) ==
  LET i == Walk(I, Start(cwd, path), Relative(path))
  IN  IF i > 0 /\ I[i].type = "free" THEN Freed ELSE i

nameiparent(I, cwd, path) ==
  LET elems == Relative(path)
      d == Walk(I, Start(cwd, path), Front(elems))
  IN  IF elems = <<>> THEN 0
      ELSE IF d <= 0 THEN d
      ELSE IF I[d].type = "free" THEN Freed
      ELSE IF I[d].type = "dir" THEN d ELSE 0

Name(path) == skipelem(Last(path))

ialloc(I) == Least({i \in Inums : I[i].type = "free"}, 0)

NewInode(type, i, d) ==
  [type |-> type, nlink |-> 1, ref |-> 1, data |-> <<>>,
   dir |-> IF type = "dir" THEN {<<".", i>>, <<"..", d>>} ELSE {}]

\* create: the i-node, referenced, and the table; 0 if it fails.
create(I, cwd, path, type) ==
  LET d == nameiparent(I, cwd, path)
      old == dirlookup(I, d, Name(path))
      i == ialloc(I)
  IN  IF d <= 0 THEN [inode |-> I, ip |-> d]
      ELSE IF old > 0 THEN
        IF type = "file" /\ I[old].type = "file"
          THEN [inode |-> iget(I, old), ip |-> old]
          ELSE [inode |-> I, ip |-> 0]
      ELSE IF i = 0 THEN [inode |-> I, ip |-> Freed]
      ELSE [inode |-> [I EXCEPT ![i] = NewInode(type, i, d),
                                ![d].dir = @ \cup {<<Name(path), i>>},
                                ![d].nlink = IF type = "dir" THEN @ + 1 ELSE @],
            ip |-> i]

(***************************************************************************)
(* Open files and descriptors.                                             *)
(***************************************************************************)
NoFile == [ref |-> 0, type |-> "none", ip |-> 0, off |-> 0, readable |-> FALSE, writable |-> FALSE]
NoPipe == [data |-> <<>>, readopen |-> FALSE, writeopen |-> FALSE]

filealloc(K) == Least({f \in Files : K.file[f].ref = 0}, 0)
fdalloc(K, p) == Least({fd \in Fds : K.ofile[p][fd] = 0}, -1)

pipeclose(pi, writable) ==
  LET q == IF writable THEN [pi EXCEPT !.writeopen = FALSE] ELSE [pi EXCEPT !.readopen = FALSE]
  IN  IF q.readopen \/ q.writeopen THEN q ELSE NoPipe

fileclose(K, f) ==
  LET ff == K.file[f]
      gone == [K EXCEPT !.file[f] = NoFile]
  IN  IF ff.ref > 1 THEN [K EXCEPT !.file[f].ref = @ - 1]
      ELSE CASE ff.type = "pipe" -> [gone EXCEPT !.pipe[ff.ip] = pipeclose(@, ff.writable)]
             [] ff.type = "inode" -> [gone EXCEPT !.inode = iput(@, ff.ip)]
             [] OTHER -> gone

Result(K, r) == [k |-> K, ret |-> r]
Fail(K) == Result(K, -1)
Panic(K) == Result([K EXCEPT !.panic = TRUE], -1)
\* What a call does that got no i-node for its path.
NoInode(K, ip) == IF ip = Freed THEN Panic(K) ELSE Fail(K)
NoWrite(K) == [k |-> K, ret |-> -1, done |-> 0]
Pending == -2   \* the call has done a part and goes on
Piped(K, fds) == [k |-> K, ret |-> 0, fds |-> fds]
Got(K, data) == [k |-> K, ret |-> Len(data), data |-> data]
\* After a part of a write of n units.
Wrote(K, done, n) == [k |-> K, ret |-> IF done = n THEN n ELSE Pending, done |-> done]

IsFd(K, p, fd) == fd \in Fds /\ K.ofile[p][fd] # 0

sys_dup(K, p, fd) ==
  LET new == fdalloc(K, p)
  IN  IF ~IsFd(K, p, fd) \/ new < 0 THEN Fail(K)
      ELSE Result([K EXCEPT !.ofile[p][new] = K.ofile[p][fd], !.file[K.ofile[p][fd]].ref = @ + 1], new)

sys_close(K, p, fd) ==
  IF IsFd(K, p, fd)
    THEN Result(fileclose([K EXCEPT !.ofile[p][fd] = 0], K.ofile[p][fd]), 0)
    ELSE Fail(K)

\* mode is a subset of {"CREATE", "WRONLY", "RDWR"}.
sys_open(K, p, path, mode) ==
  LET found == namei(K.inode, K.cwd[p], path)
      made == create(K.inode, K.cwd[p], path, "file")
      ip == IF "CREATE" \in mode THEN made.ip ELSE found
      K1 == [K EXCEPT !.inode = IF "CREATE" \in mode THEN made.inode ELSE iget(@, ip)]
      f == filealloc(K)
      fd == fdalloc(K, p)
  IN  IF ip <= 0 THEN NoInode(K, ip)
      ELSE IF "CREATE" \notin mode /\ K.inode[ip].type = "dir" /\ mode # {} THEN Fail(K)
      ELSE IF f = 0 \/ fd < 0 THEN Fail([K1 EXCEPT !.inode = iput(@, ip)])
      ELSE Result([K1 EXCEPT !.ofile[p][fd] = f,
                             !.file[f] = [ref |-> 1, type |-> "inode", ip |-> ip, off |-> 0,
                                          readable |-> "WRONLY" \notin mode,
                                          writable |-> mode \cap {"WRONLY", "RDWR"} # {}]], fd)

\* The two files of a new pipe, 0 if there is no memory or no file left.
pipealloc(K) ==
  LET free == {f \in Files : K.file[f].ref = 0}
      rf == Min(free)
      wf == Min(free \ {rf})
      q == Least({x \in Pipes : K.pipe[x] = NoPipe}, 0)
      end(w) == [ref |-> 1, type |-> "pipe", ip |-> q, off |-> 0, readable |-> ~w, writable |-> w]
  IN  IF Cardinality(free) < 2 \/ q = 0 THEN [k |-> K, rf |-> 0, wf |-> 0]
      ELSE [k |-> [K EXCEPT !.file[rf] = end(FALSE), !.file[wf] = end(TRUE),
                            !.pipe[q] = [data |-> <<>>, readopen |-> TRUE, writeopen |-> TRUE]],
            rf |-> rf, wf |-> wf]

\* Undoing a pipe with one descriptor, that descriptor stays.
sys_pipe_wrong(K, p) ==
  LET made == pipealloc(K)
      fd0 == fdalloc(K, p)
      K0 == IF fd0 < 0 THEN made.k ELSE [made.k EXCEPT !.ofile[p][fd0] = made.rf]
      fd1 == fdalloc(K0, p)
  IN  IF made.rf = 0 THEN Fail(K)
      ELSE IF fd1 < 0 THEN Fail(fileclose(fileclose(K0, made.rf), made.wf))
      ELSE Piped([K0 EXCEPT !.ofile[p][fd1] = made.wf], <<fd0, fd1>>)

\* Without two descriptors the pipe is undone, with what it has of them.
sys_pipe(K, p) ==
  LET made == pipealloc(K)
      fd0 == fdalloc(K, p)
      K0 == IF fd0 < 0 THEN made.k ELSE [made.k EXCEPT !.ofile[p][fd0] = made.rf]
      fd1 == fdalloc(K0, p)
  IN  IF made.rf = 0 THEN Fail(K)
      ELSE IF fd1 < 0 THEN Fail(fileclose(fileclose([K0 EXCEPT !.ofile[p] = K.ofile[p]], made.rf), made.wf))
      ELSE Piped([K0 EXCEPT !.ofile[p][fd1] = made.wf], <<fd0, fd1>>)

(***************************************************************************)
(* Calls on names.                                                         *)
(***************************************************************************)
sys_link(K, p, old, new) ==
  LET I == K.inode
      ip == namei(I, K.cwd[p], old)
      d == nameiparent(I, K.cwd[p], new)
  IN  IF ip <= 0 THEN NoInode(K, ip)
      ELSE IF I[ip].type = "dir" THEN Fail(K)
      ELSE IF d <= 0 THEN NoInode(K, d)
      ELSE IF dirlookup(I, d, Name(new)) # 0 THEN Fail(K)
      ELSE Result([K EXCEPT !.inode[ip].nlink = @ + 1,
                            !.inode[d].dir = @ \cup {<<Name(new), ip>>}], 0)

isdirempty(I, i) == I[i].dir \subseteq {e \in I[i].dir : e[1] \in {".", ".."}}

\* Removes a directory with entries.
sys_unlink_wrong(K, p, path) ==
  LET I == K.inode
      d == nameiparent(I, K.cwd[p], path)
      ip == dirlookup(I, d, Name(path))
  IN  IF d <= 0 THEN NoInode(K, d)
      ELSE IF Name(path) \in {".", ".."} \/ ip = 0 THEN Fail(K)
      ELSE LET J == [I EXCEPT ![d].dir = @ \ {<<Name(path), ip>>},
                              ![d].nlink = IF I[ip].type = "dir" THEN @ - 1 ELSE @,
                              ![ip].nlink = @ - 1]
           IN  Result([K EXCEPT !.inode = iput(iget(J, ip), ip)], 0)

sys_unlink(K, p, path) ==
  LET I == K.inode
      d == nameiparent(I, K.cwd[p], path)
      ip == dirlookup(I, d, Name(path))
      isdir == I[ip].type = "dir"
  IN  IF d <= 0 THEN NoInode(K, d)
      ELSE IF Name(path) \in {".", ".."} \/ ip = 0 THEN Fail(K)
      ELSE IF isdir /\ ~isdirempty(I, ip) THEN Fail(K)
      ELSE LET J == [I EXCEPT ![d].dir = @ \ {<<Name(path), ip>>},
                              ![d].nlink = IF isdir THEN @ - 1 ELSE @,
                              ![ip].nlink = @ - 1]
           IN  Result([K EXCEPT !.inode = iput(iget(J, ip), ip)], 0)

\* sys_mkdir and sys_mknod.
Make(K, p, path, type) ==
  LET made == create(K.inode, K.cwd[p], path, type)
  IN  IF made.ip <= 0 THEN NoInode(K, made.ip)
      ELSE Result([K EXCEPT !.inode = iput(made.inode, made.ip)], 0)

sys_chdir(K, p, path) ==
  LET ip == namei(K.inode, K.cwd[p], path)
  IN  IF ip <= 0 THEN NoInode(K, ip)
      ELSE IF K.inode[ip].type # "dir" THEN Fail(K)
      ELSE Result([K EXCEPT !.inode = iput(iget(@, ip), K.cwd[p]), !.cwd[p] = ip], 0)

sys_fstat(K, p, fd) ==
  IF IsFd(K, p, fd) /\ K.file[K.ofile[p][fd]].type = "inode" THEN Result(K, 0) ELSE Fail(K)

(***************************************************************************)
(* Reading and writing.                                                    *)
(***************************************************************************)
\* The units a read returns, `data`, and the tables after it.  The entries
\* of a directory are read as the set of its names.
readi(K, f, n) ==
  LET ff == K.file[f]
      node == K.inode[ff.ip]
      data == SubSeq(node.data, ff.off + 1, Min({ff.off + n, Len(node.data)}))
  IN  CASE node.type = "dev" ->
             IF K.input = 0 THEN Got(K, <<>>) ELSE Got([K EXCEPT !.input = @ - 1], <<"line">>)
        [] node.type = "dir" ->
             [Got(K, <<>>) EXCEPT !.data = FoldSet(LAMBDA e, names : Append(names, e[1]), <<>>, node.dir)]
        [] OTHER ->
             Got([K EXCEPT !.file[f].off = @ + Len(data)], data)

piperead(K, q, n) ==
  LET m == Min({n, Len(K.pipe[q].data)})
  IN  Got([K EXCEPT !.pipe[q].data = SubSeq(@, m + 1, Len(@))], SubSeq(K.pipe[q].data, 1, m))

fileread(K, p, fd, n) ==
  LET f == K.ofile[p][fd]
  IN  IF ~IsFd(K, p, fd) \/ ~K.file[f].readable THEN [Got(K, <<>>) EXCEPT !.ret = -1]
      ELSE IF K.file[f].type = "pipe" THEN piperead(K, K.file[f].ip, n)
      ELSE readi(K, f, n)

\* A turn of filewrite's loop: a transaction with the next units of s.
writei(K, f, s, done) ==
  LET off == K.file[f].off
      c == Min({MaxChunk, Len(s) - done})
      old == K.inode[K.file[f].ip].data
      new == SubSeq(old, 1, off) \o SubSeq(s, done + 1, done + c) \o SubSeq(old, off + c + 1, Len(old))
  IN  IF K.inode[K.file[f].ip].type = "dev" THEN Wrote(K, Len(s), Len(s))
      ELSE IF off + c > MaxFile THEN NoWrite(K)
      ELSE Wrote([K EXCEPT !.file[f].off = off + c, !.inode[K.file[f].ip].data = new], done + c, Len(s))

\* What pipewrite does before it waits or returns.
pipewrite(K, q, s, done) ==
  LET m == Min({PipeSize - Len(K.pipe[q].data), Len(s) - done})
  IN  IF m = 0 /\ done < Len(s) THEN NoWrite(K)
      ELSE Wrote([K EXCEPT !.pipe[q].data = @ \o SubSeq(s, done + 1, done + m)], done + m, Len(s))

filewrite(K, p, fd, s, done) ==
  LET f == K.ofile[p][fd]
  IN  IF ~IsFd(K, p, fd) \/ ~K.file[f].writable THEN NoWrite(K)
      ELSE IF K.file[f].type = "pipe" THEN pipewrite(K, K.file[f].ip, s, done)
      ELSE writei(K, f, s, done)
(***************************************************************************)
(* Processes.                                                              *)
(***************************************************************************)
NoProc == [state |-> "unused", parent |-> 0, killed |-> FALSE, failed |-> FALSE,
           code |-> <<>>, var |-> <<>>, buf |-> <<>>, done |-> 0]
Stdio == ("0" :> 0) @@ ("1" :> 1) @@ ("2" :> 2)

\* The process goes on after a call with result r; a result that it does
\* not accept makes it print a message and exit.
Resume(pr, r) ==
  LET i == Head(pr.code)
      rest == IF i.again /\ In(r, i.on) THEN pr.code ELSE Tail(pr.code)
      good == In(r, i.want)
  IN  [pr EXCEPT !.code = IF good THEN (IF In(r, i.on) THEN i.then ELSE i.else) \o rest ELSE ExitNow,
                 !.failed = @ \/ ~good,
                 !.var = (i.to :> r) @@ @,
                 !.done = 0]

Return(p, call) ==
  \E res \in {call} :
    /\ k' = res.k
    /\ proc' = [proc EXCEPT ![p] = Resume(@, res.ret)]

Cmd(p) == Head(proc[p].code)
Arg(p, j) == Cmd(p).args[j]
Fd(p) == proc[p].var[Arg(p, 1)]

\* A process that has been killed exits before its next call; a write to a
\* file is finished first.
Writing(p) == proc[p].done > 0
Calls(p, op) ==
  /\ ~k.panic
  /\ proc[p].state = "running"
  /\ proc[p].code # <<>>
  /\ Cmd(p).op = op
  /\ proc[p].killed => Writing(p)

Used == {p \in Pids : proc[p].state # "unused"}
Children(p) == {c \in Used : proc[c].parent = p}
Zombies(p) == {c \in Children(p) : proc[c].state = "zombie"}

\* fork: the child gets the code of its branch.
SysFork(p) ==
  /\ Calls(p, "fork")
  /\ LET c == k.nextpid
         fs == k.ofile[p]
         dup(f) == Cardinality({fd \in Fds : fs[fd] = f})
     IN  IF Cardinality(Used) = NProc
           THEN Return(p, Fail(k))
           ELSE /\ c \in Pids
                /\ k' = [k EXCEPT !.nextpid = @ + 1,
                                  !.ofile[c] = fs,
                                  !.cwd[c] = k.cwd[p],
                                  !.inode = iget(@, k.cwd[p]),
                                  !.file = [f \in Files |-> [@[f] EXCEPT !.ref = @ + dup(f)]]]
                /\ proc' = [proc EXCEPT
                      ![p] = Resume(@, c),
                      ![c] = [proc[p] EXCEPT !.parent = p, !.killed = FALSE, !.failed = FALSE,
                                             !.code = Arg(p, 1) \o ExitNow]]

\* exit, by the program or because it was killed.
CloseAll(K, p) ==
  LET close(J, fd) == IF J.ofile[p][fd] = 0 THEN J ELSE sys_close(J, p, fd).k
  IN  FoldLeft(close, K, [j \in 1..NOFile |-> j - 1])

\* What exit does to a child.
Orphaned_wrong(pr) == pr
Orphaned(pr) == [pr EXCEPT !.parent = InitPid]

SysExit(p) ==
  /\ ~k.panic
  /\ proc[p].state = "running"
  /\ \/ Calls(p, "exit")
     \/ proc[p].killed /\ ~Writing(p)
  /\ IF p = InitPid
       THEN k' = [k EXCEPT !.panic = TRUE] /\ UNCHANGED proc
       ELSE /\ k' = [CloseAll(k, p) EXCEPT !.inode = iput(@, k.cwd[p]), !.cwd[p] = 0]
            /\ proc' = [c \in Pids |->
                  IF c = p THEN [NoProc EXCEPT !.state = "zombie", !.parent = proc[p].parent,
                                               !.failed = proc[p].failed]
                  ELSE IF c \in Children(p) THEN Orphaned(proc[c])
                  ELSE proc[c]]

SysWait(p) ==
  /\ Calls(p, "wait")
  /\ \/ \E c \in Zombies(p) :
           /\ proc' = [proc EXCEPT ![p] = Resume(@, c),
                                   ![c] = [NoProc EXCEPT !.failed = proc[c].failed]]
           /\ UNCHANGED k
     \/ Children(p) = {} /\ Return(p, Fail(k))

SysKill(p) ==
  /\ Calls(p, "kill")
  /\ LET q == Fd(p) IN
       IF q \in Used
         THEN /\ proc' = [[proc EXCEPT ![q].killed = TRUE] EXCEPT ![p] = Resume(@, 0)]
              /\ UNCHANGED k
         ELSE Return(p, Fail(k))

\* exec: the new image keeps the descriptors; it fails without a program
\* file and, where copyout meets the guard page, with too many arguments.
SysExec(p) ==
  /\ Calls(p, "exec")
  /\ LET ip == namei(k.inode, k.cwd[p], Arg(p, 1)) IN
       IF ip <= 0 THEN Return(p, NoInode(k, ip))
       ELSE IF k.inode[ip].type = "file" /\ Len(Arg(p, 2)) <= MaxArgs /\ Exec(k.inode[ip].data, Arg(p, 2)) # <<>>
         THEN /\ proc' = [proc EXCEPT ![p] =
                             [@ EXCEPT !.code = Exec(k.inode[ip].data, Arg(p, 2)),
                                       !.var = Stdio, !.buf = <<>>]]
              /\ UNCHANGED k
         ELSE Return(p, Fail(k))

(***************************************************************************)
(* The other calls.                                                        *)
(***************************************************************************)
PipeOf(p, fd) == k.pipe[k.file[k.ofile[p][fd]].ip]
IsPipe(p, fd) == IsFd(k, p, fd) /\ k.file[k.ofile[p][fd]].type = "pipe"

\* read: a pipe makes the caller wait while it is empty and has a writer.
ReadWaits(p, fd) ==
  /\ IsPipe(p, fd) /\ k.file[k.ofile[p][fd]].readable
  /\ PipeOf(p, fd).data = <<>>
  /\ PipeOf(p, fd).writeopen

SysRead(p) ==
  /\ Calls(p, "read")
  /\ ~ReadWaits(p, Fd(p))
  /\ \E res \in {fileread(k, p, Fd(p), Arg(p, 2))} :
       /\ k' = res.k
       /\ proc' = [proc EXCEPT ![p] = Resume([@ EXCEPT !.buf = @ \o res.data], res.ret)]

\* What is written: given units, what was read, or its length.
Data(p) ==
  LET s == Arg(p, 2)
  IN  IF s = <<"$buf">> THEN proc[p].buf
      ELSE IF s = <<"$len">> THEN <<ToString(Len(proc[p].buf))>> ELSE s

\* write: a full pipe makes the caller wait while it has a reader.
WriteWaits(p, fd) ==
  /\ IsPipe(p, fd) /\ k.file[k.ofile[p][fd]].writable
  /\ Len(PipeOf(p, fd).data) = PipeSize
  /\ proc[p].done < Len(Data(p))
  /\ PipeOf(p, fd).readopen

SysWrite(p) ==
  /\ Calls(p, "write")
  /\ ~WriteWaits(p, Fd(p))
  /\ \E res \in {filewrite(k, p, Fd(p), Data(p), proc[p].done)} :
       /\ k' = res.k
       /\ proc' = [proc EXCEPT ![p] =
                     IF res.ret = Pending THEN [@ EXCEPT !.done = res.done]
                     ELSE Resume([@ EXCEPT !.buf = IF Arg(p, 2) = <<"$buf">> THEN <<>> ELSE @], res.ret)]

\* What the program read before is of no use any more.
SysOpen(p) ==
  /\ Calls(p, "open")
  /\ \E res \in {sys_open(k, p, Arg(p, 1), Arg(p, 2))} :
       /\ k' = res.k
       /\ proc' = [proc EXCEPT ![p] = Resume([@ EXCEPT !.buf = <<>>], res.ret)]
SysClose(p) == Calls(p, "close") /\ Return(p, sys_close(k, p, Fd(p)))
SysDup(p) == Calls(p, "dup") /\ Return(p, sys_dup(k, p, Fd(p)))
SysLink(p) == Calls(p, "link") /\ Return(p, sys_link(k, p, Arg(p, 1), Arg(p, 2)))
SysUnlink(p) == Calls(p, "unlink") /\ Return(p, sys_unlink(k, p, Arg(p, 1)))
SysMkdir(p) == Calls(p, "mkdir") /\ Return(p, Make(k, p, Arg(p, 1), "dir"))
SysMknod(p) == Calls(p, "mknod") /\ Return(p, Make(k, p, Arg(p, 1), "dev"))
SysChdir(p) == Calls(p, "chdir") /\ Return(p, sys_chdir(k, p, Arg(p, 1)))
SysFstat(p) == Calls(p, "fstat") /\ Return(p, sys_fstat(k, p, Fd(p)))

\* pipe: the descriptors go to the variables "p0" and "p1".
SysPipe(p) ==
  /\ Calls(p, "pipe")
  /\ \E res \in {sys_pipe(k, p)} :
       IF res.ret < 0 THEN Return(p, res)
       ELSE /\ k' = res.k
            /\ proc' = [proc EXCEPT ![p] =
                 Resume([@ EXCEPT !.var = ("p0" :> res.fds[1]) @@ ("p1" :> res.fds[2]) @@ @], 0)]

(***************************************************************************)
(* Steps without a call: sleep and sbrk leave the tables alone; a program  *)
(* compares what it has; a trap kills it; `choose` stands for a branch on  *)
(* data that the model does not have.                                      *)
(***************************************************************************)
Local(p) ==
  \/ Calls(p, "sleep") /\ Return(p, Result(k, 0))
  \/ /\ Calls(p, "same")
     /\ Return(p, Result(k, IF proc[p].var[Arg(p, 1)] = proc[p].var[Arg(p, 2)] THEN 0 ELSE -1))
  \/ /\ \/ Calls(p, "bufis") /\ proc' = [proc EXCEPT ![p] =
                Resume([@ EXCEPT !.buf = <<>>], IF proc[p].buf = Arg(p, 1) THEN 0 ELSE -1)]
        \/ Calls(p, "bufhas") /\ proc' = [proc EXCEPT ![p] =
                Resume(@, Cardinality({j \in DOMAIN @.buf : @.buf[j] = Arg(p, 1)}))]
        \/ Calls(p, "trap") /\ proc' = [proc EXCEPT ![p] = [Resume(@, 0) EXCEPT !.killed = TRUE]]
        \/ Calls(p, "choose") /\ \E j \in DOMAIN Arg(p, 1) :
                proc' = [proc EXCEPT ![p].code = Arg(p, 1)[j] \o Tail(@)]
     /\ UNCHANGED k

Init ==
  /\ \E j \in DOMAIN Boot :
       proc = [p \in Pids |-> IF p = InitPid
                                THEN [NoProc EXCEPT !.state = "running", !.code = Boot[j], !.var = Stdio]
                                ELSE NoProc]
  /\ LET root == {<<".", RootIno>>, <<"..", RootIno>>} \cup {<<Image[j].name, j + 1>> : j \in DOMAIN Image}
     IN  k = [inode |-> [i \in Inums |->
                 IF i = RootIno THEN [FreeInode EXCEPT !.type = "dir", !.nlink = 1, !.ref = 1, !.dir = root]
                 ELSE IF i - 1 \in DOMAIN Image
                   THEN [FreeInode EXCEPT !.type = "file", !.nlink = 1, !.data = Image[i - 1].data]
                   ELSE FreeInode],
              file |-> [f \in Files |-> NoFile],
              pipe |-> [q \in Pipes |-> NoPipe],
              ofile |-> [p \in Pids |-> [fd \in Fds |-> 0]],
              cwd |-> [p \in Pids |-> IF p = InitPid THEN RootIno ELSE 0],
              input |-> NLines, nextpid |-> InitPid + 1, panic |-> FALSE]

Step(p) ==
  \/ SysFork(p) \/ SysExit(p) \/ SysWait(p) \/ SysKill(p) \/ SysExec(p)
  \/ SysRead(p) \/ SysWrite(p) \/ SysOpen(p) \/ SysClose(p) \/ SysDup(p) \/ SysPipe(p)
  \/ SysLink(p) \/ SysUnlink(p) \/ SysMkdir(p) \/ SysMknod(p) \/ SysChdir(p) \/ SysFstat(p)
  \/ Local(p)

Next == \E p \in Pids : Step(p)

\* Some process that can run is run: no program here polls, so it need not
\* be any particular one.
Spec == Init /\ [][Next]_vars /\ WF_vars(Next)

-----------------------------------------------------------------------------

\* No program of the repository sees a result that it takes for an error of
\* the kernel (the "failed" and "oops" branches), and the kernel never
\* panics, however the processes of a test interleave.
TestsPass == ~k.panic /\ \A p \in Pids : ~proc[p].failed

Descriptors == {d \in Pids \X Fds : k.ofile[d[1]][d[2]] # 0}
Ends(q, w) == {f \in Files : k.file[f].type = "pipe" /\ k.file[f].ip = q /\ k.file[f].writable = w}
Holders(i) == {f \in Files : k.file[f].type = "inode" /\ k.file[f].ip = i}
Live == {i \in Inums : k.inode[i].nlink > 0}
Entries(i) == UNION {{<<d, e[1]>> : e \in {x \in k.inode[d].dir : x[2] = i /\ x[1] # "."}} : d \in Live}

\* The tables tell the same story, between any two calls of any processes
\* and whatever failed half-way: a file is held by as many descriptors as it
\* counts, a pipe end is open exactly if a file is that end, an i-node
\* counts its open files and working directories and the entries naming
\* it, and an i-node with neither is free.
TablesAgree ==
  /\ \A f \in Files :
       k.file[f].ref = Cardinality({d \in Descriptors : k.ofile[d[1]][d[2]] = f})
  /\ \A q \in Pipes :
       /\ k.pipe[q].readopen <=> (Ends(q, FALSE) # {})
       /\ k.pipe[q].writeopen <=> (Ends(q, TRUE) # {})
  /\ \A i \in Inums :
       /\ k.inode[i].ref = Cardinality(Holders(i)) + Cardinality({p \in Pids : k.cwd[p] = i})
       /\ k.inode[i].nlink = Cardinality(Entries(i))
       /\ (k.inode[i].type = "free") <=> (k.inode[i].nlink = 0 /\ k.inode[i].ref = 0)
       /\ k.inode[i].type = "dir" \/ k.inode[i].dir = {}

\* Every program ends and is reaped: nobody waits for ever for a pipe whose
\* other end is still open somewhere, or for a child, and no zombie stays.
ProgramsEnd == <>[](\A p \in Pids \ {InitPid} : proc[p].state = "unused")
=============================================================================
