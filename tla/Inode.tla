------------------------------- MODULE Inode -------------------------------
(***************************************************************************)
(* I-nodes, directories and the system calls on names (fs.c, sysfile.c).   *)
(* The blocks underneath are those of modules Log and BufferCache: reading *)
(* or updating one dinode or one directory entry is atomic and never fails.*)
(* What a process does between acquiring one i-node's sleep-lock and       *)
(* releasing it is one action unless it waits for another lock meanwhile.  *)
(***************************************************************************)
EXTENDS Naturals, Sequences, FiniteSets

CONSTANTS Procs, NoProc,
          Names,    \* of directory entries other than "." and ".."
          NInodes,  \* sb.ninodes
          NInode,   \* NINODE, the entries of icache
          Calls     \* bound: the system calls that each process makes

ASSUME NoProcAssumption == NoProc \notin Procs
ASSUME SizeAssumption == NInodes \in Nat \ {0} /\ NInode \in Nat \ {0} /\ IsFiniteSet(Procs)
ASSUME NamesAssumption == IsFiniteSet(Names) /\ Names \cap {".", ".."} = {}

Inums == 1..NInodes
Root == 1    \* ROOTINO
Slots == 1..NInode
Entry == Names \cup {".", ".."}

\* Paths have an element: "/" and "" are looked up by module Syscalls.
Paths == Seq(Entry) \ {<<>>}
ASSUME CallsAssumption ==
  \A p \in Procs : \A c \in Calls[p] :
    /\ c.op \in {"open", "chdir", "create", "mkdir", "unlink", "link"} /\ c.path \in Paths
    /\ c.op = "link" => c.new \in Paths

VARIABLES
  dinode,  \* type and nlink of every i-node on the disk
  dirent,  \* i-node numbers of the entries of directories, 0 for none
  icache,  \* ref, inum and, if valid, copy of the dinode
  lock,    \* owner of the sleep-lock of each cache entry
  pc,      \* where each process is
  then,    \* where it goes after iput
  call,    \* the system call it is in
  rest,    \* path elements that namex has still to look up
  cur,     \* ip of namex, then dp
  ip,      \* the i-node that the call is about
  put,     \* the argument of iput
  file,    \* the i-node of its open file (a process has one)
  cwd

disk == <<dinode, dirent>>
long == <<file, cwd>>
vars == <<disk, icache, lock, pc, then, call, rest, cur, ip, put, long>>

None == 0
Free == [type |-> "free", nlink |-> 0]
Empty == [n \in Entry |-> 0]
Invalid == [type |-> "invalid", nlink |-> 0]
NoCall == [op |-> "none"]

Init == /\ dinode = [i \in Inums |-> IF i = Root THEN [type |-> "dir", nlink |-> 1] ELSE Free]
        /\ dirent = [i \in Inums |-> [n \in Entry |-> IF i = Root /\ n \notin Names THEN Root ELSE 0]]
        /\ icache = [s \in Slots |-> [ref |-> IF s = 1 THEN Cardinality(Procs) ELSE 0,
                                      inum |-> Root, copy |-> Invalid]]
        /\ lock = [s \in Slots |-> NoProc]
        /\ pc = [p \in Procs |-> "user"] /\ then = pc
        /\ call = [p \in Procs |-> NoCall] /\ rest = [p \in Procs |-> <<>>]
        /\ cur = [p \in Procs |-> None] /\ ip = cur /\ put = cur /\ file = cur
        /\ cwd = [p \in Procs |-> 1]

-----------------------------------------------------------------------------
(* The cache of i-nodes *)

Goto(p, to) == pc' = [pc EXCEPT ![p] = to] /\ UNCHANGED then

\* Back to user space.
Return(p) == /\ Goto(p, "user")
             /\ call' = [call EXCEPT ![p] = NoCall]
             /\ rest' = [rest EXCEPT ![p] = <<>>]

\* iput(s), and then on.
Put(p, s, on) == /\ put' = [put EXCEPT ![p] = s]
                 /\ pc' = [pc EXCEPT ![p] = "put"]
                 /\ then' = [then EXCEPT ![p] = on]

\* ilock, whose lock is free; it panics if the i-node is. The cache after it has
\* made the entry valid.
Ilock(s) == lock[s] = NoProc /\ (icache[s].copy # Invalid \/ dinode[icache[s].inum].type # "free")
Loaded(s) == [icache EXCEPT ![s].copy = IF @ = Invalid THEN dinode[icache[s].inum] ELSE @]

\* A change to the i-node in a locked entry, and iupdate.
Update(ic, s, d) == /\ icache' = [ic EXCEPT ![s].copy = d]
                    /\ dinode' = [dinode EXCEPT ![icache[s].inum] = d]

WithLinks(d, k) == [d EXCEPT !.nlink = k]

\* iget: the entry for i-node i, the first free one if it has none yet.
Unused(ic) == {s \in Slots : ic[s].ref = 0}
Entries(ic, i) == {s \in Slots : ic[s].ref > 0 /\ ic[s].inum = i}
SlotOf(ic, i) == IF Entries(ic, i) # {} THEN CHOOSE s \in Entries(ic, i) : TRUE
                 ELSE CHOOSE s \in Unused(ic) : \A t \in Unused(ic) : s <= t
Iget_wrong(ic, i) == [ic EXCEPT ![SlotOf(ic, i)] =
                        IF @.ref > 0 THEN @ ELSE [ref |-> 1, inum |-> i, copy |-> Invalid]]
Iget(ic, i) == LET s == SlotOf(ic, i) IN
               IF ic[s].ref > 0 THEN [ic EXCEPT ![s].ref = @ + 1]
                                ELSE [ic EXCEPT ![s] = [ref |-> 1, inum |-> i, copy |-> Invalid]]

\* It panics if no entry is free.
Get(ic, i) == (Entries(ic, i) # {} \/ Unused(ic) # {}) /\ icache' = Iget(ic, i)

IputLock_wrong(p) ==
  LET s == put[p] IN
  /\ pc[p] = "put" /\ lock[s] = NoProc
  /\ IF icache[s].copy # Invalid /\ icache[s].copy.nlink = 0
     THEN lock' = [lock EXCEPT ![s] = p] /\ Goto(p, "free")
     ELSE Goto(p, "drop") /\ UNCHANGED lock
  /\ UNCHANGED <<disk, icache, call, rest, cur, ip, put, long>>

\* iput: with the lock, is this the last reference to an i-node without links?
IputLock(p) ==
  LET s == put[p] IN
  /\ pc[p] = "put" /\ lock[s] = NoProc
  /\ IF icache[s].copy # Invalid /\ icache[s].copy.nlink = 0 /\ icache[s].ref = 1
     THEN lock' = [lock EXCEPT ![s] = p] /\ Goto(p, "free")
     ELSE Goto(p, "drop") /\ UNCHANGED lock
  /\ UNCHANGED <<disk, icache, call, rest, cur, ip, put, long>>

\* itrunc, type 0, iupdate, and the entry is invalid.
IputFree(p) ==
  LET s == put[p] IN
  /\ pc[p] = "free"
  /\ dinode' = [dinode EXCEPT ![icache[s].inum] = Free]
  /\ dirent' = [dirent EXCEPT ![icache[s].inum] = Empty]
  /\ icache' = [icache EXCEPT ![s].copy = Invalid]
  /\ lock' = [lock EXCEPT ![s] = NoProc]
  /\ Goto(p, "drop")
  /\ UNCHANGED <<call, rest, cur, ip, put, long>>

IputDrop(p) ==
  /\ pc[p] = "drop"
  /\ icache' = [icache EXCEPT ![put[p]].ref = @ - 1]
  /\ put' = [put EXCEPT ![p] = None]
  /\ IF then[p] = "user" THEN Return(p) ELSE Goto(p, then[p]) /\ UNCHANGED <<call, rest>>
  /\ UNCHANGED <<disk, lock, cur, ip, long>>

-----------------------------------------------------------------------------
(* System calls and path names *)

\* sys_close of the only descriptor: fileclose.
Close(p) ==
  /\ pc[p] = "user" /\ file[p] # None
  /\ file' = [file EXCEPT ![p] = None]
  /\ Put(p, file[p], "user")
  /\ UNCHANGED <<disk, icache, lock, call, rest, cur, ip, cwd>>

\* namex starts at the root or at the current directory (idup).
Namex(p, c, ic, path) ==
  LET i == IF c.abs THEN Root ELSE ic[cwd[p]].inum IN
  /\ cur' = [cur EXCEPT ![p] = SlotOf(ic, i)]
  /\ Get(ic, i)
  /\ rest' = [rest EXCEPT ![p] = path]
  /\ Goto(p, "walk")

\* The call passes begin_op and looks up its (first) path.
Enter(p, c) ==
  /\ pc[p] = "user"
  /\ call' = [call EXCEPT ![p] = c]
  /\ Namex(p, c, icache, c.path)
  /\ UNCHANGED <<disk, lock, ip, put, long>>

\* link has found its old name, and looks for the directory of the new one.
Relinking(p) == call[p].op = "link" /\ ip[p] # None
WantsParent(p) == call[p].op \in {"create", "mkdir", "unlink"} \/ Relinking(p)

\* Where namex goes back to: with 0, with the i-node.
Failed(p) == IF Relinking(p) THEN "bad" ELSE "user"
Found(p) == IF Relinking(p) THEN "linkdp" ELSE call[p].op

Here(p) == dirent[icache[cur[p]].inum]
Name(p) == Head(rest[p])
Last(p) == Len(rest[p]) = 1

\* One element of the path: ilock, dirlookup, iunlockput.
Walk(p) ==
  LET s == cur[p]  ic == Loaded(s)  t == Here(p)[Name(p)] IN
  /\ pc[p] = "walk" /\ Ilock(s)
  /\ \/ /\ ic[s].copy.type # "dir" \/ (t = 0 /\ ~(WantsParent(p) /\ Last(p)))
        /\ icache' = ic
        /\ cur' = [cur EXCEPT ![p] = None]
        /\ Put(p, s, Failed(p))
        /\ UNCHANGED rest
     \/ /\ ic[s].copy.type = "dir" /\ WantsParent(p) /\ Last(p)
        /\ icache' = ic
        /\ Goto(p, Found(p))
        /\ UNCHANGED <<cur, put, rest>>
     \/ /\ ic[s].copy.type = "dir" /\ t # 0 /\ ~(WantsParent(p) /\ Last(p))
        /\ Get(ic, t)
        /\ cur' = [cur EXCEPT ![p] = SlotOf(ic, t)]
        /\ rest' = [rest EXCEPT ![p] = Tail(@)]
        /\ Put(p, s, IF Last(p) THEN Found(p) ELSE "walk")
  /\ UNCHANGED <<disk, lock, call, ip, long>>

\* iunlockput(dp) and on; the lock of dp is not held in the model's state.
DropDir(p, on) == cur' = [cur EXCEPT ![p] = None] /\ Put(p, cur[p], on)

-----------------------------------------------------------------------------
(* sys_open, create, sys_mkdir, sys_chdir *)

\* The last part of sys_open, with s locked: fdalloc fails if the process has
\* a descriptor already.
Fail(p, s) == Put(p, s, "user") /\ UNCHANGED <<file, call, rest>>

Install(p, s) ==
  IF file[p] = None
  THEN file' = [file EXCEPT ![p] = s] /\ Return(p) /\ UNCHANGED put
  ELSE Fail(p, s)

\* Without O_CREATE.
Open(p) ==
  LET s == cur[p]  ic == Loaded(s) IN
  /\ pc[p] = "open" /\ Ilock(s)
  /\ icache' = ic
  /\ IF ic[s].copy.type = "dir" /\ call[p].write
     THEN Fail(p, s)
     ELSE Install(p, s)
  /\ cur' = [cur EXCEPT ![p] = None]
  /\ UNCHANGED <<disk, lock, ip, cwd>>

Chdir(p) ==
  LET s == cur[p]  ic == Loaded(s) IN
  /\ pc[p] = "chdir" /\ Ilock(s)
  /\ icache' = ic
  /\ IF ic[s].copy.type # "dir"
     THEN Put(p, s, "user") /\ UNCHANGED cwd
     ELSE Put(p, cwd[p], "user") /\ cwd' = [cwd EXCEPT ![p] = s]
  /\ cur' = [cur EXCEPT ![p] = None]
  /\ UNCHANGED <<disk, lock, call, rest, ip, file>>

\* create: the name exists.
CreateExisting(p) ==
  LET ic == Loaded(cur[p])  t == Here(p)[Name(p)] IN
  /\ pc[p] \in {"create", "mkdir"} /\ Ilock(cur[p]) /\ t # 0
  /\ Get(ic, t)
  /\ ip' = [ip EXCEPT ![p] = SlotOf(ic, t)]
  /\ DropDir(p, "existing")
  /\ UNCHANGED <<disk, lock, call, rest, long>>

\* An existing file will do for open, nothing for mkdir.
UseExisting(p) ==
  LET s == ip[p]  ic == Loaded(s) IN
  /\ pc[p] = "existing" /\ Ilock(s)
  /\ icache' = ic
  /\ IF call[p].op = "create" /\ ic[s].copy.type = "file"
     THEN Install(p, s) ELSE Fail(p, s)
  /\ ip' = [ip EXCEPT ![p] = None]
  /\ UNCHANGED <<disk, lock, cur, cwd>>

FreeInums == {i \in Inums : dinode[i] = Free}
NewType(p) == IF call[p].op = "mkdir" THEN "dir" ELSE "file"

\* It does not: ialloc, with dp locked. (The kernel panics if there is none.)
CreateNew(p) ==
  LET s == cur[p]  ic == Loaded(s)  t == CHOOSE i \in FreeInums : \A j \in FreeInums : i <= j IN
  /\ pc[p] \in {"create", "mkdir"} /\ Ilock(s) /\ Here(p)[Name(p)] = 0
  /\ FreeInums # {}
  /\ dinode' = [dinode EXCEPT ![t] = [type |-> NewType(p), nlink |-> 0]]
  /\ Get(ic, t)
  /\ ip' = [ip EXCEPT ![p] = SlotOf(ic, t)]
  /\ lock' = [lock EXCEPT ![s] = p]
  /\ Goto(p, "new")
  /\ UNCHANGED <<dirent, call, rest, cur, put, long>>

CreateLink_wrong(p) ==
  LET s == ip[p]  i == icache[s].inum  d == cur[p]  dd == icache[d].inum
      more == IF NewType(p) = "dir" THEN 1 ELSE 0
      new == WithLinks(dinode[i], 1)  parent == icache[d].copy
  IN
  /\ pc[p] = "new" /\ Ilock(s)
  /\ icache' = [icache EXCEPT ![s].copy = new, ![d].copy = parent]
  /\ dinode' = [dinode EXCEPT ![i] = new, ![dd] = parent]
  /\ dirent' = [dirent EXCEPT ![dd][Name(p)] = i,
                              ![i] = IF more = 1 THEN [Empty EXCEPT !["."] = i, ![".."] = dd] ELSE @]
  /\ lock' = [lock EXCEPT ![s] = p, ![d] = NoProc]
  /\ DropDir(p, "created")
  /\ UNCHANGED <<call, rest, ip, long>>

\* ilock(ip), nlink = 1, ".." and its link, the entry in dp; iunlockput(dp)
\* while ip stays locked.
CreateLink(p) ==
  LET s == ip[p]  i == icache[s].inum  d == cur[p]  dd == icache[d].inum
      more == IF NewType(p) = "dir" THEN 1 ELSE 0
      new == WithLinks(dinode[i], 1)  parent == WithLinks(icache[d].copy, icache[d].copy.nlink + more)
  IN
  /\ pc[p] = "new" /\ Ilock(s)
  /\ icache' = [icache EXCEPT ![s].copy = new, ![d].copy = parent]
  /\ dinode' = [dinode EXCEPT ![i] = new, ![dd] = parent]
  /\ dirent' = [dirent EXCEPT ![dd][Name(p)] = i,
                              ![i] = IF more = 1 THEN [Empty EXCEPT !["."] = i, ![".."] = dd] ELSE @]
  /\ lock' = [lock EXCEPT ![s] = p, ![d] = NoProc]
  /\ DropDir(p, "created")
  /\ UNCHANGED <<call, rest, ip, long>>

\* create returns ip locked: mkdir puts it, open installs it.
Created(p) ==
  /\ pc[p] = "created"
  /\ lock' = [lock EXCEPT ![ip[p]] = NoProc]
  /\ IF call[p].op = "create" THEN Install(p, ip[p]) ELSE Fail(p, ip[p])
  /\ ip' = [ip EXCEPT ![p] = None]
  /\ UNCHANGED <<disk, icache, cur, cwd>>

-----------------------------------------------------------------------------
(* sys_unlink *)

\* Nothing to unlink, or "." or "..".
UnlinkFails(p) ==
  /\ pc[p] = "unlink" /\ Ilock(cur[p])
  /\ Name(p) \notin Names \/ Here(p)[Name(p)] = 0
  /\ icache' = Loaded(cur[p])
  /\ DropDir(p, "user")
  /\ UNCHANGED <<disk, lock, call, rest, ip, long>>

\* With dp locked, find the i-node.
UnlinkFind(p) ==
  LET s == cur[p]  ic == Loaded(s)  t == Here(p)[Name(p)] IN
  /\ pc[p] = "unlink" /\ Ilock(s) /\ Name(p) \in Names /\ t # 0
  /\ Get(ic, t)
  /\ ip' = [ip EXCEPT ![p] = SlotOf(ic, t)]
  /\ lock' = [lock EXCEPT ![s] = p]
  /\ Goto(p, "victim")
  /\ UNCHANGED <<disk, call, rest, cur, put, long>>

Victim(p) == dirent[icache[ip[p]].inum]
IsDirEmpty(p) == \A n \in Names : Victim(p)[n] = 0

\* A directory that is not empty: iunlockput(ip) first, dp still locked.
UnlinkRefused(p) ==
  LET s == ip[p]  ic == Loaded(s) IN
  /\ pc[p] = "victim" /\ Ilock(s)
  /\ ic[s].copy.type = "dir" /\ ~IsDirEmpty(p)
  /\ icache' = ic
  /\ ip' = [ip EXCEPT ![p] = None]
  /\ Put(p, s, "unlockdp")
  /\ UNCHANGED <<disk, lock, call, rest, cur, long>>

\* iunlockput(dp) on the way out of a failed unlink or dirlink.
UnlockDir(p) ==
  /\ pc[p] = "unlockdp"
  /\ lock' = [lock EXCEPT ![cur[p]] = NoProc]
  /\ DropDir(p, Failed(p))
  /\ UNCHANGED <<disk, icache, call, rest, ip, long>>

\* Clear the entry; iunlockput(dp) while ip stays locked.
UnlinkEntry(p) ==
  LET s == ip[p]  ic == Loaded(s)  d == cur[p]
      fewer == IF ic[s].copy.type = "dir" THEN 1 ELSE 0
      parent == WithLinks(ic[d].copy, ic[d].copy.nlink - fewer)
  IN
  /\ pc[p] = "victim" /\ Ilock(s)
  /\ ic[s].copy.type = "dir" => IsDirEmpty(p)
  /\ dirent' = [dirent EXCEPT ![icache[d].inum][Name(p)] = 0]
  /\ Update(ic, d, parent)
  /\ lock' = [lock EXCEPT ![s] = p, ![d] = NoProc]
  /\ DropDir(p, "unlinked")
  /\ UNCHANGED <<call, rest, ip, long>>

Unlinked(p) ==
  LET s == ip[p] IN
  /\ pc[p] = "unlinked"
  /\ Update(icache, s, WithLinks(icache[s].copy, icache[s].copy.nlink - 1))
  /\ lock' = [lock EXCEPT ![s] = NoProc]
  /\ ip' = [ip EXCEPT ![p] = None]
  /\ Put(p, s, "user")
  /\ UNCHANGED <<dirent, call, rest, cur, long>>

-----------------------------------------------------------------------------
(* sys_link *)

\* The old name leads to a directory.
LinkRefused(p) ==
  LET ic == Loaded(cur[p]) IN
  /\ pc[p] = "link" /\ Ilock(cur[p])
  /\ ic[cur[p]].copy.type = "dir"
  /\ icache' = ic
  /\ DropDir(p, "user")
  /\ UNCHANGED <<disk, lock, call, rest, ip, long>>

\* Count the new link before it exists, then look for its directory.
LinkOld(p) ==
  LET s == cur[p]  ic == Loaded(s)  more == WithLinks(ic[s].copy, ic[s].copy.nlink + 1) IN
  /\ pc[p] = "link" /\ Ilock(s)
  /\ ic[s].copy.type # "dir"
  /\ dinode' = [dinode EXCEPT ![icache[s].inum] = more]
  /\ ip' = [ip EXCEPT ![p] = s]
  /\ Namex(p, call[p], [ic EXCEPT ![s].copy = more], call[p].new)
  /\ UNCHANGED <<dirent, lock, call, put, long>>

LinkNew(p) ==
  LET s == cur[p] IN
  /\ pc[p] = "linkdp" /\ Ilock(s) /\ Here(p)[Name(p)] = 0
  /\ icache' = Loaded(s)
  /\ dirent' = [dirent EXCEPT ![icache[s].inum][Name(p)] = icache[ip[p]].inum]
  /\ DropDir(p, "linked")
  /\ UNCHANGED <<dinode, lock, call, rest, ip, long>>

\* dirlink finds the name in use, and puts what it names with dp locked.
LinkTaken(p) ==
  LET s == cur[p]  ic == Loaded(s)  t == Here(p)[Name(p)] IN
  /\ pc[p] = "linkdp" /\ Ilock(s) /\ t # 0
  /\ Get(ic, t)
  /\ lock' = [lock EXCEPT ![s] = p]
  /\ Put(p, SlotOf(ic, t), "unlockdp")
  /\ UNCHANGED <<disk, call, rest, cur, ip, long>>

\* bad: take the link back.
LinkBad(p) ==
  LET s == ip[p]  ic == Loaded(s) IN
  /\ pc[p] = "bad" /\ Ilock(s)
  /\ Update(ic, s, WithLinks(ic[s].copy, ic[s].copy.nlink - 1))
  /\ ip' = [ip EXCEPT ![p] = None]
  /\ Put(p, s, "user")
  /\ UNCHANGED <<dirent, lock, call, rest, cur, long>>

Linked(p) ==
  /\ pc[p] = "linked"
  /\ ip' = [ip EXCEPT ![p] = None]
  /\ Put(p, ip[p], "user")
  /\ UNCHANGED <<disk, icache, lock, call, rest, cur, long>>

-----------------------------------------------------------------------------
Next == \E p \in Procs :
  \/ \E c \in Calls[p] : Enter(p, c)
  \/ Close(p) \/ IputLock(p) \/ IputFree(p) \/ IputDrop(p) \/ Walk(p)
  \/ Open(p) \/ Chdir(p)
  \/ CreateExisting(p) \/ UseExisting(p) \/ CreateNew(p) \/ CreateLink(p) \/ Created(p)
  \/ UnlinkFails(p) \/ UnlinkFind(p) \/ UnlinkRefused(p) \/ UnlockDir(p) \/ UnlinkEntry(p) \/ Unlinked(p)
  \/ LinkRefused(p) \/ LinkOld(p) \/ LinkNew(p) \/ LinkTaken(p) \/ LinkBad(p) \/ Linked(p)

Spec == Init /\ [][Next]_vars

-----------------------------------------------------------------------------
PC == {"user", "walk", "put", "free", "drop", "open", "chdir", "create", "mkdir",
       "existing", "new", "created", "unlink", "victim", "unlockdp", "unlinked",
       "link", "linkdp", "linked", "bad"}
Dinode == [type : {"free", "file", "dir"}, nlink : Nat]
Pointer == [Procs -> Slots \cup {None}]

TypeOK == /\ dinode \in [Inums -> Dinode]
          /\ dirent \in [Inums -> [Entry -> 0..NInodes]]
          /\ icache \in [Slots -> [ref : Nat, inum : Inums, copy : Dinode \cup {Invalid}]]
          /\ lock \in [Slots -> Procs \cup {NoProc}]
          /\ pc \in [Procs -> PC] /\ then \in [Procs -> PC]
          /\ \A p \in Procs : call[p] \in Calls[p] \cup {NoCall}
          /\ rest \in [Procs -> Seq(Entry)]
          /\ cur \in Pointer /\ ip \in Pointer /\ put \in Pointer
          /\ file \in Pointer /\ cwd \in [Procs -> Slots]

\* The pointers to an entry, in flight or kept.
Pointers(s) == {r \in Procs \X {"cur", "ip", "put", "file", "cwd"} :
                  s = CASE r[2] = "cur" -> cur[r[1]] [] r[2] = "ip" -> ip[r[1]] [] r[2] = "put" -> put[r[1]]
                        [] r[2] = "file" -> file[r[1]] [] r[2] = "cwd" -> cwd[r[1]]}
\* No i-node has two entries, whose locks would exclude nobody, and the copy in
\* a valid entry is what the disk says.
CacheIsCoherent ==
  /\ \A i \in Inums : Cardinality(Entries(icache, i)) <= 1
  /\ \A s \in Slots : icache[s].ref > 0 /\ icache[s].copy # Invalid =>
                       icache[s].copy = dinode[icache[s].inum]

\* ip->ref counts the pointers to an entry, whoever takes or drops one
\* meanwhile, and an i-node that is pointed to has this one entry only.
RefsAreCounted == CacheIsCoherent /\ \A s \in Slots : icache[s].ref = Cardinality(Pointers(s))

\* An open file and a current directory keep their i-node from being freed.
OpenInodesLive == \A p \in Procs : /\ file[p] # None => dinode[icache[file[p]].inum] # Free
                                   /\ dinode[icache[cwd[p]].inum].type = "dir"

\* The process where it is, or goes after iput.
Where(p) == IF pc[p] \in {"put", "free", "drop"} THEN then[p] ELSE pc[p]

\* Entries that link i; ".." counts as long as its directory has a name.
Named(d) == d = Root \/ \E e \in Inums, n \in Names : dirent[e][n] = d
LinksTo(i) == {e \in Inums \X Entry : /\ dirent[e[1]][e[2]] = i /\ e[2] # "."
                                      /\ e[2] = ".." => Named(e[1])}
\* link counts before it writes the entry, unlink after it has cleared it.
Ahead(i) == {p \in Procs : /\ ip[p] # None /\ icache[ip[p]].inum = i
                           /\ \/ call[p].op = "link" /\ Where(p) # "linked"
                              \/ Where(p) = "unlinked"}
LinksAreCounted == \A i \in Inums : dinode[i].nlink >= Cardinality(LinksTo(i)) + Cardinality(Ahead(i))

\* panic("ilock: no type"), panic("unlink: nlink < 1"), panic("iget: no inodes").
Ilocks(p) == CASE pc[p] \in {"walk", "open", "chdir", "create", "mkdir", "unlink", "link", "linkdp"} -> {cur[p]}
               [] pc[p] \in {"existing", "new", "victim", "bad"} -> {ip[p]}
               [] OTHER -> {}
NeverPanics ==
  /\ \A p \in Procs : \A s \in Ilocks(p) : icache[s].copy # Invalid \/ dinode[icache[s].inum] # Free
  /\ \A p \in Procs : pc[p] = "victim" => dinode[icache[ip[p]].inum].nlink > 0
  /\ Unused(icache) # {}

\* What a process waits for.
Wants(p) == Ilocks(p) \cup IF pc[p] = "put" THEN {put[p]} ELSE {}

\* linkunlink in usertests.c looks for deadlocks: two processes that hold the
\* lock the other waits for.
NoDeadlock == \A p, q \in Procs : \A s \in Wants(p), t \in Wants(q) : ~(lock[s] = q /\ lock[t] = p)

\* iput frees an i-node once it has neither links nor references.
FreedAtLast == \A i \in Inums : dinode[i] # Free /\ dinode[i].nlink = 0 => Entries(icache, i) # {}
=============================================================================
