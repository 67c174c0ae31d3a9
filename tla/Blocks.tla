------------------------------- MODULE Blocks -------------------------------
(***************************************************************************)
(* Blocks and contents of files: balloc, bfree, bmap, itrunc, readi and    *)
(* writei (fs.c) under filewrite (file.c).  A file is locked for a whole   *)
(* writei or itrunc, the bitmap only for one balloc or bfree, so calls for *)
(* different files interleave between these.  The log makes what happens   *)
(* until no call is under way durable at once (module Log).  A block holds *)
(* BSIZE small numbers: bytes, or in an indirect block block numbers.      *)
(***************************************************************************)
EXTENDS Integers, FiniteSets, FiniteSetsExt

CONSTANTS
  Procs,        \* each writes its own number
  Files,        \* positive numbers
  Shared,       \* files that any process opens; the others have one, of their number
  NBlocks,      \* data blocks 1..NBlocks
  BSIZE,
  NDIRECT,
  MAXOPBLOCKS,
  Sizes,        \* numbers of bytes written
  ReadSizes,
  MaxGroup      \* calls that one commit may cover (the size of the log)

None == 0

\* 0 says that there is no file or no block.
ASSUME BlocksAssumption ==
  /\ None \notin Files /\ NBlocks \in Nat
  /\ BSIZE \in Nat \ {0} /\ NDIRECT \in Nat
  /\ MAXOPBLOCKS \in Nat /\ MAXOPBLOCKS >= 4
  /\ Sizes \subseteq Nat /\ ReadSizes \subseteq Nat

Blocks == 1..NBlocks
NINDIRECT == BSIZE
MAXFILE == NDIRECT + NINDIRECT

\* The other blocks of the disk that are logged.
Bitmap == -1
Inode == -2
Dir == -3
Gone == [i \in {-1} |-> 0]

VARIABLES
  used,     \* the free bit map
  data,     \* contents of the blocks
  dinode,   \* i-nodes as iupdate writes them
  disk,     \* used, data and dinode when the log last committed
  group,    \* calls begun since then
  ip,       \* cached i-nodes
  proc,     \* the call under way and the open file of each process
  panic

vars == <<used, data, dinode, disk, group, ip, proc, panic>>

FreeInode == [type |-> FALSE, nlink |-> 0, size |-> 0, addrs |-> [n \in 0..NDIRECT |-> None]]
Zeros == [j \in 0..(BSIZE - 1) |-> 0]
\* Whatever a free block holds; only balloc's bzero lets nobody see it.
Stale == [j \in 0..(BSIZE - 1) |-> NBlocks + 1]
Idle == [pc |-> "idle", file |-> None, off |-> 0, at |-> 0, end |-> 0, n |-> 0, logged |-> {}]

Holders(f) == {p \in Procs : proc[p].file = f}
Busy(p) == proc[p].pc \in {"write", "trunc"}
Locked(f) == \E p \in Holders(f) : Busy(p)
Do(p, pc) == ~panic /\ proc[p].pc = pc
Logs(p, blocks) == [proc EXCEPT ![p].logged = @ \cup blocks]

\* begin_op waits for a commit; end_op of the last call commits for all.
BeginOp == group < MaxGroup /\ group' = group + 1 /\ UNCHANGED disk
Commit(p, begun) ==
  IF \E q \in Procs \ {p} : Busy(q) THEN group' = begun /\ UNCHANGED disk
  ELSE group' = 0 /\ disk' = [used |-> used', data |-> data', dinode |-> dinode']
EndOp(p) == Commit(p, group)
\* A call of one step.
Op(p) == group < MaxGroup /\ Commit(p, group + 1)

(***************************************************************************)
(* bmap: block bn of a file, None where there is none yet.                 *)
(***************************************************************************)
Entry(i, d, bn) ==
  IF bn < NDIRECT THEN i.addrs[bn]
  ELSE IF i.addrs[NDIRECT] = None THEN None
  ELSE d[i.addrs[NDIRECT]][bn - NDIRECT]

\* readi: the bytes below size.
Byte(i, d, k) == d[Entry(i, d, k \div BSIZE)][k % BSIZE]
readi(i, d) == [k \in 0..(i.size - 1) |-> Byte(i, d, k)]

\* The blocks an i-node refers to, each with its place; the last place is
\* that of the indirect block.
Pointers(i, d) ==
  {<<bn, Entry(i, d, bn)>> : bn \in 0..(MAXFILE - 1)} \cup {<<MAXFILE, i.addrs[NDIRECT]>>}

(***************************************************************************)
(* Calls.                                                                  *)
(***************************************************************************)
\* open with O_CREATE; an i-node nobody holds is read from the disk.
Open(p) ==
  /\ Do(p, "idle") /\ proc[p].file = None
  /\ \E f \in {x \in Files : x = p \/ x \in Shared} :
       /\ ~Locked(f)
       /\ proc' = [proc EXCEPT ![p].file = f]
       /\ \/ /\ dinode[f].nlink > 0
             /\ ip' = [ip EXCEPT ![f] = IF Holders(f) = {} THEN dinode[f] ELSE @]
             /\ UNCHANGED dinode
          \/ /\ ~dinode[f].type
             /\ dinode' = [dinode EXCEPT ![f] = [FreeInode EXCEPT !.type = TRUE, !.nlink = 1]]
             /\ ip' = [ip EXCEPT ![f] = dinode'[f]]
  /\ UNCHANGED <<used, data, panic>>
  /\ Op(p)

\* filewrite: the bytes that go into one transaction.
Max1 == ((MAXOPBLOCKS - 1 - 1 - 2) \div 2) * BSIZE

Write(p) ==
  /\ Do(p, "idle") /\ proc[p].file # None
  /\ \E n \in Sizes : proc' = [proc EXCEPT ![p].pc = "chunk", ![p].n = n]
  /\ UNCHANGED <<used, data, dinode, disk, group, ip, panic>>

\* begin_op, ilock and the checks of writei.
Begin(p) ==
  /\ Do(p, "chunk") /\ ~Locked(proc[p].file)
  /\ LET n1 == Min({proc[p].n, Max1}) IN
       \/ /\ proc[p].off + n1 > MAXFILE * BSIZE
          /\ proc' = [proc EXCEPT ![p].pc = "idle", ![p].n = 0]
          /\ UNCHANGED <<used, data, dinode>>
          /\ Op(p)
       \/ /\ proc[p].off + n1 <= MAXFILE * BSIZE
          /\ proc' = [proc EXCEPT ![p].pc = "write", ![p].at = proc[p].off, ![p].end = proc[p].off + n1]
          /\ UNCHANGED <<used, data, dinode>>
          /\ BeginOp
  /\ UNCHANGED <<ip, panic>>

\* balloc for the pointer that bmap finds empty; out of blocks it panics.
Target(p) == proc[p].at \div BSIZE
Zeroed(b) == [data EXCEPT ![b] = Zeros]

Alloc(p) ==
  /\ Do(p, "write") /\ proc[p].at < proc[p].end
  /\ LET f == proc[p].file
         bn == Target(p)
         b == Min(Blocks \ used)
         ind == ip[f].addrs[NDIRECT]
         slot == IF bn < NDIRECT THEN bn ELSE NDIRECT
     IN  /\ Entry(ip[f], data, bn) = None
         /\ IF Blocks \subseteq used THEN panic' = TRUE /\ UNCHANGED <<used, data, ip, proc>>
            ELSE /\ used' = used \cup {b}
                 /\ \/ /\ ip[f].addrs[slot] = None
                       /\ ip' = [ip EXCEPT ![f].addrs[slot] = b]
                       /\ data' = Zeroed(b)
                       /\ proc' = Logs(p, {Bitmap, b})
                    \/ /\ ip[f].addrs[slot] # None
                       /\ data' = [Zeroed(b) EXCEPT ![ind][bn - NDIRECT] = b]
                       /\ proc' = Logs(p, {Bitmap, b, ind})
                       /\ UNCHANGED ip
                 /\ UNCHANGED panic
  /\ UNCHANGED <<dinode, disk, group>>

\* The rest of a turn of writei: up to the end of the block.
Copy(p) ==
  /\ Do(p, "write") /\ proc[p].at < proc[p].end
  /\ LET b == Entry(ip[proc[p].file], data, Target(p))
         stop == Min({proc[p].end, (Target(p) + 1) * BSIZE})
     IN  /\ b # None
         /\ data' = [data EXCEPT ![b] =
              [j \in DOMAIN @ |-> IF Target(p) * BSIZE + j \in proc[p].at..(stop - 1) THEN p ELSE @[j]]]
         /\ proc' = [Logs(p, {b}) EXCEPT ![p].at = stop]
  /\ UNCHANGED <<used, dinode, disk, group, ip, panic>>

\* The end of writei, iunlock and end_op.
Grown_wrong(i, end) == i
Grown(i, end) == [i EXCEPT !.size = end]
WriteDone(p) ==
  /\ Do(p, "write") /\ proc[p].at = proc[p].end
  /\ LET f == proc[p].file
         left == proc[p].n - (proc[p].end - proc[p].off)
         grown == Grown(ip[f], proc[p].end)
     IN  /\ IF proc[p].end > ip[f].size
              THEN ip' = [ip EXCEPT ![f] = grown] /\ dinode' = [dinode EXCEPT ![f] = grown]
              ELSE UNCHANGED <<ip, dinode>>
         /\ proc' = [proc EXCEPT ![p].pc = IF left = 0 THEN "idle" ELSE "chunk",
                                 ![p].off = proc[p].end, ![p].n = left,
                                 ![p].at = 0, ![p].end = 0, ![p].logged = {}]
  /\ UNCHANGED <<used, data, panic>>
  /\ EndOp(p)

\* fileread moves the offset; what it returns is readi's.
Read(p) ==
  /\ Do(p, "idle") /\ proc[p].file # None /\ ~Locked(proc[p].file)
  /\ proc[p].off < ip[proc[p].file].size
  /\ \E n \in ReadSizes : proc' = [proc EXCEPT ![p].off = Min({@ + n, ip[proc[p].file].size})]
  /\ UNCHANGED <<used, data, dinode, disk, group, ip, panic>>

\* unlink; the i-node goes with its last reference.
Unlink(p) ==
  /\ Do(p, "idle") /\ proc[p].file = None
  /\ \E f \in Files :
       /\ dinode[f].nlink > 0 /\ ~Locked(f)
       /\ ip' = [ip EXCEPT ![f] = [(IF Holders(f) = {} THEN dinode[f] ELSE @) EXCEPT !.nlink = 0]]
       /\ dinode' = [dinode EXCEPT ![f] = ip'[f]]
       /\ UNCHANGED <<used, data, panic>>
       /\ \/ /\ Holders(f) = {}
             /\ proc' = [proc EXCEPT ![p].pc = "trunc", ![p].file = f, ![p].logged = {Dir, Inode}]
             /\ BeginOp
          \/ /\ Holders(f) # {}
             /\ UNCHANGED proc
             /\ Op(p)

Close(p) ==
  /\ Do(p, "idle") /\ proc[p].file # None /\ ~Locked(proc[p].file)
  /\ \/ /\ ip[proc[p].file].nlink = 0 /\ Holders(proc[p].file) = {p}
        /\ proc' = [proc EXCEPT ![p].pc = "trunc"]
        /\ UNCHANGED <<used, data, dinode>>
        /\ BeginOp
     \/ /\ ip[proc[p].file].nlink > 0 \/ Holders(proc[p].file) # {p}
        /\ proc' = [proc EXCEPT ![p] = Idle]
        /\ UNCHANGED <<used, data, dinode>>
        /\ Op(p)
  /\ UNCHANGED <<ip, panic>>

\* itrunc, block by block: the direct ones, the entries of the indirect
\* block, the indirect block.
bfree(p, b, next) ==
  IF b \in used
    THEN /\ used' = used \ {b}
         /\ data' = [data EXCEPT ![b] = Stale]
         /\ proc' = [Logs(p, {Bitmap}) EXCEPT ![p].at = next]
         /\ UNCHANGED panic
    ELSE panic' = TRUE /\ UNCHANGED <<used, data, proc>>

Entries_wrong(f) == {}
Entries(f) ==
  IF ip[f].addrs[NDIRECT] = None THEN {}
  ELSE {j \in 0..(NINDIRECT - 1) : data[ip[f].addrs[NDIRECT]][j] # None}

Trunc(p) ==
  /\ Do(p, "trunc")
  /\ LET f == proc[p].file
         direct == {n \in 0..(NDIRECT - 1) : ip[f].addrs[n] # None}
         left == {j \in Entries(f) : j >= proc[p].at}
         ind == ip[f].addrs[NDIRECT]
     IN  \/ /\ direct # {}
            /\ bfree(p, ip[f].addrs[Min(direct)], 0)
            /\ ip' = [ip EXCEPT ![f].addrs[Min(direct)] = None]
         \/ /\ direct = {} /\ left # {}
            /\ bfree(p, data[ind][Min(left)], Min(left) + 1)
            /\ UNCHANGED ip
         \/ /\ direct = {} /\ left = {} /\ ind # None
            /\ bfree(p, ind, 0)
            /\ ip' = [ip EXCEPT ![f].addrs[NDIRECT] = None]
  /\ UNCHANGED <<dinode, disk, group>>

\* The iupdates of itrunc and iput, then end_op.
TruncDone(p) ==
  /\ Do(p, "trunc")
  /\ \A n \in 0..NDIRECT : ip[proc[p].file].addrs[n] = None
  /\ dinode' = [dinode EXCEPT ![proc[p].file] = FreeInode]
  /\ ip' = [ip EXCEPT ![proc[p].file] = FreeInode]
  /\ proc' = [proc EXCEPT ![p] = Idle]
  /\ UNCHANGED <<used, data, panic>>
  /\ EndOp(p)

\* A crash or a panic, and a restart from the last commit.
Crash ==
  /\ used' = disk.used /\ data' = disk.data /\ dinode' = disk.dinode
  /\ ip' = [f \in Files |-> FreeInode]
  /\ proc' = [p \in Procs |-> Idle]
  /\ panic' = FALSE
  /\ group' = 0
  /\ UNCHANGED disk

Init ==
  /\ used = {}
  /\ data = [b \in Blocks |-> Stale]
  /\ dinode = [f \in Files |-> FreeInode]
  /\ disk = [used |-> used, data |-> data, dinode |-> dinode]
  /\ group = 0
  /\ ip = [f \in Files |-> FreeInode]
  /\ proc = [p \in Procs |-> Idle]
  /\ panic = FALSE

Next ==
  \/ \E p \in Procs :
       \/ Open(p) \/ Write(p) \/ Begin(p) \/ Alloc(p) \/ Copy(p) \/ WriteDone(p)
       \/ Read(p) \/ Unlink(p) \/ Close(p) \/ Trunc(p) \/ TruncDone(p)
  \/ Crash

Spec == Init /\ [][Next]_vars

-----------------------------------------------------------------------------

\* On the disk, at any moment at which the power may fail, a block is marked
\* in the bitmap if and only if exactly one place of one i-node refers to it.
BlocksAreAccounted ==
  LET places(b) == {h \in Files \X (0..MAXFILE) :
                      <<h[2], b>> \in Pointers(disk.dinode[h[1]], disk.data)}
  IN  \A b \in Blocks : Cardinality(places(b)) = IF b \in disk.used THEN 1 ELSE 0

\* What the next reader finds: the bytes that writei has not copied yet are
\* as good as written, and a file is gone when itrunc begins.
Contents(f) ==
  LET i == IF Holders(f) = {} THEN dinode[f] ELSE ip[f]
      busy == {p \in Holders(f) : Busy(p)}
      p == CHOOSE q \in busy : TRUE
      from == proc[p].at
      end == proc[p].end
  IN  IF busy = {} THEN (IF i.type THEN readi(i, data) ELSE Gone)
      ELSE IF proc[p].pc = "trunc" THEN Gone
      ELSE [k \in 0..(Max({i.size, end}) - 1) |-> IF from <= k /\ k < end THEN p ELSE Byte(i, data, k)]
Store == INSTANCE FileStore WITH
  Values <- Procs, Chunk <- Max1,
  files <- [f \in Files |-> Contents(f)],
  durable <- [f \in Files |-> IF disk.dinode[f].type THEN readi(disk.dinode[f], disk.data) ELSE Gone]

\* Whatever blocks its bytes are in, whoever frees and takes blocks at the
\* same time and whenever the power fails, a file is the bytes written to it.
ImplementsFileStore == Store!Spec
=============================================================================
