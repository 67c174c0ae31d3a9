------------------------------ MODULE BlocksProofs ------------------------------
(***************************************************************************)
(* Proofs about Blocks, for any number of processes, files and blocks, any *)
(* sizes and any sharing of files.  On the disk every marked block has one *)
(* place in one i-node, at any moment; and the blocks implement the files  *)
(* of FileStore.  Both rest on BlkInv, what calls that interleave keep:    *)
(* block pointers and bit map agree (MemSound, and DiskInv for what is     *)
(* committed), a file has no hole below its size or where writei has been  *)
(* (Filled, InCalls), one call is busy with a file (OneBusy), and without  *)
(* one the cached i-node is the one written (Synced).                      *)
(***************************************************************************)
EXTENDS Blocks, WellFoundedInduction, FiniteSetTheorems, TLAPS

\* The places of a block number in an i-node: those that bmap looks up, and last the
\* indirect block.
Places == 0..MAXFILE
Refs == Files \X Places
BlockOrNone == Blocks \cup {None}
Addrs == [0..NDIRECT -> BlockOrNone]
InodeT == [type : BOOLEAN, nlink : {0, 1}, size : 0..(MAXFILE * BSIZE), addrs : Addrs]
BlockT == [0..(BSIZE - 1) -> Procs \cup (0..(NBlocks + 1))]
ProcT == [pc : {"idle", "chunk", "write", "trunc"}, file : Files \cup {None}, off : 0..(MAXFILE * BSIZE),
          at : Nat, end : Nat, n : Nat, logged : SUBSET (Blocks \cup {Bitmap, Inode, Dir})]
DiskT == [used : SUBSET Blocks, data : [Blocks -> BlockT], dinode : [Files -> InodeT]]

BlkTypes ==
  /\ used \subseteq Blocks /\ data \in [Blocks -> BlockT]
  /\ dinode \in [Files -> InodeT] /\ ip \in [Files -> InodeT]
  /\ disk \in DiskT /\ proc \in [Procs -> ProcT]

\* The i-node that counts, and the entries of its indirect block that itrunc has freed.
Cur(f) == IF Holders(f) = {} THEN dinode[f] ELSE ip[f]
Cut(f) == {j \in 0..(BSIZE - 1) :
             \E p \in Procs : proc[p].file = f /\ proc[p].pc = "trunc" /\ j < proc[p].at}

\* The block at place x of i-node i, and at every place of all i-nodes.
Ptr(i, d, t, x) ==
  IF x < NDIRECT THEN i.addrs[x]
  ELSE IF x = MAXFILE THEN i.addrs[NDIRECT]
  ELSE IF i.addrs[NDIRECT] = None \/ x - NDIRECT \in t THEN None
  ELSE d[i.addrs[NDIRECT]][x - NDIRECT]
Map(i, d, t) == [h \in Refs |-> Ptr(i[h[1]], d, t[h[1]], h[2])]
Curs == [f \in Files |-> Cur(f)]
Cuts == [f \in Files |-> Cut(f)]
NoCuts == [f \in Files |-> {}]

\* The blocks in use are those at some place, each at one.
Sound(u, m) ==
  /\ \A h \in Refs : m[h] \in u \cup {None}
  /\ \A h, g \in Refs : m[h] # None /\ m[h] = m[g] => h = g
  /\ \A b \in u : \E h \in Refs : m[h] = b
MemSound == Sound(used, Map(Curs, data, Cuts))

\* A file has its blocks up to its size, and an i-node that is free has none.
Starts(bn) == bn * BSIZE
HasUpTo(i, d, z) == \A bn \in 0..(MAXFILE - 1) : Starts(bn) < z => Entry(i, d, bn) # None
NoHoles(i, d) == HasUpTo(i, d, i.size)
Fresh(i) == ~i.type => i = FreeInode
InTrunc(f) == \E p \in Procs : proc[p].file = f /\ proc[p].pc = "trunc"
Filled == \A f \in Files : Fresh(dinode[f]) /\ (InTrunc(f) \/ NoHoles(Cur(f), data))

\* Where a process is in its call; x is its entry, i and e are the cached i-node of its file
\* and the one written last, d the blocks.
Writing(x, i, e, d) ==
  x.pc = "write" =>
    /\ x.off <= x.at /\ x.at <= x.end /\ x.end <= MAXFILE * BSIZE /\ x.end - x.off <= x.n
    /\ HasUpTo(i, d, x.at)
    /\ x.end <= i.size => i = e
Freeing(x, i) ==
  x.pc = "trunc" /\ x.at # 0 => i.addrs[NDIRECT] # None /\ \A n \in 0..(NDIRECT - 1) : i.addrs[n] = None
Using(x, i, e, d) ==
  /\ i.type /\ e.type
  /\ x.pc # "trunc" => x.off <= i.size
  /\ Writing(x, i, e, d) /\ Freeing(x, i)
  /\ x.pc \in {"idle", "chunk"} => x.at = 0 /\ x.end = 0
  /\ x.pc = "idle" => x.n = 0
InCall(p) ==
  IF proc[p].file = None THEN proc[p] = Idle
  ELSE Using(proc[p], ip[proc[p].file], dinode[proc[p].file], data)
InCalls == \A p \in Procs : InCall(p)

\* One process changes a file at a time, and nobody else has the file that itrunc empties.
OneBusy ==
  \A p, q \in Procs : proc[p].file = proc[q].file /\ p # q =>
    /\ ~(Busy(p) /\ Busy(q))
    /\ proc[p].pc # "trunc"
\* Between calls the cached i-node is the one that iupdate wrote.
Synced == \A f \in Files : Holders(f) # {} /\ ~Locked(f) => ip[f] = dinode[f]

DiskIs(u, d, i) ==
  /\ u \subseteq Blocks /\ Sound(u, Map(i, d, NoCuts))
  /\ \A f \in Files : Fresh(i[f]) /\ NoHoles(i[f], d)
DiskInv == DiskIs(disk.used, disk.data, disk.dinode)

BlkInv == BlkTypes /\ InCalls /\ OneBusy /\ Synced /\ Filled /\ MemSound /\ DiskInv
-----------------------------------------------------------------------------
(* Arithmetic *)

LEMMA MinIs ==
  ASSUME NEW S, S \subseteq Nat, S # {}
  PROVE  Min(S) \in S /\ \A m \in S : Min(S) <= m
<1>1. PICK k \in S : \A m \in S : <<m, k>> \notin OpToRel(<, Nat)
  BY WFMin, NatLessThanWellFounded, Zenon
<1>2. \A m \in S : k <= m
  <2> SUFFICES ASSUME NEW m \in S PROVE k <= m
    OBVIOUS
  <2>1. ~(m < k)
    BY <1>1 DEF OpToRel
  <2>2. m \in Nat /\ k \in Nat
    BY <1>1
  <2>q. QED
    BY <2>1, <2>2
<1>q. QED
  BY <1>1, <1>2 DEF Min

LEMMA MinOfTwo ==
  ASSUME NEW a \in Int, NEW b \in Int
  PROVE  Min({a, b}) = IF a <= b THEN a ELSE b
<1> DEFINE m == IF a <= b THEN a ELSE b
<1>1. m \in {a, b} /\ \A y \in {a, b} : m <= y
  OBVIOUS
<1>2. \A x \in {a, b} : (\A y \in {a, b} : x <= y) => x = m
  OBVIOUS
<1>q. QED
  BY <1>1, <1>2 DEF Min

LEMMA MaxOfTwo ==
  ASSUME NEW a \in Int, NEW b \in Int
  PROVE  Max({a, b}) = IF a >= b THEN a ELSE b
<1> DEFINE m == IF a >= b THEN a ELSE b
<1>1. m \in {a, b} /\ \A y \in {a, b} : m >= y
  OBVIOUS
<1>2. \A x \in {a, b} : (\A y \in {a, b} : x >= y) => x = m
  OBVIOUS
<1>q. QED
  BY <1>1, <1>2 DEF Max

LEMMA Sizing == BSIZE \in Nat \ {0} /\ NDIRECT \in Nat /\ MAXFILE = NDIRECT + BSIZE /\ MAXFILE \in Nat
  BY BlocksAssumption DEF MAXFILE, NINDIRECT

\* The blocks of a file begin at multiples of BSIZE.
LEMMA StartsAt ==
  ASSUME NEW a \in Int, NEW b \in Int
  PROVE  /\ Starts(a) \in Int /\ Starts(a + 1) = Starts(a) + BSIZE
         /\ a < b <=> Starts(a) < Starts(b)
         /\ a <= b <=> Starts(a) <= Starts(b)
         /\ a \in Nat => Starts(a) \in Nat
<1>1. BSIZE \in Nat \ {0}
  BY Sizing
<1>2. Starts(a) \in Int /\ Starts(b) \in Int /\ Starts(a + 1) = Starts(a) + BSIZE
  BY <1>1 DEF Starts
<1>3. ASSUME NEW x \in Int, NEW y \in Int, x < y PROVE x * BSIZE < y * BSIZE
  <2>1. (y - x) * BSIZE >= BSIZE
    BY <1>1, <1>3
  <2>2. (y - x) * BSIZE = y * BSIZE - x * BSIZE
    BY <1>1
  <2>3. x * BSIZE \in Int /\ y * BSIZE \in Int /\ (y - x) * BSIZE \in Int
    BY <1>1
  <2>q. QED
    BY <1>1, <2>1, <2>2, <2>3
<1>4. a \in Nat => Starts(a) \in Nat
  BY <1>1 DEF Starts
<1>5. a < b => Starts(a) < Starts(b)
  BY <1>3 DEF Starts
<1>6. b < a => Starts(b) < Starts(a)
  BY <1>3 DEF Starts
<1>q. QED
  BY <1>2, <1>4, <1>5, <1>6

LEMMA BlockAt ==
  ASSUME NEW k \in Nat
  PROVE  /\ k \div BSIZE \in Nat /\ k % BSIZE \in 0..(BSIZE - 1)
         /\ k = Starts(k \div BSIZE) + (k % BSIZE)
         /\ Starts(k \div BSIZE) <= k /\ k < Starts(k \div BSIZE) + BSIZE
         /\ k < MAXFILE * BSIZE => k \div BSIZE \in 0..(MAXFILE - 1)
<1>1. BSIZE \in Nat \ {0}
  BY Sizing
<1> DEFINE d == k \div BSIZE
<1>2. d \in Int /\ k % BSIZE \in 0..(BSIZE - 1) /\ k = BSIZE * d + (k % BSIZE)
  BY <1>1, SMT
<1>3. d >= 0
  <2>1. d < 0 => BSIZE * d <= -BSIZE
    BY <1>1, <1>2
  <2>q. QED
    BY <1>1, <1>2, <2>1
<1>4. Starts(d) = BSIZE * d
  BY <1>1, <1>2 DEF Starts
<1> HIDE DEF d
<1>5. k < MAXFILE * BSIZE => d < MAXFILE
  BY <1>1, <1>2, <1>4, Sizing, StartsAt DEF Starts
<1>6. k = Starts(d) + (k % BSIZE) /\ Starts(d) \in Int
  BY <1>1, <1>2, <1>4, StartsAt
<1>q. QED
  BY <1>1, <1>2, <1>3, <1>5, <1>6, Sizing DEF d

\* The byte at position Starts(n) + j is in block n.
LEMMA BlockIs ==
  ASSUME NEW n \in Nat, NEW j \in 0..(BSIZE - 1)
  PROVE  (Starts(n) + j) \div BSIZE = n /\ (Starts(n) + j) % BSIZE = j
<1> DEFINE k == Starts(n) + j
<1>1. k \in Nat /\ BSIZE \in Nat \ {0} /\ Starts(n) \in Nat
  BY Sizing, StartsAt
<1>2. /\ k \div BSIZE \in Nat /\ Starts(k \div BSIZE) <= k /\ k < Starts(k \div BSIZE) + BSIZE
      /\ k = Starts(k \div BSIZE) + (k % BSIZE) /\ k % BSIZE \in 0..(BSIZE - 1)
  BY <1>1, BlockAt
<1> DEFINE d == k \div BSIZE
<1> HIDE DEF d
<1>3. d \in Nat /\ Starts(d) \in Nat /\ Starts(d) < Starts(n + 1) /\ Starts(n) < Starts(d + 1)
  <2>1. d \in Nat /\ Starts(d) <= k /\ k < Starts(d) + BSIZE
    BY <1>2 DEF d
  <2>2. Starts(d) \in Nat /\ Starts(d + 1) = Starts(d) + BSIZE /\ Starts(n + 1) = Starts(n) + BSIZE
    BY <2>1, StartsAt
  <2>3. Starts(n) <= k /\ k < Starts(n) + BSIZE
    BY <1>1
  <2>q. QED
    BY <1>1, <2>1, <2>2, <2>3
<1>4. d < n + 1 /\ n < d + 1
  BY <1>3, StartsAt
<1>q. QED
  BY <1>1, <1>2, <1>3, <1>4 DEF d
-----------------------------------------------------------------------------
(* Places and blocks *)

LEMMA NoneIsNoBlock == None \notin Blocks /\ None = 0
  BY DEF None, Blocks

LEMMA MapIs ==
  ASSUME NEW i, NEW d, NEW t, NEW f \in Files, NEW x \in Places
  PROVE  <<f, x>> \in Refs /\ Map(i, d, t)[<<f, x>>] = Ptr(i[f], d, t[f], x)
  BY DEF Map, Refs

LEMMA RefIs ==
  ASSUME NEW h \in Refs
  PROVE  h[1] \in Files /\ h[2] \in Places /\ h = <<h[1], h[2]>>
  BY DEF Refs

\* A block is taken for a place that had none.
LEMMA TakenIsSound ==
  ASSUME NEW u, NEW m, NEW z, NEW b, NEW h \in Refs,
         Sound(u, m), None \notin u, b \notin u, b # None, m[h] = None,
         \A g \in Refs : z[g] = IF g = h THEN b ELSE m[g]
  PROVE  Sound(u \cup {b}, z)
<1>1. \A g \in Refs : z[g] \in (u \cup {b}) \cup {None}
  BY DEF Sound
<1>2. \A g \in Refs : m[g] # b
  BY DEF Sound
<1>3. \A g, k \in Refs : z[g] # None /\ z[g] = z[k] => g = k
  BY <1>2 DEF Sound
<1>4. \A a \in u \cup {b} : \E g \in Refs : z[g] = a
  <2> SUFFICES ASSUME NEW a \in u \cup {b} PROVE \E g \in Refs : z[g] = a
    OBVIOUS
  <2>1. CASE a = b
    BY <2>1
  <2>2. CASE a \in u /\ a # b
    <3>1. PICK g \in Refs : m[g] = a
      BY <2>2 DEF Sound
    <3>2. a = None => FALSE
      BY <2>2 DEF Sound
    <3>q. QED
      BY <3>1, <3>2
  <2>q. QED
    BY <2>1, <2>2
<1>q. QED
  BY <1>1, <1>3, <1>4 DEF Sound

\* A place gives up its block.
LEMMA GivenIsSound ==
  ASSUME NEW u, NEW m, NEW z, NEW h \in Refs,
         Sound(u, m), m[h] # None,
         \A g \in Refs : z[g] = IF g = h THEN None ELSE m[g]
  PROVE  Sound(u \ {m[h]}, z) /\ m[h] \in u
  BY DEF Sound

LEMMA SameIsSound ==
  ASSUME NEW u, NEW m, NEW z, Sound(u, m), \A g \in Refs : z[g] = m[g]
  PROVE  Sound(u, z)
  BY DEF Sound

\* An i-node's pointers depend on its addresses and its indirect block.
LEMMA PtrSame ==
  ASSUME NEW i, NEW j, NEW d, NEW e, NEW t, NEW x,
         i.addrs = j.addrs, i.addrs[NDIRECT] # None => d[i.addrs[NDIRECT]] = e[i.addrs[NDIRECT]]
  PROVE  Ptr(i, d, t, x) = Ptr(j, e, t, x)
  BY DEF Ptr

LEMMA EntrySame ==
  ASSUME NEW i, NEW j, NEW d, NEW e, NEW x,
         i.addrs = j.addrs, i.addrs[NDIRECT] # None => d[i.addrs[NDIRECT]] = e[i.addrs[NDIRECT]]
  PROVE  Entry(i, d, x) = Entry(j, e, x)
  BY DEF Entry

LEMMA EntryIsPtr ==
  ASSUME NEW i, NEW d, NEW x \in 0..(MAXFILE - 1)
  PROVE  Ptr(i, d, {}, x) = Entry(i, d, x) /\ Ptr(i, d, {}, MAXFILE) = i.addrs[NDIRECT]
  BY Sizing DEF Ptr, Entry

LEMMA HasSame ==
  ASSUME NEW i, NEW j, NEW d, NEW e, NEW y, NEW z, HasUpTo(i, d, y),
         \A bn \in 0..(MAXFILE - 1) : Entry(j, e, bn) = Entry(i, d, bn) \/ Entry(j, e, bn) # None,
         \A bn \in 0..(MAXFILE - 1) : Starts(bn) < z => Starts(bn) < y
  PROVE  HasUpTo(j, e, z)
  BY DEF HasUpTo
-----------------------------------------------------------------------------
(* Files and their holders *)

LEMMA ConstantsAre ==
  /\ FreeInode \in InodeT /\ FreeInode.type = FALSE /\ FreeInode.size = 0
  /\ \A n \in 0..NDIRECT : FreeInode.addrs[n] = None
  /\ Zeros \in BlockT /\ Stale \in BlockT /\ Idle \in ProcT
<1>1. 0 \in 0..(MAXFILE * BSIZE) /\ 0 \in 0..(NBlocks + 1) /\ NBlocks + 1 \in 0..(NBlocks + 1)
  <2>1. MAXFILE * BSIZE \in Nat
    BY Sizing
  <2>q. QED
    BY <2>1, BlocksAssumption
<1>2. [n \in 0..NDIRECT |-> None] \in Addrs
  BY DEF Addrs, BlockOrNone
<1>3. FreeInode \in InodeT
  BY <1>1, <1>2 DEF FreeInode, InodeT
<1>4. Zeros \in BlockT /\ Stale \in BlockT
  BY <1>1 DEF Zeros, Stale, BlockT
<1>5. Idle \in ProcT
  BY <1>1 DEF Idle, ProcT
<1>q. QED
  BY <1>3, <1>4, <1>5 DEF FreeInode

LEMMA ProcParts ==
  ASSUME BlkTypes, NEW p \in Procs
  PROVE  /\ proc[p] \in ProcT /\ proc[p].pc \in {"idle", "chunk", "write", "trunc"}
         /\ proc[p].file \in Files \cup {None}
         /\ proc[p].off \in Nat /\ proc[p].at \in Nat /\ proc[p].end \in Nat /\ proc[p].n \in Nat
         /\ proc[p].off <= MAXFILE * BSIZE /\ MAXFILE * BSIZE \in Nat
<1>1. proc[p] \in ProcT
  BY DEF BlkTypes
<1>2. MAXFILE * BSIZE \in Nat
  BY Sizing
<1>3. proc[p].off \in 0..(MAXFILE * BSIZE)
  BY <1>1 DEF ProcT
<1>q. QED
  BY <1>1, <1>2, <1>3 DEF ProcT

LEMMA InodeParts ==
  ASSUME NEW i \in InodeT
  PROVE  /\ i.type \in BOOLEAN /\ i.nlink \in {0, 1} /\ i.size \in Nat /\ i.size <= MAXFILE * BSIZE
         /\ i.addrs \in Addrs /\ \A n \in 0..NDIRECT : i.addrs[n] \in BlockOrNone
         /\ i.addrs[NDIRECT] \in BlockOrNone
<1>1. MAXFILE * BSIZE \in Nat /\ NDIRECT \in 0..NDIRECT
  BY Sizing
<1>2. i.size \in 0..(MAXFILE * BSIZE) /\ i.addrs \in Addrs /\ i.type \in BOOLEAN /\ i.nlink \in {0, 1}
  BY DEF InodeT
<1>q. QED
  BY <1>1, <1>2 DEF Addrs

LEMMA FileParts ==
  ASSUME BlkTypes, NEW f \in Files
  PROVE  ip[f] \in InodeT /\ dinode[f] \in InodeT /\ Cur(f) \in InodeT
  BY DEF BlkTypes, Cur

LEMMA HoldersAre ==
  ASSUME NEW f
  PROVE  /\ \A p : p \in Holders(f) <=> p \in Procs /\ proc[p].file = f
         /\ Locked(f) <=> \E p \in Procs : proc[p].file = f /\ Busy(p)
  BY DEF Holders, Locked

\* A process that has a file is one of those for which its cached i-node is kept.
LEMMA CallIs ==
  ASSUME BlkInv, NEW p \in Procs, proc[p].file # None
  PROVE  /\ proc[p].file \in Files /\ Cur(proc[p].file) = ip[proc[p].file]
         /\ Using(proc[p], ip[proc[p].file], dinode[proc[p].file], data)
         /\ ip[proc[p].file].type /\ dinode[proc[p].file].type
<1>1. proc[p].file \in Files
  BY ProcParts DEF BlkInv
<1>2. p \in Holders(proc[p].file)
  BY HoldersAre
<1>q. QED
  BY <1>1, <1>2 DEF BlkInv, InCalls, InCall, Cur, Using

LEMMA NoFileIs ==
  ASSUME BlkInv, NEW p \in Procs
  PROVE  /\ proc[p].pc # "idle" => proc[p].file # None
         /\ proc[p].file = None => proc[p] = Idle
  BY DEF BlkInv, InCalls, InCall, Idle

LEMMA BusyIs ==
  ASSUME BlkInv, NEW p \in Procs, Busy(p)
  PROVE  /\ proc[p].file # None /\ Locked(proc[p].file)
         /\ \A q \in Procs : proc[q].file = proc[p].file /\ q # p => ~Busy(q)
         /\ proc[p].pc = "trunc" => Holders(proc[p].file) = {p}
<1>1. proc[p].file # None
  BY NoFileIs DEF Busy
<1>2. proc[p].pc = "trunc" => Holders(proc[p].file) = {p}
  BY DEF Holders, BlkInv, OneBusy
<1>q. QED
  BY <1>1, <1>2, HoldersAre DEF BlkInv, OneBusy

LEMMA UnlockedIs ==
  ASSUME NEW f, ~Locked(f)
  PROVE  /\ Cut(f) = {} /\ ~InTrunc(f)
         /\ \A q \in Procs : proc[q].file = f => ~Busy(q)
  BY HoldersAre DEF Cut, InTrunc, Busy

LEMMA UnlockedCur ==
  ASSUME BlkInv, NEW f \in Files, ~Locked(f)
  PROVE  Cur(f) = dinode[f] /\ (Holders(f) # {} => ip[f] = dinode[f])
  BY DEF BlkInv, Synced, Cur

LEMMA CutIs ==
  ASSUME BlkInv, NEW p \in Procs, Busy(p)
  PROVE  /\ proc[p].pc = "trunc" => Cut(proc[p].file) = {j \in 0..(BSIZE - 1) : j < proc[p].at}
         /\ proc[p].pc = "write" => Cut(proc[p].file) = {} /\ ~InTrunc(proc[p].file)
<1>1. \A q \in Procs : proc[q].file = proc[p].file /\ proc[q].pc = "trunc" => q = p
  BY BusyIs DEF Busy
<1>q. QED
  BY <1>1 DEF Cut, InTrunc, Busy

\* What Sound says of the files as they are.
At(f, x) == Ptr(Cur(f), data, Cut(f), x)
LEMMA PlaceIs ==
  ASSUME NEW f \in Files, NEW x \in Places
  PROVE  /\ <<f, x>> \in Refs
         /\ Map(Curs, data, Cuts)[<<f, x>>] = At(f, x)
         /\ Map(Curs', data', Cuts')[<<f, x>>] = At(f, x)'
<1>1. Curs[f] = Cur(f) /\ Cuts[f] = Cut(f) /\ Curs'[f] = Cur(f)' /\ Cuts'[f] = Cut(f)'
  BY DEF Curs, Cuts
<1>2. Map(Curs, data, Cuts)[<<f, x>>] = Ptr(Curs[f], data, Cuts[f], x) /\ <<f, x>> \in Refs
  BY MapIs
<1>3. Map(Curs', data', Cuts')[<<f, x>>] = Ptr(Curs'[f], data', Cuts'[f], x)
  BY MapIs
<1>q. QED
  BY <1>1, <1>2, <1>3 DEF At
LEMMA SoundIs ==
  ASSUME BlkInv
  PROVE  /\ \A f \in Files, x \in Places : At(f, x) \in used \cup {None}
         /\ \A f, g \in Files, x, y \in Places : At(f, x) # None /\ At(f, x) = At(g, y) => f = g /\ x = y
         /\ \A f \in Files : At(f, MAXFILE) = Cur(f).addrs[NDIRECT] /\ MAXFILE \in Places
         /\ None \notin used
<1>1. \A f \in Files, x \in Places : <<f, x>> \in Refs /\ Map(Curs, data, Cuts)[<<f, x>>] = At(f, x)
  BY PlaceIs
<1>2. Sound(used, Map(Curs, data, Cuts))
  BY DEF BlkInv, MemSound
<1>3. \A f \in Files : At(f, MAXFILE) = Cur(f).addrs[NDIRECT] /\ MAXFILE \in Places
  BY Sizing DEF At, Ptr, Places
<1>4. None \notin used
  BY NoneIsNoBlock DEF BlkInv, BlkTypes
<1>5. \A f \in Files, x \in Places : At(f, x) \in used \cup {None}
  BY <1>1, <1>2 DEF Sound
<1>6. ASSUME NEW f \in Files, NEW g \in Files, NEW x \in Places, NEW y \in Places,
             At(f, x) # None, At(f, x) = At(g, y)
      PROVE  f = g /\ x = y
  <2> DEFINE m == Map(Curs, data, Cuts)
  <2>2. /\ <<f, x>> \in Refs /\ <<g, y>> \in Refs
        /\ m[<<f, x>>] # None /\ m[<<f, x>>] = m[<<g, y>>]
    BY <1>1, <1>6
  <2>3. \A h, k \in Refs : m[h] # None /\ m[h] = m[k] => h = k
    BY <1>2 DEF Sound
  <2> HIDE DEF m
  <2>1. <<f, x>> = <<g, y>>
    BY <2>2, <2>3
  <2>q. QED
    BY <2>1
<1>q. QED
  BY <1>3, <1>4, <1>5, <1>6

LEMMA OnePlace ==
  ASSUME BlkInv, NEW f \in Files, NEW g \in Files, NEW x \in Places, NEW y \in Places,
         At(f, x) # None, At(f, x) = At(g, y)
  PROVE  f = g /\ x = y
  BY SoundIs
-----------------------------------------------------------------------------
(* Steps of one process on one file *)

Alone(p) == \A q \in Procs : q # p => proc'[q] = proc[q]
Rest(p, f) ==
  /\ Alone(p)
  /\ proc[p].file = None \/ proc[p].file = f
  /\ proc'[p].file = None \/ proc'[p].file = f
  /\ \A g \in Files : g # f =>
       /\ ip'[g] = ip[g] /\ dinode'[g] = dinode[g]
       /\ Cur(g).addrs[NDIRECT] # None => data'[Cur(g).addrs[NDIRECT]] = data[Cur(g).addrs[NDIRECT]]

\* A step that changes no block in use but those of the file.
Within(f) == \A a \in used : data'[a] # data[a] => \E x \in Places : At(f, x) = a

LEMMA AwayIs ==
  ASSUME NEW p \in Procs, NEW f \in Files, Rest(p, f), NEW g \in Files, g # f
  PROVE  /\ Holders(g)' = Holders(g) /\ Cut(g)' = Cut(g) /\ Cur(g)' = Cur(g)
         /\ (InTrunc(g)' <=> InTrunc(g)) /\ (Locked(g)' <=> Locked(g))
         /\ \A x : At(g, x)' = At(g, x)
         /\ \A x : Entry(Cur(g)', data', x) = Entry(Cur(g), data, x)
<1>1. \A q \in Procs : proc'[q].file = g \/ proc[q].file = g => proc'[q] = proc[q]
  BY BlocksAssumption DEF Rest, Alone
<1>2. Holders(g)' = Holders(g)
  BY <1>1 DEF Holders
<1>3. Cut(g)' = Cut(g)
  BY <1>1 DEF Cut
<1>4. InTrunc(g)' <=> InTrunc(g)
  BY <1>1 DEF InTrunc
<1>5. Locked(g)' <=> Locked(g)
  BY <1>1 DEF Locked, Holders, Busy
<1>6. Cur(g)' = Cur(g)
  BY <1>2 DEF Cur, Rest
<1>7. Cur(g).addrs[NDIRECT] # None => data'[Cur(g).addrs[NDIRECT]] = data[Cur(g).addrs[NDIRECT]]
  BY DEF Rest
<1>8. \A x : At(g, x)' = At(g, x)
  BY <1>3, <1>6, <1>7, PtrSame DEF At
<1>9. \A x : Entry(Cur(g)', data', x) = Entry(Cur(g), data, x)
  BY <1>6, <1>7, EntrySame
<1>q. QED
  BY <1>2, <1>3, <1>4, <1>5, <1>6, <1>8, <1>9

\* The other users of the file see it no smaller than before.
Welcomes(p, f) ==
  /\ \A q \in Procs : q # p /\ proc[q].file = f =>
       /\ ~Busy(q) /\ proc'[p].pc # "trunc"
       /\ ip'[f].type /\ dinode'[f].type /\ ip[f].size <= ip'[f].size
LEMMA KeepsCalls ==
  ASSUME BlkInv, BlkTypes', NEW p \in Procs, NEW f \in Files, Rest(p, f), InCall(p)', Welcomes(p, f)
  PROVE  InCalls' /\ OneBusy'
<1>1. ASSUME NEW q \in Procs, q # p PROVE InCall(q)'
  <2>1. proc'[q] = proc[q] /\ InCall(q)
    BY <1>1 DEF Rest, Alone, BlkInv, InCalls
  <2>2. CASE proc[q].file = None
    BY <2>1, <2>2 DEF InCall
  <2>3. CASE proc[q].file = f
    <3>1. /\ ~Busy(q) /\ ip'[f].type /\ dinode'[f].type /\ ip[f].size <= ip'[f].size
      BY <1>1, <2>3 DEF Welcomes
    <3>2. Using(proc[q], ip[f], dinode[f], data) /\ f # None
      BY <2>1, <2>3, BlocksAssumption DEF InCall
    <3>3. proc[q].off \in Int /\ ip[f].size \in Int /\ ip'[f].size \in Int
      <4>1. ip[f] \in InodeT /\ ip'[f] \in InodeT
        BY DEF BlkInv, BlkTypes
      <4>q. QED
        BY <4>1, InodeParts, ProcParts DEF BlkInv
    <3>4. Using(proc[q], ip'[f], dinode'[f], data')
      BY <3>1, <3>2, <3>3 DEF Using, Busy, Writing, Freeing
    <3>q. QED
      BY <2>1, <2>3, <3>2, <3>4 DEF InCall
  <2>4. CASE proc[q].file # None /\ proc[q].file # f
    <3>p. PICK g \in Files : g = proc[q].file
      BY <2>4, CallIs
    <3>1. g \in Files /\ Cur(g) = ip[g] /\ Using(proc[q], ip[g], dinode[g], data)
      BY <2>4, <3>p, CallIs
    <3>0. g # f
      BY <2>4, <3>p
    <3>2. /\ Holders(g)' = Holders(g) /\ Cur(g)' = Cur(g)
          /\ \A x : Entry(Cur(g)', data', x) = Entry(Cur(g), data, x)
      BY <3>0, <3>1, AwayIs
    <3>5. ip'[g] = ip[g] /\ dinode'[g] = dinode[g] /\ Cur(g)' = ip[g]
      BY <3>0, <3>1, <3>2 DEF Rest
    <3>3. \A z : HasUpTo(ip'[g], data', z) <=> HasUpTo(ip[g], data, z)
      BY <3>1, <3>2, <3>5 DEF HasUpTo
    <3>4. Using(proc[q], ip'[g], dinode'[g], data')
      BY <3>1, <3>3, <3>5 DEF Using, Writing, Freeing
    <3>q. QED
      BY <2>1, <2>4, <3>4, <3>p DEF InCall
  <2>q. QED
    BY <2>2, <2>3, <2>4
<1>2. ASSUME NEW q \in Procs, q # p, proc'[q].file = proc'[p].file
      PROVE  ~Busy(q)' /\ proc'[q].pc # "trunc" /\ proc'[p].pc # "trunc"
  <2>1. proc'[q] = proc[q]
    BY <1>2 DEF Rest, Alone
  <2>2. CASE proc[q].file = None
    BY <1>2, <2>1, <2>2, NoFileIs DEF InCall, Idle, Busy
  <2>3. CASE proc[q].file = f
    BY <1>2, <2>1, <2>3 DEF Welcomes, Busy
  <2>q. QED
    BY <1>2, <2>1, <2>2, <2>3 DEF Rest
<1>3. ASSUME NEW q \in Procs, NEW r \in Procs, q # p, r # p, q # r, proc'[q].file = proc'[r].file
      PROVE  ~(Busy(q)' /\ Busy(r)') /\ proc'[q].pc # "trunc"
  BY <1>3 DEF Rest, Alone, BlkInv, OneBusy, Busy
<1>4. OneBusy'
  BY <1>2, <1>3 DEF OneBusy
<1>q. QED
  BY <1>1, <1>4 DEF InCalls

LEMMA KeepsFilled ==
  ASSUME BlkInv, NEW p \in Procs, NEW f \in Files, Rest(p, f),
         Fresh(dinode'[f]), InTrunc(f)' \/ NoHoles(Cur(f)', data')
  PROVE  Filled'
<1>1. ASSUME NEW g \in Files, g # f PROVE Fresh(dinode'[g]) /\ (InTrunc(g)' \/ NoHoles(Cur(g)', data'))
  <2>1. Fresh(dinode[g]) /\ (InTrunc(g) \/ NoHoles(Cur(g), data))
    BY DEF BlkInv, Filled
  <2>2. /\ Cur(g)' = Cur(g) /\ (InTrunc(g)' <=> InTrunc(g)) /\ dinode'[g] = dinode[g]
        /\ \A x : Entry(Cur(g)', data', x) = Entry(Cur(g), data, x)
    BY <1>1, AwayIs DEF Rest
  <2>q. QED
    BY <2>1, <2>2 DEF NoHoles, HasUpTo
<1>q. QED
  BY <1>1 DEF Filled

LEMMA KeepsSynced ==
  ASSUME BlkInv, NEW p \in Procs, NEW f \in Files, Rest(p, f),
         Locked(f)' \/ Holders(f)' = {} \/ ip'[f] = dinode'[f]
  PROVE  Synced'
<1>1. ASSUME NEW g \in Files, g # f PROVE Holders(g)' # {} /\ ~Locked(g)' => ip'[g] = dinode'[g]
  BY <1>1, AwayIs DEF Rest, BlkInv, Synced
<1>q. QED
  BY <1>1 DEF Synced

\* A step that leaves every place of the file as it was, or one but for a block taken or given back.
LEMMA KeepsSound ==
  ASSUME BlkInv, NEW p \in Procs, NEW f \in Files, Rest(p, f), used' = used,
         \A x \in Places : At(f, x)' = At(f, x)
  PROVE  MemSound'
<1>1. \A g \in Files, x \in Places : At(g, x)' = At(g, x)
  BY AwayIs
<1>2. \A h \in Refs : Map(Curs', data', Cuts')[h] = Map(Curs, data, Cuts)[h]
  BY <1>1, RefIs, PlaceIs
<1>q. QED
  BY <1>2, SameIsSound DEF BlkInv, MemSound

LEMMA TakesSound ==
  ASSUME BlkInv, NEW p \in Procs, NEW f \in Files, Rest(p, f), NEW y \in Places, NEW b \in Blocks,
         b \notin used, used' = used \cup {b}, At(f, y) = None,
         \A x \in Places : At(f, x)' = IF x = y THEN b ELSE At(f, x)
  PROVE  MemSound'
<1>1. \A g \in Files, x \in Places : g # f => At(g, x)' = At(g, x)
  BY AwayIs
<1>2. \A g \in Files, x \in Places : <<g, x>> \in Refs /\ Map(Curs, data, Cuts)[<<g, x>>] = At(g, x)
  BY PlaceIs
<1>3. \A g \in Files, x \in Places : Map(Curs', data', Cuts')[<<g, x>>] = At(g, x)'
  BY PlaceIs
<1>4. ASSUME NEW h \in Refs
      PROVE  Map(Curs', data', Cuts')[h] = IF h = <<f, y>> THEN b ELSE Map(Curs, data, Cuts)[h]
  <2>1. h[1] \in Files /\ h[2] \in Places /\ h = <<h[1], h[2]>>
    BY RefIs
  <2>2. h = <<f, y>> <=> h[1] = f /\ h[2] = y
    BY <2>1
  <2>q. QED
    BY <1>1, <1>2, <1>3, <2>1, <2>2
<1>q. QED
  <2> DEFINE m == Map(Curs, data, Cuts)
             z == Map(Curs', data', Cuts')
             h == <<f, y>>
  <2>1. h \in Refs /\ m[h] = None /\ \A g \in Refs : z[g] = IF g = h THEN b ELSE m[g]
    BY <1>2, <1>4
  <2>2. Sound(used, m) /\ None \notin used /\ b # None
    BY NoneIsNoBlock, SoundIs DEF BlkInv, MemSound
  <2> HIDE DEF m, z, h
  <2>3. Sound(used \cup {b}, z)
    BY <2>1, <2>2, TakenIsSound
  <2>q. QED
    BY <2>3 DEF MemSound, z

LEMMA GivesSound ==
  ASSUME BlkInv, NEW p \in Procs, NEW f \in Files, Rest(p, f), NEW y \in Places,
         At(f, y) # None, used' = used \ {At(f, y)},
         \A x \in Places : At(f, x)' = IF x = y THEN None ELSE At(f, x)
  PROVE  MemSound'
<1>1. \A g \in Files, x \in Places : g # f => At(g, x)' = At(g, x)
  BY AwayIs
<1>2. \A g \in Files, x \in Places : <<g, x>> \in Refs /\ Map(Curs, data, Cuts)[<<g, x>>] = At(g, x)
  BY PlaceIs
<1>3. \A g \in Files, x \in Places : Map(Curs', data', Cuts')[<<g, x>>] = At(g, x)'
  BY PlaceIs
<1>4. ASSUME NEW h \in Refs
      PROVE  Map(Curs', data', Cuts')[h] = IF h = <<f, y>> THEN None ELSE Map(Curs, data, Cuts)[h]
  <2>1. h[1] \in Files /\ h[2] \in Places /\ h = <<h[1], h[2]>>
    BY RefIs
  <2>2. h = <<f, y>> <=> h[1] = f /\ h[2] = y
    BY <2>1
  <2>q. QED
    BY <1>1, <1>2, <1>3, <2>1, <2>2
<1>q. QED
  <2> DEFINE m == Map(Curs, data, Cuts)
             z == Map(Curs', data', Cuts')
             h == <<f, y>>
  <2>1. h \in Refs /\ m[h] = At(f, y) /\ \A g \in Refs : z[g] = IF g = h THEN None ELSE m[g]
    BY <1>2, <1>4
  <2>2. Sound(used, m)
    BY DEF BlkInv, MemSound
  <2> HIDE DEF m, z, h
  <2>3. Sound(used \ {m[h]}, z)
    BY <2>1, <2>2, GivenIsSound
  <2>q. QED
    BY <2>1, <2>3 DEF MemSound, z

\* What a commit writes is accounted, since nobody is in the middle of a call.
LEMMA CommitKeeps ==
  ASSUME BlkInv, NEW p \in Procs, NEW k, Commit(p, k), Alone(p), ~Busy(p)',
         BlkTypes', Synced', Filled', MemSound'
  PROVE  DiskInv'
<1>1. CASE UNCHANGED disk
  BY <1>1 DEF BlkInv, DiskInv
<1>2. CASE /\ \A q \in Procs : q # p => ~Busy(q)
           /\ disk' = [used |-> used', data |-> data', dinode |-> dinode']
  <2>1. \A q \in Procs : ~Busy(q)'
    BY <1>2 DEF Alone, Busy
  <2>2. \A f \in Files : ~Locked(f)' /\ ~InTrunc(f)' /\ Cut(f)' = {}
    BY <2>1 DEF Locked, Holders, InTrunc, Cut, Busy
  <2>3. \A f \in Files : Cur(f)' = dinode'[f]
    BY <2>2 DEF Synced, Cur
  <2>4. \A h \in Refs : Map(dinode', data', NoCuts)[h] = Map(Curs', data', Cuts')[h]
    <3>1. ASSUME NEW f \in Files, NEW x \in Places
          PROVE  Map(dinode', data', NoCuts)[<<f, x>>] = Map(Curs', data', Cuts')[<<f, x>>]
      <4>1. Curs'[f] = dinode'[f] /\ Cuts'[f] = {} /\ NoCuts[f] = {}
        BY <2>2, <2>3 DEF Curs, Cuts, NoCuts
      <4>2. Map(dinode', data', NoCuts)[<<f, x>>] = Ptr(dinode'[f], data', NoCuts[f], x)
        BY MapIs
      <4>3. Map(Curs', data', Cuts')[<<f, x>>] = Ptr(Curs'[f], data', Cuts'[f], x)
        BY MapIs
      <4>q. QED
        BY <4>1, <4>2, <4>3
    <3>q. QED
      BY <3>1, RefIs
  <2>5. Sound(used', Map(dinode', data', NoCuts))
    BY <2>4, SameIsSound DEF MemSound
  <2>6. \A f \in Files : Fresh(dinode'[f]) /\ NoHoles(dinode'[f], data')
    BY <2>2, <2>3 DEF Filled
  <2>q. QED
    BY <1>2, <2>5, <2>6 DEF DiskInv, DiskIs, BlkTypes
<1>q. QED
  BY <1>1, <1>2 DEF Commit
-----------------------------------------------------------------------------
(* Calls that move no block *)

LEMMA StutterKeeps ==
  ASSUME BlkInv, UNCHANGED <<used, data, dinode, disk, ip, proc>>
  PROVE  BlkInv'
<1>1. \A f : Holders(f)' = Holders(f)
  BY DEF Holders
<1>2. \A f : Cur(f)' = Cur(f) /\ Cut(f)' = Cut(f) /\ (InTrunc(f)' <=> InTrunc(f)) /\ (Locked(f)' <=> Locked(f))
  BY <1>1 DEF Cur, Cut, InTrunc, Locked, Busy
<1>3. Curs' = Curs /\ Cuts' = Cuts
  BY <1>2 DEF Curs, Cuts
<1>4. BlkTypes' /\ InCalls' /\ OneBusy' /\ DiskInv'
  BY DEF BlkInv, BlkTypes, InCalls, InCall, OneBusy, Busy, DiskInv
<1>5. Synced' /\ Filled'
  BY <1>1, <1>2 DEF BlkInv, Synced, Filled
<1>6. MemSound'
  BY <1>3 DEF BlkInv, MemSound
<1>q. QED
  BY <1>4, <1>5, <1>6 DEF BlkInv

\* A process that is between calls keeps its file, and so do all others.
LEMMA StillIs ==
  ASSUME NEW p \in Procs, Alone(p), proc'[p].file = proc[p].file, ~Busy(p), ~Busy(p)',
         UNCHANGED <<data, dinode, ip>>, NEW g
  PROVE  /\ Holders(g)' = Holders(g) /\ Cut(g)' = Cut(g) /\ Cur(g)' = Cur(g)
         /\ (InTrunc(g)' <=> InTrunc(g)) /\ (Locked(g)' <=> Locked(g))
         /\ \A x : At(g, x)' = At(g, x)
<1>1. Holders(g)' = Holders(g)
  BY DEF Holders, Alone
<1>2. Cut(g)' = Cut(g)
  BY DEF Cut, Alone, Busy
<1>3. InTrunc(g)' <=> InTrunc(g)
  BY DEF InTrunc, Alone, Busy
<1>4. Locked(g)' <=> Locked(g)
  <2>1. \A q \in Procs : (proc'[q].file = g <=> proc[q].file = g) /\ (Busy(q)' <=> Busy(q))
    BY DEF Alone, Busy
  <2>q. QED
    BY <2>1 DEF Locked, Holders
<1>5. Cur(g)' = Cur(g)
  BY <1>1 DEF Cur
<1>q. QED
  BY <1>1, <1>2, <1>3, <1>4, <1>5 DEF At

LEMMA StepIs ==
  ASSUME BlkTypes, NEW p \in Procs, NEW x, proc' = [proc EXCEPT ![p] = x]
  PROVE  /\ proc'[p] = x /\ Alone(p)
         /\ x \in ProcT => proc' \in [Procs -> ProcT]
  BY DEF BlkTypes, Alone

\* The disk is as before or gets what a commit writes.
LEMMA CommitTypes ==
  ASSUME BlkInv, NEW p, NEW k, Commit(p, k) \/ disk' = disk,
         used' \subseteq Blocks, data' \in [Blocks -> BlockT], dinode' \in [Files -> InodeT]
  PROVE  disk' \in DiskT
  BY DEF Commit, BlkInv, BlkTypes, DiskT

\* A step between calls.
Quiet(p) ==
  /\ Alone(p) /\ proc'[p].file = proc[p].file /\ ~Busy(p) /\ ~Busy(p)'
  /\ UNCHANGED <<used, data, dinode, ip>>
  /\ Commit(p, group + 1) \/ disk' = disk
LEMMA QuietKeeps ==
  ASSUME BlkInv, NEW p \in Procs, Quiet(p), proc' \in [Procs -> ProcT], InCall(p)'
  PROVE  BlkInv'
<1>0. /\ Alone(p) /\ proc'[p].file = proc[p].file /\ ~Busy(p) /\ ~Busy(p)'
      /\ UNCHANGED <<used, data, dinode, ip>>
      /\ Commit(p, group + 1) \/ disk' = disk
  BY DEF Quiet
<1>1. InCalls'
  <2>1. ASSUME NEW q \in Procs, q # p PROVE InCall(q)'
    BY <1>0, <2>1 DEF BlkInv, InCalls, InCall, Alone
  <2>q. QED
    BY <2>1 DEF InCalls
<1>2. OneBusy'
  <2>1. \A q \in Procs : proc'[q].file = proc[q].file
    BY <1>0 DEF Alone
  <2>2. \A q \in Procs : (Busy(q)' <=> Busy(q)) /\ (proc'[q].pc = "trunc" => proc[q].pc = "trunc")
    BY <1>0 DEF Alone, Busy
  <2>q. QED
    BY <2>1, <2>2 DEF BlkInv, OneBusy
<1>3. Synced' /\ Filled'
  BY <1>0, StillIs DEF BlkInv, Synced, Filled
<1>4. Curs' = Curs /\ Cuts' = Cuts
  BY <1>0, StillIs DEF Curs, Cuts
<1>5. MemSound'
  BY <1>0, <1>4 DEF BlkInv, MemSound
<1>6. BlkTypes'
  BY <1>0, CommitTypes DEF BlkInv, BlkTypes
<1>7. disk' = disk => DiskInv'
  BY DEF BlkInv, DiskInv
<1>q. QED
  BY <1>0, <1>1, <1>2, <1>3, <1>5, <1>6, <1>7, CommitKeeps DEF BlkInv

LEMMA WriteKeeps == ASSUME BlkInv, NEW p \in Procs, Write(p) PROVE BlkInv' /\ Quiet(p)
<1>1. PICK n \in Sizes : proc' = [proc EXCEPT ![p].pc = "chunk", ![p].n = n]
  BY DEF Write
<1>2. proc[p].pc = "idle" /\ proc[p].file # None /\ UNCHANGED <<used, data, dinode, disk, ip>>
  BY DEF Write, Do
<1>3. proc \in [Procs -> ProcT] /\ n \in Nat
  BY BlocksAssumption DEF BlkInv, BlkTypes
<1>4. proc'[p] = [proc[p] EXCEPT !.pc = "chunk", !.n = n] /\ Alone(p)
  BY <1>1, <1>3 DEF Alone
<1>5. proc' \in [Procs -> ProcT]
  BY <1>1, <1>3 DEF ProcT
<1>6. /\ proc'[p].pc = "chunk" /\ proc'[p].file = proc[p].file /\ proc'[p].off = proc[p].off
      /\ proc'[p].at = proc[p].at /\ proc'[p].end = proc[p].end
  BY <1>3, <1>4 DEF ProcT
<1>7. InCall(p)'
  BY <1>2, <1>6, CallIs DEF InCall, Using, Writing, Freeing
<1>8. Quiet(p)
  BY <1>2, <1>4, <1>6 DEF Quiet, Busy
<1>q. QED
  BY <1>5, <1>7, <1>8, QuietKeeps

LEMMA ReadKeeps == ASSUME BlkInv, NEW p \in Procs, Read(p) PROVE BlkInv' /\ Quiet(p)
<1> DEFINE size == ip[proc[p].file].size
<1>1. PICK n \in ReadSizes : proc' = [proc EXCEPT ![p].off = Min({proc[p].off + n, size})]
  BY DEF Read
<1>2. proc[p].pc = "idle" /\ proc[p].file # None /\ UNCHANGED <<used, data, dinode, disk, ip>>
  BY DEF Read, Do
<1>3. proc \in [Procs -> ProcT] /\ n \in Nat
  BY BlocksAssumption DEF BlkInv, BlkTypes
<1>4. proc[p].off \in Nat /\ size \in Nat /\ size <= MAXFILE * BSIZE /\ MAXFILE * BSIZE \in Nat
  BY <1>2, CallIs, FileParts, InodeParts, ProcParts DEF BlkInv
<1> DEFINE z == Min({proc[p].off + n, size})
<1>5. z \in Nat /\ z <= size
  BY <1>3, <1>4, MinOfTwo
<1> HIDE DEF z
<1>6. proc'[p] = [proc[p] EXCEPT !.off = z] /\ Alone(p)
  BY <1>1, <1>3 DEF Alone, z
<1>7. proc' \in [Procs -> ProcT]
  <2>1. z \in 0..(MAXFILE * BSIZE)
    BY <1>4, <1>5
  <2>q. QED
    BY <1>1, <1>3, <2>1 DEF ProcT, z
<1>8. /\ proc'[p].pc = "idle" /\ proc'[p].file = proc[p].file /\ proc'[p].off = z
      /\ proc'[p].at = proc[p].at /\ proc'[p].end = proc[p].end /\ proc'[p].n = proc[p].n
  BY <1>2, <1>3, <1>6 DEF ProcT
<1>9. InCall(p)'
  BY <1>2, <1>5, <1>8, CallIs DEF InCall, Using, Writing, Freeing
<1>10. Quiet(p)
  BY <1>2, <1>6, <1>8 DEF Quiet, Busy
<1>q. QED
  BY <1>7, <1>9, <1>10, QuietKeeps

LEMMA Max1Is == Max1 \in Nat
<1>1. ((MAXOPBLOCKS - 1 - 1 - 2) \div 2) \in Nat
  BY BlocksAssumption
<1>q. QED
  BY <1>1, Sizing DEF Max1

\* begin_op and ilock of a write that fits.
Starting(p) ==
  LET n1 == Min({proc[p].n, Max1}) IN
    /\ Do(p, "chunk") /\ ~Locked(proc[p].file)
    /\ proc[p].off + n1 <= MAXFILE * BSIZE
    /\ proc' = [proc EXCEPT ![p].pc = "write", ![p].at = proc[p].off, ![p].end = proc[p].off + n1]
    /\ UNCHANGED <<used, data, dinode, ip, panic, disk>>
LEMMA StartKeeps == ASSUME BlkInv, NEW p \in Procs, Starting(p) PROVE BlkInv'
<1> DEFINE n1 == Min({proc[p].n, Max1})
           z == proc[p].off + n1
<1>1. /\ proc[p].pc = "chunk" /\ ~Locked(proc[p].file) /\ z <= MAXFILE * BSIZE
      /\ proc' = [proc EXCEPT ![p].pc = "write", ![p].at = proc[p].off, ![p].end = z]
      /\ UNCHANGED <<used, data, dinode, ip, disk>>
  BY DEF Starting, Do
<1>2. proc[p].file # None
  BY <1>1, NoFileIs
<1>3. PICK f \in Files : f = proc[p].file
  BY <1>2, CallIs
<1>4. /\ Cur(f) = ip[f] /\ Using(proc[p], ip[f], dinode[f], data) /\ ip[f] = dinode[f]
      /\ NoHoles(ip[f], data) /\ f # None
  <2>1. Holders(f) # {}
    BY <1>3, HoldersAre
  <2>q. QED
    BY <1>1, <1>2, <1>3, <2>1, CallIs, UnlockedIs, UnlockedCur DEF BlkInv, Filled
<1>5. n1 \in Nat /\ n1 <= proc[p].n /\ proc[p].off \in Nat /\ proc[p].n \in Nat /\ z \in Nat
  BY ProcParts, Max1Is, MinOfTwo DEF BlkInv
<1>6. proc \in [Procs -> ProcT]
  BY DEF BlkInv, BlkTypes
<1> HIDE DEF n1
<1>7. proc' \in [Procs -> ProcT]
  <2> DEFINE x == [proc[p] EXCEPT !.pc = "write", !.at = proc[p].off, !.end = z]
  <2>1. proc[p] \in ProcT /\ proc[p].off \in Nat /\ z \in Nat
    BY <1>5, <1>6
  <2>2. x \in ProcT
    <3> HIDE DEF z
    <3>q. QED
      BY <2>1 DEF ProcT
  <2>q. QED
    BY <1>1, <1>6, <2>2
<1>8. Alone(p) /\ proc'[p] = [proc[p] EXCEPT !.pc = "write", !.at = proc[p].off, !.end = z]
  BY <1>1, <1>6 DEF Alone
<1>9. /\ proc'[p].pc = "write" /\ proc'[p].file = f /\ proc'[p].off = proc[p].off
      /\ proc'[p].at = proc[p].off /\ proc'[p].end = z /\ proc'[p].n = proc[p].n
  BY <1>3, <1>6, <1>8 DEF ProcT
<1>10. Rest(p, f)
  BY <1>1, <1>3, <1>8, <1>9 DEF Rest
<1>11. InCall(p)'
  <2>1. proc[p].off <= ip[f].size /\ ip[f].size \in Nat /\ ip[f].type /\ dinode[f].type
    BY <1>1, <1>4, FileParts, InodeParts DEF Using, BlkInv
  <2>2. HasUpTo(ip[f], data, proc[p].off)
    <3>1. \A bn \in 0..(MAXFILE - 1) : Starts(bn) < proc[p].off => Starts(bn) < ip[f].size
      <4>1. \A bn \in 0..(MAXFILE - 1) : Starts(bn) \in Int
        BY StartsAt
      <4>q. QED
        BY <1>5, <2>1, <4>1
    <3>q. QED
      BY <1>4, <3>1 DEF NoHoles, HasUpTo
  <2>3. Using(proc'[p], ip[f], dinode[f], data)
    BY <1>1, <1>4, <1>5, <1>9, <2>1, <2>2 DEF Using, Writing, Freeing
  <2>q. QED
    BY <1>1, <1>4, <1>9, <2>3 DEF InCall
<1>12. Welcomes(p, f)
  <2>1. ip[f].size \in Nat
    BY FileParts, InodeParts DEF BlkInv
  <2>q. QED
    BY <1>1, <1>3, <1>4, <1>9, <2>1, UnlockedIs DEF Welcomes, Using
<1>13. \A q \in Procs : (proc'[q].file = f <=> proc[q].file = f) /\ (proc'[q].pc = "trunc" <=> proc[q].pc = "trunc")
  BY <1>1, <1>3, <1>8, <1>9 DEF Alone
<1>14. Holders(f)' = Holders(f) /\ Cut(f)' = {} /\ Cut(f) = {} /\ ~InTrunc(f)' /\ Cur(f)' = Cur(f)
  <2>1. Cut(f) = {} /\ ~InTrunc(f)
    BY <1>1, <1>3, UnlockedIs
  <2>2. ~InTrunc(f)'
    BY <1>13, <2>1 DEF InTrunc
  <2>3. Cut(f)' = {}
    BY <2>2 DEF Cut, InTrunc
  <2>4. Holders(f)' = Holders(f)
    BY <1>13 DEF Holders
  <2>q. QED
    BY <1>1, <2>1, <2>2, <2>3, <2>4 DEF Cur
<1>15. MemSound'
  BY <1>1, <1>10, <1>14, KeepsSound DEF At
<1>16. Filled'
  BY <1>1, <1>4, <1>10, <1>14, KeepsFilled DEF BlkInv, Filled
<1>17. Synced'
  BY <1>1, <1>4, <1>10, KeepsSynced
<1>18. BlkTypes' /\ DiskInv'
  BY <1>1, <1>7 DEF BlkInv, BlkTypes, DiskInv
<1>q. QED
  BY <1>10, <1>11, <1>12, <1>15, <1>16, <1>17, <1>18, KeepsCalls DEF BlkInv

LEMMA BeginKeeps == ASSUME BlkInv, NEW p \in Procs, Begin(p) PROVE BlkInv' /\ (Starting(p) \/ Quiet(p))
<1> DEFINE n1 == Min({proc[p].n, Max1})
<1>1. CASE Starting(p)
  BY <1>1, StartKeeps
<1>2. CASE /\ proc' = [proc EXCEPT ![p].pc = "idle", ![p].n = 0]
           /\ UNCHANGED <<used, data, dinode, ip>> /\ Op(p) /\ proc[p].pc = "chunk"
  <2>1. proc \in [Procs -> ProcT]
    BY DEF BlkInv, BlkTypes
  <2>2. proc'[p] = [proc[p] EXCEPT !.pc = "idle", !.n = 0] /\ Alone(p)
    BY <1>2, <2>1 DEF Alone
  <2>3. proc' \in [Procs -> ProcT]
    <3>1. [proc[p] EXCEPT !.pc = "idle", !.n = 0] \in ProcT
      BY <2>1 DEF ProcT
    <3>q. QED
      BY <1>2, <2>1, <3>1
  <2>4. /\ proc'[p].pc = "idle" /\ proc'[p].file = proc[p].file /\ proc'[p].off = proc[p].off
        /\ proc'[p].at = proc[p].at /\ proc'[p].end = proc[p].end /\ proc'[p].n = 0
    BY <2>1, <2>2 DEF ProcT
  <2>5. proc[p].file # None
    BY <1>2, NoFileIs
  <2>6. InCall(p)'
    BY <1>2, <2>4, <2>5, CallIs DEF InCall, Using, Writing, Freeing
  <2>7. Quiet(p)
    BY <1>2, <2>2, <2>4 DEF Quiet, Busy, Op
  <2>q. QED
    BY <2>3, <2>6, <2>7, QuietKeeps
<1>q. QED
  BY <1>1, <1>2 DEF Begin, Starting, Do, BeginOp
-----------------------------------------------------------------------------
(* writei *)

LEMMA WriterIs ==
  ASSUME BlkInv, NEW p \in Procs, proc[p].pc = "write", NEW f \in Files, f = proc[p].file
  PROVE  /\ Cur(f) = ip[f] /\ Cut(f) = {} /\ ~InTrunc(f) /\ f # None /\ Locked(f)
         /\ Using(proc[p], ip[f], dinode[f], data) /\ NoHoles(ip[f], data)
         /\ \A q \in Procs : proc[q].file = f /\ q # p => ~Busy(q)
         /\ ip[f] \in InodeT /\ dinode[f] \in InodeT /\ ip[f].size \in Nat
         /\ proc[p].at \in Nat /\ proc[p].end \in Nat /\ proc[p].off \in Nat
<1>1. Busy(p) /\ f # None
  BY NoFileIs DEF Busy
<1>2. Cut(f) = {} /\ ~InTrunc(f)
  BY <1>1, CutIs
<1>3. Cur(f) = ip[f] /\ Using(proc[p], ip[f], dinode[f], data)
  BY <1>1, CallIs
<1>4. NoHoles(ip[f], data)
  BY <1>2, <1>3 DEF BlkInv, Filled
<1>5. ip[f] \in InodeT /\ dinode[f] \in InodeT /\ ip[f].size \in Nat
  BY FileParts, InodeParts DEF BlkInv
<1>q. QED
  BY <1>1, <1>2, <1>3, <1>4, <1>5, BusyIs, ProcParts DEF BlkInv

\* The blocks of a file that nobody empties.
LEMMA AtIs ==
  ASSUME NEW f \in Files, Cut(f) = {}
  PROVE  \A x \in 0..(MAXFILE - 1) : At(f, x) = Entry(Cur(f), data, x) /\ x \in Places
  BY EntryIsPtr, Sizing DEF At, Places

LEMMA WriterStays ==
  ASSUME BlkInv, NEW p \in Procs, proc[p].pc = "write", NEW f \in Files, f = proc[p].file,
         Alone(p), proc'[p].pc = "write", proc'[p].file = f
  PROVE  /\ Cur(f)' = ip'[f] /\ Cut(f)' = {} /\ ~InTrunc(f)' /\ Locked(f)'
         /\ \A x \in 0..(MAXFILE - 1) : At(f, x)' = Entry(ip'[f], data', x)
<1>1. \A q \in Procs : proc'[q].file = f /\ q # p => proc'[q].pc # "trunc"
  BY WriterIs DEF Alone, Busy
<1>2. ~InTrunc(f)'
  BY <1>1 DEF InTrunc
<1>3. Cut(f)' = {}
  BY <1>2 DEF Cut, InTrunc
<1>4. Holders(f)' # {} /\ Locked(f)'
  BY DEF Holders, Locked, Busy
<1>5. Cur(f)' = ip'[f]
  BY <1>4 DEF Cur
<1>6. \A x \in 0..(MAXFILE - 1) : At(f, x)' = Entry(ip'[f], data', x)
  BY <1>3, <1>5, EntryIsPtr DEF At
<1>q. QED
  BY <1>2, <1>3, <1>4, <1>5, <1>6

\* What a turn of writei changes of the file: it has the blocks it had and goes on.
Goes(p, f) ==
  /\ proc'[p].pc = "write" /\ proc'[p].file = f /\ proc'[p].off = proc[p].off
  /\ proc'[p].end = proc[p].end /\ proc'[p].n = proc[p].n
  /\ proc[p].at <= proc'[p].at /\ proc'[p].at <= proc[p].end
  /\ dinode' = dinode /\ disk' = disk
  /\ ip'[f].size = ip[f].size /\ ip'[f].type = ip[f].type
  /\ proc[p].end <= ip[f].size => ip'[f] = ip[f]
  /\ \A bn \in 0..(MAXFILE - 1) : Entry(ip[f], data, bn) # None => Entry(ip'[f], data', bn) # None
  /\ HasUpTo(ip'[f], data', proc'[p].at)
LEMMA GoesKeeps ==
  ASSUME BlkInv, BlkTypes', NEW p \in Procs, proc[p].pc = "write", NEW f \in Files, f = proc[p].file,
         Rest(p, f), Goes(p, f), MemSound'
  PROVE  BlkInv'
<1>1. /\ Cur(f) = ip[f] /\ Using(proc[p], ip[f], dinode[f], data) /\ NoHoles(ip[f], data) /\ f # None
      /\ \A q \in Procs : proc[q].file = f /\ q # p => ~Busy(q)
      /\ ip[f].size \in Nat /\ proc[p].at \in Nat /\ proc[p].end \in Nat /\ proc[p].off \in Nat
  BY WriterIs
<1>2. Alone(p) /\ proc'[p].pc = "write" /\ proc'[p].file = f
  BY DEF Rest, Goes
<1>3. Cur(f)' = ip'[f] /\ Locked(f)'
  BY <1>2, WriterStays
<1>4. proc'[p].at \in Nat
  BY DEF BlkTypes, ProcT
<1>5. Writing(proc[p], ip[f], dinode[f], data) /\ ip[f].type /\ dinode[f].type /\ proc[p].off <= ip[f].size
  BY <1>1 DEF Using
<1>6. Using(proc'[p], ip'[f], dinode'[f], data')
  <2>1. Writing(proc'[p], ip'[f], dinode'[f], data')
    BY <1>1, <1>4, <1>5 DEF Writing, Goes
  <2>q. QED
    BY <1>5, <2>1 DEF Using, Freeing, Goes
<1>7. InCall(p)'
  BY <1>1, <1>2, <1>6 DEF InCall
<1>8. Welcomes(p, f)
  BY <1>1, <1>5 DEF Welcomes, Goes
<1>9. InCalls' /\ OneBusy'
  BY <1>7, <1>8, KeepsCalls
<1>10. NoHoles(Cur(f)', data')
  BY <1>1, <1>3 DEF NoHoles, HasUpTo, Goes
<1>11. Filled'
  <2>1. Fresh(dinode'[f])
    BY DEF Goes, BlkInv, Filled
  <2>q. QED
    BY <1>10, <2>1, KeepsFilled
<1>12. Synced'
  BY <1>3, KeepsSynced
<1>13. DiskInv'
  BY DEF Goes, BlkInv, DiskInv
<1>q. QED
  BY <1>9, <1>11, <1>12, <1>13 DEF BlkInv

\* balloc finds a free block, zeroed in what the caller sees.
LEMMA FreeIs ==
  ASSUME BlkInv, ~(Blocks \subseteq used)
  PROVE  Min(Blocks \ used) \in Blocks \ used
  BY BlocksAssumption, MinIs DEF Blocks

LEMMA LoggedIs ==
  ASSUME BlkInv, NEW p \in Procs, NEW B \in SUBSET (Blocks \cup {Bitmap}), proc' = Logs(p, B)
  PROVE  /\ proc' \in [Procs -> ProcT] /\ Alone(p)
         /\ proc'[p].pc = proc[p].pc /\ proc'[p].file = proc[p].file /\ proc'[p].off = proc[p].off
         /\ proc'[p].at = proc[p].at /\ proc'[p].end = proc[p].end /\ proc'[p].n = proc[p].n
<1>1. proc[p] \in ProcT /\ proc \in [Procs -> ProcT]
  BY DEF BlkInv, BlkTypes
<1> DEFINE x == [proc[p] EXCEPT !.logged = proc[p].logged \cup B]
<1>2. proc' = [proc EXCEPT ![p] = x]
  BY DEF Logs
<1>3. x \in ProcT
  BY <1>1 DEF ProcT
<1>4. /\ x.pc = proc[p].pc /\ x.file = proc[p].file /\ x.off = proc[p].off
      /\ x.at = proc[p].at /\ x.end = proc[p].end /\ x.n = proc[p].n
  BY <1>1 DEF ProcT
<1> HIDE DEF x
<1>q. QED
  BY <1>2, <1>3, <1>4, StepIs DEF BlkInv
\* What balloc does for a pointer in the i-node, and for one in the indirect block.
TakesDirect(p, f, b, s) ==
  /\ ip[f].addrs[s] = None
  /\ ip' = [ip EXCEPT ![f].addrs[s] = b] /\ data' = Zeroed(b) /\ proc' = Logs(p, {Bitmap, b})
TakesIndirect(p, f, b, bn) ==
  /\ bn >= NDIRECT /\ ip[f].addrs[NDIRECT] # None
  /\ data' = [Zeroed(b) EXCEPT ![ip[f].addrs[NDIRECT]][bn - NDIRECT] = b]
  /\ proc' = Logs(p, {Bitmap, b, ip[f].addrs[NDIRECT]})
  /\ UNCHANGED ip

LEMMA AllocIs ==
  ASSUME BlkInv, NEW p \in Procs, Alloc(p), panic' # TRUE
  PROVE  \E f \in Files, b \in Blocks \ used, bn \in 0..(MAXFILE - 1) :
           /\ f = proc[p].file /\ proc[p].pc = "write" /\ bn = Target(p) /\ proc[p].at < proc[p].end
           /\ Entry(ip[f], data, bn) = None /\ ip[f].size < proc[p].end
           /\ used' = used \cup {b} /\ dinode' = dinode /\ disk' = disk
           /\ \/ TakesDirect(p, f, b, IF bn < NDIRECT THEN bn ELSE NDIRECT)
              \/ TakesIndirect(p, f, b, bn)
<1>1. proc[p].pc = "write" /\ proc[p].at < proc[p].end /\ dinode' = dinode /\ disk' = disk
  BY DEF Alloc, Do
<1>2. PICK f \in Files : f = proc[p].file
  BY <1>1, NoFileIs, CallIs
<1>3. /\ Using(proc[p], ip[f], dinode[f], data) /\ NoHoles(ip[f], data) /\ ip[f].size \in Nat
      /\ proc[p].at \in Nat /\ proc[p].end \in Nat
  BY <1>1, <1>2, WriterIs
<1>4. proc[p].at < MAXFILE * BSIZE
  <2>1. proc[p].end <= MAXFILE * BSIZE
    BY <1>1, <1>3 DEF Using, Writing
  <2>2. MAXFILE * BSIZE \in Nat
    BY Sizing
  <2>q. QED
    BY <1>1, <1>3, <2>1, <2>2
<1>5. PICK bn \in 0..(MAXFILE - 1) : bn = Target(p) /\ Starts(bn) <= proc[p].at /\ Starts(bn) \in Int
  <2>1. Target(p) \in 0..(MAXFILE - 1) /\ Starts(Target(p)) <= proc[p].at
    BY <1>3, <1>4, BlockAt DEF Target
  <2>q. QED
    BY <2>1, StartsAt
<1>6. Entry(ip[f], data, bn) = None
  BY <1>2, <1>5 DEF Alloc
<1>7. ip[f].size < proc[p].end
  <2>1. ~(Starts(bn) < ip[f].size)
    BY <1>3, <1>6 DEF NoHoles, HasUpTo
  <2>q. QED
    BY <1>1, <1>3, <1>5, <2>1
<1>8. ~(Blocks \subseteq used)
  BY DEF Alloc
<1>9. PICK b \in Blocks \ used : b = Min(Blocks \ used)
  BY <1>8, FreeIs
<1>10. used' = used \cup {b}
  BY <1>8, <1>9 DEF Alloc
<1>11. ASSUME ip[f].addrs[IF bn < NDIRECT THEN bn ELSE NDIRECT] = None
       PROVE  TakesDirect(p, f, b, IF bn < NDIRECT THEN bn ELSE NDIRECT)
  BY <1>2, <1>5, <1>8, <1>9, <1>11 DEF Alloc, TakesDirect
<1>12. ASSUME ip[f].addrs[IF bn < NDIRECT THEN bn ELSE NDIRECT] # None
       PROVE  TakesIndirect(p, f, b, bn)
  <2>1. bn >= NDIRECT /\ ip[f].addrs[NDIRECT] # None
    BY <1>5, <1>6, <1>12, Sizing DEF Entry
  <2>2. UNCHANGED ip /\ data' = [Zeroed(b) EXCEPT ![ip[f].addrs[NDIRECT]][bn - NDIRECT] = b]
    BY <1>2, <1>5, <1>8, <1>9, <1>12 DEF Alloc
  <2>3. proc' = Logs(p, {Bitmap, b, ip[f].addrs[NDIRECT]})
    BY <1>2, <1>5, <1>8, <1>9, <1>12 DEF Alloc
  <2>q. QED
    BY <2>1, <2>2, <2>3 DEF TakesIndirect
<1>q. QED
  BY <1>1, <1>2, <1>5, <1>6, <1>7, <1>10, <1>11, <1>12

\* A step of a writer that takes block b for place y keeps what is accounted.
Taking(p, f, b, B, y) ==
  /\ used' = used \cup {b} /\ dinode' = dinode /\ disk' = disk
  /\ ip[f].size < proc[p].end /\ proc' = Logs(p, B)
  /\ ip' \in [Files -> InodeT] /\ data' \in [Blocks -> BlockT]
  /\ \A g \in Files : g # f => ip'[g] = ip[g]
  /\ ip'[f].size = ip[f].size /\ ip'[f].type = ip[f].type
  /\ \A a \in Blocks : a # b /\ a # ip[f].addrs[NDIRECT] => data'[a] = data[a]
  /\ At(f, y) = None
  /\ \A x \in Places : Ptr(ip'[f], data', {}, x) = IF x = y THEN b ELSE Ptr(ip[f], data, {}, x)
LEMMA TakesKeeps ==
  ASSUME BlkInv, NEW p \in Procs, NEW f \in Files, f = proc[p].file, proc[p].pc = "write",
         NEW b \in Blocks \ used, NEW B \in SUBSET (Blocks \cup {Bitmap}), NEW y \in Places,
         Taking(p, f, b, B, y)
  PROVE  BlkInv'
<1>0. /\ used' = used \cup {b} /\ dinode' = dinode /\ disk' = disk
      /\ ip[f].size < proc[p].end /\ proc' = Logs(p, B)
      /\ ip' \in [Files -> InodeT] /\ data' \in [Blocks -> BlockT]
      /\ \A g \in Files : g # f => ip'[g] = ip[g]
      /\ ip'[f].size = ip[f].size /\ ip'[f].type = ip[f].type
      /\ \A a \in Blocks : a # b /\ a # ip[f].addrs[NDIRECT] => data'[a] = data[a]
      /\ At(f, y) = None
      /\ \A x \in Places : Ptr(ip'[f], data', {}, x) = IF x = y THEN b ELSE Ptr(ip[f], data, {}, x)
  BY DEF Taking
<1>1. /\ Cur(f) = ip[f] /\ Cut(f) = {} /\ f # None
      /\ Using(proc[p], ip[f], dinode[f], data) /\ NoHoles(ip[f], data)
      /\ proc[p].at \in Nat /\ proc[p].end \in Nat /\ ip[f].size \in Nat
  BY WriterIs
<1>2. /\ proc' \in [Procs -> ProcT] /\ Alone(p)
      /\ proc'[p].pc = "write" /\ proc'[p].file = f /\ proc'[p].off = proc[p].off
      /\ proc'[p].at = proc[p].at /\ proc'[p].end = proc[p].end /\ proc'[p].n = proc[p].n
  BY <1>0, LoggedIs
<1>3. BlkTypes'
  BY <1>0, <1>2 DEF BlkInv, BlkTypes
<1>4. Rest(p, f)
  <2>1. ASSUME NEW g \in Files, g # f, Cur(g).addrs[NDIRECT] # None
        PROVE  data'[Cur(g).addrs[NDIRECT]] = data[Cur(g).addrs[NDIRECT]]
    <3>1. At(g, MAXFILE) = Cur(g).addrs[NDIRECT] /\ At(f, MAXFILE) = ip[f].addrs[NDIRECT] /\ MAXFILE \in Places
      BY <1>1, SoundIs
    <3>2. Cur(g).addrs[NDIRECT] \in used /\ Cur(g).addrs[NDIRECT] # ip[f].addrs[NDIRECT]
      BY <2>1, <3>1, SoundIs
    <3>q. QED
      BY <1>0, <3>2 DEF BlkInv, BlkTypes
  <2>q. QED
    BY <1>0, <1>2, <2>1 DEF Rest
<1>5. Cur(f)' = ip'[f] /\ Cut(f)' = {} /\ \A x \in 0..(MAXFILE - 1) : At(f, x)' = Entry(ip'[f], data', x)
  BY <1>2, WriterStays
<1>6. \A x \in Places : At(f, x)' = IF x = y THEN b ELSE At(f, x)
  BY <1>0, <1>1, <1>5 DEF At
<1>7. MemSound'
  BY <1>0, <1>4, <1>6, TakesSound
<1>8. b # None
  BY NoneIsNoBlock
<1>9. \A x \in 0..(MAXFILE - 1) : Entry(ip[f], data, x) # None => Entry(ip'[f], data', x) # None
  BY <1>1, <1>5, <1>6, <1>8, AtIs
<1>10. Goes(p, f)
  <2>1. HasUpTo(ip[f], data, proc[p].at) /\ proc[p].at <= proc[p].end
    BY <1>1 DEF Using, Writing
  <2>2. HasUpTo(ip'[f], data', proc'[p].at)
    BY <1>2, <1>9, <2>1 DEF HasUpTo
  <2>q. QED
    BY <1>0, <1>1, <1>2, <1>9, <2>1, <2>2 DEF Goes
<1>q. QED
  BY <1>3, <1>4, <1>7, <1>10, GoesKeeps

\* What an allocation is: the block, what is logged, the place.
Takes(p) ==
  \E f \in Files, b \in Blocks \ used, B \in SUBSET (Blocks \cup {Bitmap}), y \in Places :
    f = proc[p].file /\ proc[p].pc = "write" /\ Taking(p, f, b, B, y)
LEMMA AllocTakes == ASSUME BlkInv, NEW p \in Procs, Alloc(p), panic' # TRUE PROVE Takes(p)
<1>1. PICK f \in Files, b \in Blocks \ used, bn \in 0..(MAXFILE - 1) :
         /\ f = proc[p].file /\ proc[p].pc = "write" /\ bn = Target(p) /\ proc[p].at < proc[p].end
         /\ Entry(ip[f], data, bn) = None /\ ip[f].size < proc[p].end
         /\ used' = used \cup {b} /\ dinode' = dinode /\ disk' = disk
         /\ \/ TakesDirect(p, f, b, IF bn < NDIRECT THEN bn ELSE NDIRECT)
            \/ TakesIndirect(p, f, b, bn)
  BY AllocIs
<1> DEFINE ind == ip[f].addrs[NDIRECT]
<1>2. /\ Cur(f) = ip[f] /\ Cut(f) = {} /\ ip[f] \in InodeT
      /\ ip[f].addrs \in Addrs /\ ip[f].size \in Nat /\ ind \in BlockOrNone
  BY <1>1, WriterIs, InodeParts
<1>3. /\ ind # b /\ b \in Blocks /\ b # None /\ b \in 0..(NBlocks + 1)
      /\ ind # None => ind \in Blocks
  <2>1. ind \in used \cup {None}
    BY <1>2, SoundIs
  <2>q. QED
    BY <2>1, <1>2, NoneIsNoBlock, BlocksAssumption DEF Blocks, BlockOrNone
<1>4. data \in [Blocks -> BlockT] /\ ip \in [Files -> InodeT] /\ Zeros \in BlockT
  BY ConstantsAre DEF BlkInv, BlkTypes
<1>5. Zeroed(b) \in [Blocks -> BlockT] /\ Zeroed(b)[b] = Zeros /\ \A a \in Blocks : a # b => Zeroed(b)[a] = data[a]
  BY <1>3, <1>4 DEF Zeroed
<1>6. At(f, bn) = None /\ bn \in Places /\ MAXFILE \in Places
  BY <1>1, <1>2, AtIs, SoundIs
<1>7. CASE TakesDirect(p, f, b, IF bn < NDIRECT THEN bn ELSE NDIRECT)
  <2> DEFINE s == IF bn < NDIRECT THEN bn ELSE NDIRECT
             y == IF bn < NDIRECT THEN bn ELSE MAXFILE
  <2>1. /\ s \in 0..NDIRECT /\ y \in Places /\ ip[f].addrs[s] = None
        /\ ip' = [ip EXCEPT ![f].addrs[s] = b] /\ data' = Zeroed(b) /\ proc' = Logs(p, {Bitmap, b})
    BY <1>6, <1>7, Sizing DEF TakesDirect
  <2>2. /\ ip'[f] = [ip[f] EXCEPT !.addrs[s] = b] /\ \A g \in Files : g # f => ip'[g] = ip[g]
        /\ ip' = [ip EXCEPT ![f] = [ip[f] EXCEPT !.addrs[s] = b]]
    BY <1>4, <2>1
  <2>3. /\ ip'[f].addrs = [ip[f].addrs EXCEPT ![s] = b] /\ ip'[f].size = ip[f].size /\ ip'[f].type = ip[f].type
        /\ ip'[f] \in InodeT
    <3> HIDE DEF s
    <3>1. [ip[f].addrs EXCEPT ![s] = b] \in Addrs
      BY <1>2, <1>3, <2>1 DEF Addrs, BlockOrNone
    <3>q. QED
      BY <1>2, <2>2, <3>1 DEF InodeT
  <2>4. /\ ip'[f].addrs[s] = b /\ \A n \in 0..NDIRECT : n # s => ip'[f].addrs[n] = ip[f].addrs[n]
    <3> HIDE DEF s
    <3>q. QED
      BY <1>2, <2>1, <2>3 DEF Addrs
  <2>5. At(f, y) = None
    BY <1>2, <1>6, <2>1, SoundIs
  <2>6. \A x \in Places : Ptr(ip'[f], data', {}, x) = IF x = y THEN b ELSE Ptr(ip[f], data, {}, x)
    <3>1. CASE bn < NDIRECT
      <4>1. ip'[f].addrs[NDIRECT] = ind /\ (ind # None => data'[ind] = data[ind])
        BY <1>3, <1>5, <2>1, <2>4, <3>1, Sizing
      <4>2. \A n \in 0..NDIRECT : ip'[f].addrs[n] = IF n = bn THEN b ELSE ip[f].addrs[n]
        BY <2>4, <3>1
      <4>q. QED
        BY <3>1, <4>1, <4>2, Sizing DEF Ptr, Places
    <3>2. CASE ~(bn < NDIRECT)
      <4>1. ip'[f].addrs[NDIRECT] = b /\ ind = None /\ data'[b] = Zeros
        BY <1>5, <2>1, <2>4, <3>2
      <4>2. \A n \in 0..(NDIRECT - 1) : ip'[f].addrs[n] = ip[f].addrs[n]
        BY <2>4, <3>2, Sizing
      <4>3. \A x \in Places : x >= NDIRECT /\ x # MAXFILE => Zeros[x - NDIRECT] = None
        BY Sizing, NoneIsNoBlock DEF Zeros, Places
      <4>q. QED
        BY <1>3, <3>2, <4>1, <4>2, <4>3, Sizing DEF Ptr, Places
    <3>q. QED
      BY <3>1, <3>2
  <2>7. ip' \in [Files -> InodeT]
    BY <1>4, <2>2, <2>3
  <2> HIDE DEF y, s
  <2>8. data' \in [Blocks -> BlockT] /\ \A a \in Blocks : a # b => data'[a] = data[a]
    BY <1>5, <2>1
  <2>9. {Bitmap, b} \in SUBSET (Blocks \cup {Bitmap})
    BY <1>3
  <2>10. Taking(p, f, b, {Bitmap, b}, y)
    BY <1>1, <2>1, <2>2, <2>3, <2>5, <2>6, <2>7, <2>8 DEF Taking
  <2>q. QED
    BY <1>1, <2>1, <2>9, <2>10 DEF Takes
<1>8. CASE TakesIndirect(p, f, b, bn)
  <2>1. /\ bn >= NDIRECT /\ ind # None /\ ip' = ip
        /\ data' = [Zeroed(b) EXCEPT ![ind][bn - NDIRECT] = b]
        /\ proc' = Logs(p, {Bitmap, b, ind}) /\ ind \in Blocks /\ bn - NDIRECT \in 0..(BSIZE - 1)
    BY <1>3, <1>8, Sizing DEF TakesIndirect
  <2>2. data[ind] \in BlockT /\ Zeroed(b)[ind] = data[ind]
    BY <1>3, <1>4, <1>5, <2>1
  <2>3. data' = [Zeroed(b) EXCEPT ![ind] = [data[ind] EXCEPT ![bn - NDIRECT] = b]]
    BY <1>5, <2>1, <2>2
  <2>4. [data[ind] EXCEPT ![bn - NDIRECT] = b] \in BlockT
    BY <1>3, <2>1, <2>2 DEF BlockT
  <2> HIDE DEF ind
  <2>5. /\ data' \in [Blocks -> BlockT] /\ data'[ind] = [data[ind] EXCEPT ![bn - NDIRECT] = b]
        /\ \A a \in Blocks : a # b /\ a # ind => data'[a] = data[a]
    BY <1>5, <2>1, <2>3, <2>4
  <2>6. \A j \in 0..(BSIZE - 1) : data'[ind][j] = IF j = bn - NDIRECT THEN b ELSE data[ind][j]
    BY <2>1, <2>2, <2>5 DEF BlockT
  <2>7. \A x \in Places : Ptr(ip'[f], data', {}, x) = IF x = bn THEN b ELSE Ptr(ip[f], data, {}, x)
    BY <2>1, <2>6, Sizing DEF Ptr, Places, ind
  <2>8. {Bitmap, b, ind} \in SUBSET (Blocks \cup {Bitmap})
    BY <1>3, <2>1
  <2>9. Taking(p, f, b, {Bitmap, b, ind}, bn)
    BY <1>1, <1>4, <1>6, <2>1, <2>5, <2>7 DEF Taking, ind
  <2>q. QED
    BY <1>1, <1>6, <2>8, <2>9 DEF Takes
<1>q. QED
  BY <1>1, <1>7, <1>8

LEMMA AllocKeeps ==
  ASSUME BlkInv, NEW p \in Procs, Alloc(p)
  PROVE  BlkInv' /\ (Takes(p) \/ UNCHANGED <<used, data, dinode, disk, ip, proc>>)
<1>1. CASE panic' = TRUE
  <2>1. UNCHANGED <<used, data, dinode, disk, ip, proc>>
    BY <1>1 DEF Alloc, Do
  <2>q. QED
    BY <2>1, StutterKeeps
<1>2. CASE panic' # TRUE
  BY <1>2, AllocTakes, TakesKeeps DEF Takes
<1>q. QED
  BY <1>1, <1>2
\* writei copies into a block that is no indirect block.
Copied(p, d, bn, stop) ==
  [j \in DOMAIN d |-> IF Starts(bn) + j \in proc[p].at..(stop - 1) THEN p ELSE d[j]]
Copying(p, f, bn, stop) ==
  /\ f = proc[p].file /\ proc[p].pc = "write" /\ UNCHANGED <<used, dinode, disk, ip>>
  /\ Starts(bn) <= proc[p].at /\ proc[p].at < stop /\ stop <= proc[p].end /\ stop <= Starts(bn + 1)
  /\ Entry(ip[f], data, bn) \in Blocks
  /\ data' = [data EXCEPT ![Entry(ip[f], data, bn)] = Copied(p, data[Entry(ip[f], data, bn)], bn, stop)]
  /\ proc' \in [Procs -> ProcT] /\ Alone(p)
  /\ proc'[p].pc = "write" /\ proc'[p].file = f /\ proc'[p].off = proc[p].off
  /\ proc'[p].at = stop /\ proc'[p].end = proc[p].end /\ proc'[p].n = proc[p].n
LEMMA CopyIs ==
  ASSUME BlkInv, NEW p \in Procs, Copy(p)
  PROVE  \E f \in Files, bn \in 0..(MAXFILE - 1), stop \in Nat : Copying(p, f, bn, stop)
<1>1. /\ proc[p].pc = "write" /\ proc[p].at < proc[p].end /\ UNCHANGED <<used, dinode, disk, ip>>
  BY DEF Copy, Do
<1>2. PICK f \in Files : f = proc[p].file
  BY <1>1, NoFileIs, CallIs
<1>3. /\ Using(proc[p], ip[f], dinode[f], data) /\ NoHoles(ip[f], data) /\ ip[f].size \in Nat
      /\ proc[p].at \in Nat /\ proc[p].end \in Nat /\ Cur(f) = ip[f] /\ Cut(f) = {}
  BY <1>1, <1>2, WriterIs
<1>4. proc[p].at < MAXFILE * BSIZE
  <2>1. proc[p].end <= MAXFILE * BSIZE
    BY <1>1, <1>3 DEF Using, Writing
  <2>2. MAXFILE * BSIZE \in Nat
    BY Sizing
  <2>q. QED
    BY <1>1, <1>3, <2>1, <2>2
<1>5. PICK bn \in 0..(MAXFILE - 1) : /\ bn = Target(p) /\ Starts(bn) <= proc[p].at /\ Starts(bn) \in Nat
                                     /\ proc[p].at < Starts(bn + 1) /\ Starts(bn + 1) \in Nat
  <2>1. Target(p) \in 0..(MAXFILE - 1) /\ Starts(Target(p)) <= proc[p].at /\ proc[p].at < Starts(Target(p)) + BSIZE
    BY <1>3, <1>4, BlockAt DEF Target
  <2>q. QED
    BY <2>1, StartsAt, Sizing
<1> DEFINE stop == Min({proc[p].end, Starts(bn + 1)})
<1>6. stop \in Nat /\ proc[p].at < stop /\ stop <= proc[p].end /\ stop <= Starts(bn + 1)
  BY <1>1, <1>3, <1>5, MinOfTwo
<1> DEFINE b == Entry(ip[f], data, bn)
<1>7. /\ b # None /\ b = At(f, bn) /\ b \in Blocks /\ b \in used /\ bn \in Places
  <2>1. b # None
    BY <1>2, <1>5 DEF Copy
  <2>2. b = At(f, bn) /\ bn \in Places
    BY <1>3, AtIs
  <2>q. QED
    BY <2>1, <2>2, SoundIs DEF BlkInv, BlkTypes
<1>9. data' = [data EXCEPT ![b] = Copied(p, data[b], bn, stop)]
  BY <1>2, <1>5 DEF Copy, Copied, Starts
<1>10. /\ proc' \in [Procs -> ProcT] /\ Alone(p)
       /\ proc'[p].pc = "write" /\ proc'[p].file = f /\ proc'[p].off = proc[p].off
       /\ proc'[p].at = stop /\ proc'[p].end = proc[p].end /\ proc'[p].n = proc[p].n
  <2> DEFINE x == [proc[p] EXCEPT !.logged = proc[p].logged \cup {b}, !.at = stop]
  <2>1. proc[p] \in ProcT /\ proc \in [Procs -> ProcT]
    BY DEF BlkInv, BlkTypes
  <2>2. proc' = [Logs(p, {b}) EXCEPT ![p].at = stop]
    BY <1>2, <1>5 DEF Copy, Starts
  <2>h. HIDE DEF stop, b
  <2>3. proc' = [proc EXCEPT ![p] = x]
    BY <2>1, <2>2 DEF Logs
  <2>4. x \in ProcT
    BY <1>6, <1>7, <2>1 DEF ProcT
  <2>5. /\ x.pc = proc[p].pc /\ x.file = proc[p].file /\ x.off = proc[p].off
        /\ x.at = stop /\ x.end = proc[p].end /\ x.n = proc[p].n
    BY <2>1 DEF ProcT
  <2> HIDE DEF x
  <2>q. QED
    BY <1>1, <1>2, <2>3, <2>4, <2>5, StepIs DEF BlkInv
<1> HIDE DEF stop
<1>q. QED
  BY <1>1, <1>2, <1>5, <1>6, <1>7, <1>9, <1>10 DEF Copying

LEMMA CopyingIs ==
  ASSUME BlkInv, NEW p \in Procs, NEW f \in Files, NEW bn \in 0..(MAXFILE - 1), NEW stop \in Nat,
         Copying(p, f, bn, stop)
  PROVE  /\ BlkTypes' /\ Rest(p, f) /\ Within(f)
         /\ \A x : Entry(ip'[f], data', x) = Entry(ip[f], data, x) /\ At(f, x)' = At(f, x)
<1> DEFINE b == Entry(ip[f], data, bn)
<1>1. /\ f = proc[p].file /\ proc[p].pc = "write" /\ UNCHANGED <<used, dinode, disk, ip>>
      /\ b \in Blocks /\ data' = [data EXCEPT ![b] = Copied(p, data[b], bn, stop)]
      /\ proc' \in [Procs -> ProcT] /\ Alone(p) /\ proc'[p].pc = "write" /\ proc'[p].file = f
  BY DEF Copying
<1>2. Cur(f) = ip[f] /\ Cut(f) = {}
  BY <1>1, WriterIs
<1>3. b = At(f, bn) /\ bn \in Places /\ b # None
  BY <1>1, <1>2, AtIs, NoneIsNoBlock
<1>4. \A g \in Files : Cur(g).addrs[NDIRECT] # b
  <2>1. \A g \in Files : At(g, MAXFILE) = Cur(g).addrs[NDIRECT] /\ MAXFILE \in Places /\ bn # MAXFILE
    BY SoundIs, Sizing
  <2>2. ASSUME NEW g \in Files, At(g, MAXFILE) = b PROVE FALSE
    <3>1. At(f, bn) # None /\ At(f, bn) = At(g, MAXFILE)
      BY <1>3, <2>2
    <3>2. bn \in Places /\ MAXFILE \in Places
      BY <1>3, <2>1
    <3> HIDE DEF b
    <3>3. bn = MAXFILE
      BY <3>1, <3>2, OnePlace
    <3>q. QED
      BY <2>1, <3>3
  <2>q. QED
    BY <2>1, <2>2
<1>5. data' \in [Blocks -> BlockT] /\ \A a \in Blocks : a # b => data'[a] = data[a]
  <2>1. data[b] \in BlockT
    BY <1>1 DEF BlkInv, BlkTypes
  <2>2. Copied(p, data[b], bn, stop) \in BlockT
    BY <2>1 DEF Copied, BlockT
  <2> HIDE DEF b
  <2>q. QED
    BY <1>1, <2>2 DEF BlkInv, BlkTypes
<1> HIDE DEF b
<1>6. BlkTypes'
  BY <1>1, <1>5 DEF BlkInv, BlkTypes
<1>7. \A g \in Files : Cur(g).addrs[NDIRECT] # None => data'[Cur(g).addrs[NDIRECT]] = data[Cur(g).addrs[NDIRECT]]
  <2>1. \A g \in Files : Cur(g).addrs[NDIRECT] \in BlockOrNone
    BY FileParts, InodeParts DEF BlkInv
  <2>q. QED
    BY <1>4, <1>5, <2>1 DEF BlockOrNone
<1>8. Rest(p, f)
  BY <1>1, <1>7 DEF Rest
<1>9. \A x : Entry(ip'[f], data', x) = Entry(ip[f], data, x) /\ At(f, x)' = At(f, x)
  <2>1. Cur(f)' = ip'[f] /\ Cut(f)' = {} /\ ip'[f] = ip[f]
    BY <1>1, WriterStays
  <2>q. QED
    BY <1>2, <1>7, <2>1, PtrSame, EntrySame DEF At
<1>10. Within(f)
  BY <1>3, <1>5 DEF Within, BlkInv, BlkTypes
<1>q. QED
  BY <1>6, <1>8, <1>9, <1>10

LEMMA CopyKeeps == ASSUME BlkInv, NEW p \in Procs, Copy(p) PROVE BlkInv'
<1>1. PICK f \in Files, bn \in 0..(MAXFILE - 1), stop \in Nat : Copying(p, f, bn, stop)
  BY CopyIs
<1>2. /\ f = proc[p].file /\ proc[p].pc = "write" /\ UNCHANGED <<used, dinode, disk, ip>>
      /\ Starts(bn) <= proc[p].at /\ proc[p].at < stop /\ stop <= proc[p].end /\ stop <= Starts(bn + 1)
      /\ Entry(ip[f], data, bn) \in Blocks
      /\ proc'[p].pc = "write" /\ proc'[p].file = f /\ proc'[p].off = proc[p].off
      /\ proc'[p].at = stop /\ proc'[p].end = proc[p].end /\ proc'[p].n = proc[p].n
  BY <1>1 DEF Copying
<1>3. /\ BlkTypes' /\ Rest(p, f)
      /\ \A x : Entry(ip'[f], data', x) = Entry(ip[f], data, x) /\ At(f, x)' = At(f, x)
  BY <1>1, CopyingIs
<1>4. Using(proc[p], ip[f], dinode[f], data) /\ proc[p].at \in Nat /\ proc[p].end \in Nat
  BY <1>2, WriterIs
<1>5. MemSound'
  BY <1>2, <1>3, KeepsSound
<1>6. HasUpTo(ip[f], data, stop)
  <2>1. HasUpTo(ip[f], data, proc[p].at)
    BY <1>2, <1>4 DEF Using, Writing
  <2>2. ASSUME NEW x \in 0..(MAXFILE - 1), Starts(x) < stop PROVE Entry(ip[f], data, x) # None
    <3>1. Starts(x) \in Nat /\ Starts(x) < Starts(bn + 1) /\ Starts(bn) \in Nat
      <4>1. Starts(x) \in Nat /\ Starts(bn) \in Nat /\ Starts(bn + 1) \in Nat
        BY StartsAt
      <4>q. QED
        BY <1>2, <2>2, <4>1
    <3>2. x < bn + 1
      BY <3>1, StartsAt
    <3>3. CASE x = bn
      BY <1>2, <3>3, NoneIsNoBlock
    <3>4. CASE x < bn
      <4>1. Starts(x) < Starts(bn)
        BY <3>4, StartsAt
      <4>q. QED
        BY <1>2, <1>4, <2>1, <3>1, <4>1 DEF HasUpTo
    <3>q. QED
      BY <3>2, <3>3, <3>4
  <2>q. QED
    BY <2>2 DEF HasUpTo
<1>7. Goes(p, f)
  <2>1. HasUpTo(ip'[f], data', proc'[p].at)
    BY <1>2, <1>3, <1>6 DEF HasUpTo
  <2>q. QED
    BY <1>2, <1>3, <1>4, <2>1 DEF Goes
<1>q. QED
  BY <1>2, <1>3, <1>5, <1>7, GoesKeeps

\* A call that ends, and with it perhaps a commit.
Ends(p, f) ==
  /\ Rest(p, f) /\ ~Busy(p)' /\ InCall(p)' /\ Welcomes(p, f)
  /\ Fresh(dinode'[f]) /\ (InTrunc(f)' \/ NoHoles(Cur(f)', data'))
  /\ Locked(f)' \/ Holders(f)' = {} \/ ip'[f] = dinode'[f]
LEMMA EndsKeeps ==
  ASSUME BlkInv, BlkTypes', NEW p \in Procs, NEW f \in Files, Ends(p, f), MemSound', NEW k, Commit(p, k)
  PROVE  BlkInv'
<1>1. Rest(p, f) /\ Alone(p) /\ ~Busy(p)'
  BY DEF Ends, Rest
<1>2. InCalls' /\ OneBusy'
  BY <1>1, KeepsCalls DEF Ends
<1>3. Filled'
  BY <1>1, KeepsFilled DEF Ends
<1>4. Synced'
  BY <1>1, KeepsSynced DEF Ends
<1>5. DiskInv'
  BY <1>1, <1>3, <1>4, CommitKeeps
<1>q. QED
  BY <1>2, <1>3, <1>4, <1>5 DEF BlkInv

\* Nobody is busy with a file after the process that was.
LEMMA LeftIs ==
  ASSUME BlkInv, NEW p \in Procs, NEW f \in Files, Alone(p), ~Busy(p)',
         \A q \in Procs : q # p /\ proc[q].file = f => ~Busy(q)
  PROVE  ~Locked(f)' /\ Cut(f)' = {} /\ ~InTrunc(f)'
<1>1. \A q \in Procs : proc'[q].file = f => ~Busy(q)'
  BY DEF Alone, Busy
<1>q. QED
  BY <1>1 DEF Locked, Holders, Cut, InTrunc, Busy

\* The end of a write: the i-node that iupdate writes may have grown.
Finishing(p, f) ==
  /\ f = proc[p].file /\ proc[p].pc = "write" /\ proc[p].at = proc[p].end /\ Rest(p, f) /\ BlkTypes'
  /\ UNCHANGED <<used, data>> /\ Commit(p, group)
  /\ proc'[p].pc \in {"idle", "chunk"} /\ proc'[p].file = f
  /\ proc'[p].off = proc[p].end /\ proc'[p].at = 0 /\ proc'[p].end = 0
  /\ proc'[p].pc = "idle" => proc'[p].n = 0
  /\ ip'[f] = dinode'[f] /\ ip'[f].addrs = ip[f].addrs /\ ip'[f].type
  /\ ip'[f].size = IF proc[p].end > ip[f].size THEN proc[p].end ELSE ip[f].size
LEMMA WriteDoneIs ==
  ASSUME BlkInv, NEW p \in Procs, WriteDone(p) PROVE \E f \in Files : Finishing(p, f)
<1>1. proc[p].pc = "write" /\ proc[p].at = proc[p].end /\ UNCHANGED <<used, data>> /\ Commit(p, group)
  BY DEF WriteDone, Do, EndOp
<1>2. PICK f \in Files : f = proc[p].file
  BY <1>1, NoFileIs, CallIs
<1>3. /\ Using(proc[p], ip[f], dinode[f], data) /\ NoHoles(ip[f], data) /\ ip[f].size \in Nat
      /\ proc[p].at \in Nat /\ proc[p].end \in Nat /\ proc[p].off \in Nat /\ Cur(f) = ip[f] /\ Cut(f) = {}
      /\ ip[f] \in InodeT /\ dinode[f] \in InodeT /\ f # None
      /\ \A q \in Procs : proc[q].file = f /\ q # p => ~Busy(q)
  BY <1>1, <1>2, WriterIs
<1>4. /\ ip[f].type /\ dinode[f].type /\ proc[p].off <= proc[p].end /\ proc[p].end <= MAXFILE * BSIZE
      /\ proc[p].end - proc[p].off <= proc[p].n /\ HasUpTo(ip[f], data, proc[p].end)
      /\ proc[p].end <= ip[f].size => ip[f] = dinode[f]
  <2>1. Writing(proc[p], ip[f], dinode[f], data) /\ ip[f].type /\ dinode[f].type
    BY <1>3 DEF Using
  <2>2. proc[p].off <= proc[p].at
    BY <1>1, <2>1 DEF Writing
  <2>q. QED
    BY <1>1, <2>1, <2>2 DEF Writing
<1> DEFINE left == proc[p].n - (proc[p].end - proc[p].off)
           grown == [ip[f] EXCEPT !.size = proc[p].end]
<1>5. left \in Nat
  BY <1>3, <1>4, ProcParts DEF BlkInv
<1>6. /\ grown \in InodeT /\ grown.size = proc[p].end /\ grown.type = ip[f].type /\ grown.addrs = ip[f].addrs
  <2>1. proc[p].end \in 0..(MAXFILE * BSIZE)
    BY <1>3, <1>4, Sizing
  <2>q. QED
    BY <1>3, <2>1 DEF InodeT
<1>7. /\ ip' \in [Files -> InodeT] /\ dinode' \in [Files -> InodeT] /\ ip'[f] = dinode'[f]
      /\ \A g \in Files : g # f => ip'[g] = ip[g] /\ dinode'[g] = dinode[g]
      /\ ip'[f].addrs = ip[f].addrs /\ ip'[f].type
      /\ ip'[f].size = IF proc[p].end > ip[f].size THEN proc[p].end ELSE ip[f].size
  <2>1. ip \in [Files -> InodeT] /\ dinode \in [Files -> InodeT]
    BY DEF BlkInv, BlkTypes
  <2>2. CASE proc[p].end > ip[f].size
    <3>1. ip' = [ip EXCEPT ![f] = grown] /\ dinode' = [dinode EXCEPT ![f] = grown]
      BY <1>2, <2>2 DEF WriteDone, Grown
    <3> HIDE DEF grown
    <3>2. /\ ip'[f] = grown /\ dinode'[f] = grown
          /\ ip' \in [Files -> InodeT] /\ dinode' \in [Files -> InodeT]
          /\ \A g \in Files : g # f => ip'[g] = ip[g] /\ dinode'[g] = dinode[g]
      BY <1>6, <2>1, <3>1
    <3>3. /\ ip'[f].size = proc[p].end /\ ip'[f].type = ip[f].type /\ ip'[f].addrs = ip[f].addrs
          /\ ip'[f] = dinode'[f]
      BY <1>6, <3>2
    <3>q. QED
      BY <1>3, <1>4, <2>2, <3>2, <3>3
  <2>3. CASE ~(proc[p].end > ip[f].size)
    <3>1. ip' = ip /\ dinode' = dinode
      BY <1>2, <2>3 DEF WriteDone
    <3>q. QED
      BY <1>3, <1>4, <2>1, <2>3, <3>1
  <2>q. QED
    BY <2>2, <2>3
<1> HIDE DEF grown
<1>8. /\ proc' \in [Procs -> ProcT] /\ Alone(p) /\ proc'[p].pc \in {"idle", "chunk"} /\ proc'[p].file = f
      /\ proc'[p].off = proc[p].end /\ proc'[p].at = 0 /\ proc'[p].end = 0
      /\ proc'[p].pc = "idle" => proc'[p].n = 0
  <2> DEFINE pc == IF left = 0 THEN "idle" ELSE "chunk"
             x == [proc[p] EXCEPT !.pc = pc, !.off = proc[p].end, !.n = left, !.at = 0, !.end = 0, !.logged = {}]
  <2>1. proc[p] \in ProcT /\ proc[p].end \in 0..(MAXFILE * BSIZE)
    BY <1>3, <1>4, Sizing DEF BlkInv, BlkTypes
  <2>2. proc' = [proc EXCEPT ![p] = x]
    BY DEF WriteDone
  <2>3. pc \in {"idle", "chunk"} /\ (pc = "idle" => left = 0)
    OBVIOUS
  <2> HIDE DEF left, pc
  <2>4. x \in ProcT
    BY <1>5, <2>1, <2>3 DEF ProcT
  <2>5. x.pc = pc /\ x.file = proc[p].file /\ x.off = proc[p].end /\ x.at = 0 /\ x.end = 0 /\ x.n = left
    BY <2>1 DEF ProcT
  <2> HIDE DEF x
  <2>q. QED
    BY <1>2, <2>2, <2>3, <2>4, <2>5, StepIs DEF BlkInv
<1>9. Rest(p, f)
  BY <1>1, <1>2, <1>7, <1>8 DEF Rest
<1>10. BlkTypes'
  <2>1. disk' \in DiskT
    BY <1>1, <1>7, CommitTypes DEF BlkInv, BlkTypes
  <2>q. QED
    BY <1>1, <1>7, <1>8, <2>1 DEF BlkInv, BlkTypes
<1>q. QED
  BY <1>1, <1>2, <1>7, <1>8, <1>9, <1>10 DEF Finishing

LEMMA WriteDoneKeeps == ASSUME BlkInv, NEW p \in Procs, WriteDone(p) PROVE BlkInv'
<1>1. PICK f \in Files : Finishing(p, f)
  BY WriteDoneIs
<1>2. /\ f = proc[p].file /\ proc[p].pc = "write" /\ proc[p].at = proc[p].end /\ Rest(p, f) /\ BlkTypes'
      /\ UNCHANGED <<used, data>> /\ Commit(p, group)
      /\ proc'[p].pc \in {"idle", "chunk"} /\ proc'[p].file = f
      /\ proc'[p].off = proc[p].end /\ proc'[p].at = 0 /\ proc'[p].end = 0
      /\ proc'[p].pc = "idle" => proc'[p].n = 0
      /\ ip'[f] = dinode'[f] /\ ip'[f].addrs = ip[f].addrs /\ ip'[f].type
      /\ ip'[f].size = IF proc[p].end > ip[f].size THEN proc[p].end ELSE ip[f].size
  BY <1>1 DEF Finishing
<1>3. /\ Using(proc[p], ip[f], dinode[f], data) /\ NoHoles(ip[f], data) /\ ip[f].size \in Nat
      /\ proc[p].end \in Nat /\ Cur(f) = ip[f] /\ Cut(f) = {} /\ f # None
      /\ \A q \in Procs : proc[q].file = f /\ q # p => ~Busy(q)
  BY <1>2, WriterIs
<1>4. HasUpTo(ip[f], data, proc[p].end)
  BY <1>2, <1>3 DEF Using, Writing
<1>5. proc[p].end <= ip'[f].size /\ ip[f].size <= ip'[f].size
      /\ (ip'[f].size = proc[p].end \/ ip'[f].size = ip[f].size)
  BY <1>2, <1>3
<1>11. ~Busy(p)' /\ Cut(f)' = {}
  <2>1. Alone(p) /\ ~Busy(p)'
    BY <1>2 DEF Rest, Busy
  <2>q. QED
    BY <1>3, <2>1, LeftIs
<1>12. Cur(f)' = ip'[f]
  BY <1>2 DEF Cur
<1>13. \A x : Entry(ip'[f], data', x) = Entry(ip[f], data, x) /\ At(f, x)' = At(f, x)
  BY <1>2, <1>3, <1>11, <1>12, PtrSame, EntrySame DEF At
<1>14. MemSound'
  BY <1>2, <1>13, KeepsSound
<1>15. InCall(p)'
  <2>1. Using(proc'[p], ip'[f], dinode'[f], data')
    BY <1>2, <1>5 DEF Using, Writing, Freeing
  <2>q. QED
    BY <1>2, <1>3, <2>1 DEF InCall
<1>16. Welcomes(p, f)
  BY <1>2, <1>3, <1>5 DEF Welcomes
<1>17. Fresh(dinode'[f]) /\ NoHoles(Cur(f)', data')
  BY <1>2, <1>3, <1>4, <1>5, <1>12, <1>13 DEF Fresh, NoHoles, HasUpTo
<1>18. Ends(p, f)
  BY <1>2, <1>11, <1>15, <1>16, <1>17 DEF Ends
<1>q. QED
  BY <1>2, <1>14, <1>18, EndsKeeps
-----------------------------------------------------------------------------
(* open, unlink and close *)

\* A call that changes neither the blocks nor the size of a file that is not locked.
Settles(p, f) ==
  /\ Rest(p, f) /\ ~Locked(f) /\ ~Busy(p)' /\ InCall(p)'
  /\ ip'[f] = dinode'[f] /\ dinode'[f].type
  /\ dinode'[f].addrs = dinode[f].addrs /\ dinode'[f].size = dinode[f].size
  /\ UNCHANGED <<used, data>>
Settling(p) == BlkTypes' /\ Commit(p, group + 1) /\ \E f \in Files : Settles(p, f)
LEMMA SettlesKeeps ==
  ASSUME BlkInv, BlkTypes', NEW p \in Procs, NEW f \in Files, Settles(p, f), Commit(p, group + 1)
  PROVE  BlkInv'
<1>1. /\ Rest(p, f) /\ Alone(p) /\ ~Locked(f) /\ ~Busy(p)' /\ UNCHANGED <<used, data>>
      /\ ip'[f] = dinode'[f] /\ dinode'[f].type /\ dinode'[f].addrs = dinode[f].addrs
      /\ dinode'[f].size = dinode[f].size
  BY DEF Settles, Rest
<1>2. /\ Cut(f) = {} /\ ~InTrunc(f) /\ Cur(f) = dinode[f] /\ (Holders(f) # {} => ip[f] = dinode[f])
      /\ \A q \in Procs : proc[q].file = f => ~Busy(q)
  BY <1>1, UnlockedIs, UnlockedCur
<1>3. Cut(f)' = {}
  BY <1>1, <1>2, LeftIs
<1>4. Cur(f)' = dinode'[f]
  BY <1>1 DEF Cur
<1>5. \A x : At(f, x)' = At(f, x) /\ Entry(Cur(f)', data', x) = Entry(Cur(f), data, x)
  BY <1>1, <1>2, <1>3, <1>4, PtrSame, EntrySame DEF At
<1>6. MemSound'
  BY <1>1, <1>5, KeepsSound
<1>7. Welcomes(p, f)
  <2>1. dinode[f].size \in Nat
    BY FileParts, InodeParts DEF BlkInv
  <2>2. \A q \in Procs : proc[q].file = f => Holders(f) # {}
    BY DEF Holders
  <2>q. QED
    BY <1>1, <1>2, <2>1, <2>2 DEF Welcomes, Busy
<1>8. Fresh(dinode'[f]) /\ NoHoles(Cur(f)', data')
  <2>1. NoHoles(Cur(f), data)
    BY <1>2 DEF BlkInv, Filled
  <2>q. QED
    BY <1>1, <1>2, <1>4, <1>5, <2>1 DEF Fresh, NoHoles, HasUpTo
<1>9. Ends(p, f)
  BY <1>1, <1>7, <1>8 DEF Ends, Settles
<1>q. QED
  BY <1>6, <1>9, EndsKeeps

LEMMA OpenSettles == ASSUME BlkInv, NEW p \in Procs, Open(p) PROVE Settling(p)
<1>1. proc[p].pc = "idle" /\ proc[p].file = None /\ UNCHANGED <<used, data>> /\ Commit(p, group + 1)
  BY DEF Open, Do, Op
<1>2. proc[p] = Idle
  BY <1>1, NoFileIs
<1> DEFINE new == [FreeInode EXCEPT !.type = TRUE, !.nlink = 1]
<1>3. PICK f \in Files :
        /\ ~Locked(f) /\ proc' = [proc EXCEPT ![p].file = f]
        /\ \/ /\ dinode[f].nlink > 0
              /\ ip' = [ip EXCEPT ![f] = IF Holders(f) = {} THEN dinode[f] ELSE ip[f]]
              /\ UNCHANGED dinode
           \/ /\ ~dinode[f].type
              /\ dinode' = [dinode EXCEPT ![f] = new]
              /\ ip' = [ip EXCEPT ![f] = dinode'[f]]
  BY DEF Open
<1>4. /\ Cur(f) = dinode[f] /\ (Holders(f) # {} => ip[f] = dinode[f]) /\ Fresh(dinode[f])
      /\ dinode[f] \in InodeT /\ f # None
      /\ ip \in [Files -> InodeT] /\ dinode \in [Files -> InodeT]
  BY <1>3, UnlockedCur, BlocksAssumption DEF BlkInv, Filled, BlkTypes
<1>5. new \in InodeT /\ new.type /\ new.addrs = FreeInode.addrs /\ new.size = FreeInode.size
  BY ConstantsAre DEF InodeT
<1> HIDE DEF new
<1>6. /\ ip'[f] = dinode'[f] /\ dinode'[f].type
      /\ dinode'[f].addrs = dinode[f].addrs /\ dinode'[f].size = dinode[f].size
      /\ ip' \in [Files -> InodeT] /\ dinode' \in [Files -> InodeT]
      /\ \A g \in Files : g # f => ip'[g] = ip[g] /\ dinode'[g] = dinode[g]
  <2>1. CASE /\ dinode[f].nlink > 0
             /\ ip' = [ip EXCEPT ![f] = IF Holders(f) = {} THEN dinode[f] ELSE ip[f]]
             /\ UNCHANGED dinode
    <3>1. dinode[f].type
      <4>1. FreeInode.nlink = 0
        BY DEF FreeInode
      <4>2. dinode[f].nlink # 0
        BY <1>4, <2>1, InodeParts
      <4>q. QED
        BY <1>4, <4>1, <4>2 DEF Fresh
    <3>2. ip' = [ip EXCEPT ![f] = dinode[f]]
      BY <1>4, <2>1
    <3>q. QED
      BY <1>4, <2>1, <3>1, <3>2
  <2>2. CASE /\ ~dinode[f].type
             /\ dinode' = [dinode EXCEPT ![f] = new]
             /\ ip' = [ip EXCEPT ![f] = dinode'[f]]
    <3>1. dinode[f] = FreeInode
      BY <1>4, <2>2 DEF Fresh
    <3>q. QED
      BY <1>4, <1>5, <2>2, <3>1
  <2>q. QED
    BY <1>3, <2>1, <2>2
<1>7. /\ proc' \in [Procs -> ProcT] /\ Alone(p) /\ proc'[p] = [Idle EXCEPT !.file = f]
  <2>1. [Idle EXCEPT !.file = f] \in ProcT
    BY ConstantsAre DEF ProcT
  <2>2. proc' = [proc EXCEPT ![p] = [Idle EXCEPT !.file = f]]
    BY <1>2, <1>3
  <2>q. QED
    BY <2>1, <2>2, StepIs DEF BlkInv
<1>8. /\ proc'[p].pc = "idle" /\ proc'[p].file = f /\ proc'[p].off = 0
      /\ proc'[p].at = 0 /\ proc'[p].end = 0 /\ proc'[p].n = 0
  BY <1>7 DEF Idle
<1>9. Rest(p, f)
  BY <1>1, <1>6, <1>7, <1>8 DEF Rest
<1>10. BlkTypes'
  BY <1>1, <1>6, <1>7, CommitTypes DEF BlkInv, BlkTypes
<1>11. InCall(p)'
  <2>1. dinode[f].size \in Nat
    BY <1>4, InodeParts
  <2>2. Using(proc'[p], ip'[f], dinode'[f], data')
    BY <1>6, <1>8, <2>1 DEF Using, Writing, Freeing
  <2>q. QED
    BY <1>4, <1>8, <2>2 DEF InCall
<1>12. Settles(p, f)
  BY <1>1, <1>3, <1>6, <1>8, <1>9, <1>11 DEF Settles, Busy
<1>q. QED
  BY <1>1, <1>10, <1>12 DEF Settling

\* begin_op of the call that takes an i-node's last reference.
Enters(p, f) ==
  /\ Rest(p, f) /\ ~Locked(f) /\ Holders(f) \subseteq {p}
  /\ proc'[p].pc = "trunc" /\ proc'[p].file = f /\ proc'[p].at = 0
  /\ dinode[f].type /\ ip'[f].type /\ dinode'[f].type /\ ip'[f].addrs = dinode[f].addrs
  /\ UNCHANGED <<used, data, disk>>
Entering(p) == BlkTypes' /\ \E f \in Files : Enters(p, f)
LEMMA EntersKeeps ==
  ASSUME BlkInv, BlkTypes', NEW p \in Procs, NEW f \in Files, Enters(p, f)
  PROVE  BlkInv'
<1>1. /\ Rest(p, f) /\ Alone(p) /\ ~Locked(f) /\ Holders(f) \subseteq {p}
      /\ proc'[p].pc = "trunc" /\ proc'[p].file = f /\ proc'[p].at = 0
      /\ ip'[f].type /\ dinode'[f].type /\ ip'[f].addrs = dinode[f].addrs
      /\ UNCHANGED <<used, data, disk>>
  BY DEF Enters, Rest
<1>2. Cut(f) = {} /\ Cur(f) = dinode[f] /\ f # None
  BY <1>1, UnlockedIs, UnlockedCur, BlocksAssumption
<1>3. \A q \in Procs : proc'[q].file = f <=> q = p
  BY <1>1, HoldersAre DEF Alone
<1>4. Holders(f)' # {} /\ Locked(f)' /\ InTrunc(f)'
  BY <1>1 DEF Holders, Locked, InTrunc, Busy
<1>5. Cut(f)' = {}
  BY <1>1, <1>3 DEF Cut
<1>6. Cur(f)' = ip'[f]
  BY <1>4 DEF Cur
<1>7. \A x : At(f, x)' = At(f, x)
  BY <1>1, <1>2, <1>5, <1>6, PtrSame DEF At
<1>8. MemSound'
  BY <1>1, <1>7, KeepsSound
<1>9. InCall(p)'
  <2>1. Using(proc'[p], ip'[f], dinode'[f], data')
    BY <1>1 DEF Using, Writing, Freeing
  <2>q. QED
    BY <1>1, <1>2, <2>1 DEF InCall
<1>10. Welcomes(p, f)
  BY <1>1, HoldersAre DEF Welcomes
<1>11. InCalls' /\ OneBusy'
  BY <1>1, <1>9, <1>10, KeepsCalls
<1>12. Filled'
  <2>1. Fresh(dinode'[f])
    BY <1>1 DEF Fresh
  <2>q. QED
    BY <1>1, <1>4, <2>1, KeepsFilled
<1>13. Synced'
  BY <1>1, <1>4, KeepsSynced
<1>14. DiskInv'
  BY <1>1 DEF BlkInv, DiskInv
<1>q. QED
  BY <1>8, <1>11, <1>12, <1>13, <1>14 DEF BlkInv

LEMMA UnlinkIs == ASSUME BlkInv, NEW p \in Procs, Unlink(p) PROVE Settling(p) \/ Entering(p)
<1>1. proc[p].pc = "idle" /\ proc[p].file = None /\ proc[p] = Idle
  BY NoFileIs DEF Unlink, Do
<1>2. PICK f \in Files :
        /\ dinode[f].nlink > 0 /\ ~Locked(f)
        /\ ip' = [ip EXCEPT ![f] = [(IF Holders(f) = {} THEN dinode[f] ELSE ip[f]) EXCEPT !.nlink = 0]]
        /\ dinode' = [dinode EXCEPT ![f] = ip'[f]]
        /\ UNCHANGED <<used, data, panic>>
        /\ \/ /\ Holders(f) = {}
              /\ proc' = [proc EXCEPT ![p].pc = "trunc", ![p].file = f, ![p].logged = {Dir, Inode}]
              /\ BeginOp
           \/ /\ Holders(f) # {}
              /\ UNCHANGED proc
              /\ Op(p)
  BY DEF Unlink
<1>3. /\ Cur(f) = dinode[f] /\ (Holders(f) # {} => ip[f] = dinode[f]) /\ Fresh(dinode[f])
      /\ dinode[f] \in InodeT /\ f # None
      /\ ip \in [Files -> InodeT] /\ dinode \in [Files -> InodeT]
  BY <1>2, UnlockedCur, BlocksAssumption DEF BlkInv, Filled, BlkTypes
<1>4. dinode[f].type
  <2>1. FreeInode.nlink = 0
    BY DEF FreeInode
  <2>2. dinode[f].nlink # 0
    BY <1>2, <1>3, InodeParts
  <2>q. QED
    BY <1>3, <2>1, <2>2 DEF Fresh
<1> DEFINE i == [dinode[f] EXCEPT !.nlink = 0]
<1>5. i \in InodeT /\ i.type /\ i.addrs = dinode[f].addrs /\ i.size = dinode[f].size
  BY <1>3, <1>4 DEF InodeT
<1>6. ip' = [ip EXCEPT ![f] = i] /\ dinode' = [dinode EXCEPT ![f] = ip'[f]]
  BY <1>2, <1>3
<1> HIDE DEF i
<1>7. /\ ip'[f] = i /\ dinode'[f] = i /\ ip' \in [Files -> InodeT] /\ dinode' \in [Files -> InodeT]
      /\ \A g \in Files : g # f => ip'[g] = ip[g] /\ dinode'[g] = dinode[g]
  BY <1>3, <1>5, <1>6
<1>8. CASE Holders(f) # {}
  <2>1. UNCHANGED <<proc, used, data>> /\ Commit(p, group + 1)
    BY <1>2, <1>8 DEF Op
  <2>2. Rest(p, f)
    BY <1>1, <1>7, <2>1 DEF Rest, Alone
  <2>3. BlkTypes'
    BY <1>7, <2>1, CommitTypes DEF BlkInv, BlkTypes
  <2>4. InCall(p)'
    BY <1>1, <2>1 DEF InCall
  <2>5. Settles(p, f)
    BY <1>1, <1>2, <1>5, <1>7, <2>1, <2>2, <2>4 DEF Settles, Busy
  <2>q. QED
    BY <2>1, <2>3, <2>5 DEF Settling
<1>9. CASE Holders(f) = {}
  <2>1. UNCHANGED <<used, data, disk>>
    BY <1>2, <1>9 DEF BeginOp
  <2> DEFINE x == [Idle EXCEPT !.pc = "trunc", !.file = f, !.logged = {Dir, Inode}]
  <2>2. proc' = [proc EXCEPT ![p] = x]
    BY <1>1, <1>2, <1>9
  <2>3. x \in ProcT /\ x.pc = "trunc" /\ x.file = f /\ x.at = 0
    BY ConstantsAre DEF ProcT, Idle
  <2> HIDE DEF x
  <2>4. proc'[p] = x /\ proc' \in [Procs -> ProcT] /\ Alone(p)
    BY <2>2, <2>3, StepIs DEF BlkInv
  <2>5. Rest(p, f)
    BY <1>1, <1>7, <2>1, <2>3, <2>4 DEF Rest
  <2>6. BlkTypes'
    BY <1>7, <2>1, <2>4 DEF BlkInv, BlkTypes
  <2>7. Enters(p, f)
    BY <1>2, <1>4, <1>5, <1>7, <1>9, <2>1, <2>3, <2>4, <2>5 DEF Enters
  <2>q. QED
    BY <2>6, <2>7 DEF Entering
<1>q. QED
  BY <1>8, <1>9

LEMMA CloseIs == ASSUME BlkInv, NEW p \in Procs, Close(p) PROVE Settling(p) \/ Entering(p)
<1>1. /\ proc[p].pc = "idle" /\ proc[p].file # None /\ ~Locked(proc[p].file)
      /\ UNCHANGED <<used, data, dinode, ip>>
  BY DEF Close, Do
<1>2. PICK f \in Files : f = proc[p].file
  BY <1>1, CallIs
<1>3. /\ Using(proc[p], ip[f], dinode[f], data) /\ ip[f].type /\ dinode[f].type /\ f # None
      /\ proc[p].at = 0
  BY <1>1, <1>2, CallIs DEF Using
<1>4. ip[f] = dinode[f] /\ p \in Holders(f)
  BY <1>1, <1>2, UnlockedCur, HoldersAre
<1>5. CASE Holders(f) = {p} /\ proc' = [proc EXCEPT ![p].pc = "trunc"] /\ BeginOp
  <2>1. UNCHANGED <<used, data, disk>>
    BY <1>1, <1>5 DEF BeginOp
  <2> DEFINE x == [proc[p] EXCEPT !.pc = "trunc"]
  <2>2. proc' = [proc EXCEPT ![p] = x]
    BY <1>5
  <2>3. x \in ProcT /\ x.pc = "trunc" /\ x.file = f /\ x.at = 0
    <3>1. proc[p] \in ProcT
      BY DEF BlkInv, BlkTypes
    <3>q. QED
      BY <1>2, <1>3, <3>1 DEF ProcT
  <2> HIDE DEF x
  <2>4. proc'[p] = x /\ proc' \in [Procs -> ProcT] /\ Alone(p)
    BY <2>2, <2>3, StepIs DEF BlkInv
  <2>5. Rest(p, f)
    BY <1>1, <1>2, <2>1, <2>3, <2>4 DEF Rest
  <2>6. BlkTypes'
    BY <1>1, <2>1, <2>4 DEF BlkInv, BlkTypes
  <2>7. Enters(p, f)
    BY <1>1, <1>2, <1>3, <1>4, <1>5, <2>1, <2>3, <2>4, <2>5 DEF Enters
  <2>q. QED
    BY <2>6, <2>7 DEF Entering
<1>6. CASE proc' = [proc EXCEPT ![p] = Idle] /\ Op(p)
  <2>1. Commit(p, group + 1)
    BY <1>6 DEF Op
  <2>2. proc'[p] = Idle /\ proc' \in [Procs -> ProcT] /\ Alone(p) /\ Idle.file = None /\ Idle.pc = "idle"
    BY <1>6, StepIs, ConstantsAre DEF BlkInv, Idle
  <2>3. Rest(p, f)
    BY <1>1, <1>2, <2>2 DEF Rest
  <2>4. BlkTypes'
    BY <1>1, <2>1, <2>2, CommitTypes DEF BlkInv, BlkTypes
  <2>5. InCall(p)'
    BY <2>2 DEF InCall
  <2>6. Settles(p, f)
    BY <1>1, <1>2, <1>3, <1>4, <2>2, <2>3, <2>5 DEF Settles, Busy
  <2>q. QED
    BY <2>1, <2>4, <2>6 DEF Settling
<1>q. QED
  BY <1>2, <1>5, <1>6 DEF Close

LEMMA NamingKeeps ==
  ASSUME BlkInv, NEW p \in Procs, Open(p) \/ Unlink(p) \/ Close(p)
  PROVE  BlkInv' /\ (Settling(p) \/ Entering(p))
<1>1. Settling(p) \/ Entering(p)
  BY OpenSettles, UnlinkIs, CloseIs
<1>2. Settling(p) => BlkInv'
  BY SettlesKeeps DEF Settling
<1>3. Entering(p) => BlkInv'
  BY EntersKeeps DEF Entering
<1>q. QED
  BY <1>1, <1>2, <1>3
-----------------------------------------------------------------------------
(* itrunc *)

LEMMA TruncerIs ==
  ASSUME BlkInv, NEW p \in Procs, proc[p].pc = "trunc", NEW f \in Files, f = proc[p].file
  PROVE  /\ Cur(f) = ip[f] /\ Cut(f) = {j \in 0..(BSIZE - 1) : j < proc[p].at} /\ f # None
         /\ ip[f].type /\ dinode[f].type /\ Freeing(proc[p], ip[f])
         /\ \A q \in Procs : proc[q].file = f => q = p
         /\ ip[f] \in InodeT /\ proc[p].at \in Nat
<1>1. Busy(p) /\ f # None
  BY NoFileIs DEF Busy
<1>2. Holders(f) = {p}
  BY <1>1, BusyIs
<1>3. Using(proc[p], ip[f], dinode[f], data) /\ Cur(f) = ip[f]
  BY <1>1, CallIs
<1>4. ip[f] \in InodeT /\ proc[p].at \in Nat
  BY FileParts, ProcParts DEF BlkInv
<1>q. QED
  BY <1>1, <1>2, <1>3, <1>4, CutIs, HoldersAre DEF Using

LEMMA FirstIs ==
  ASSUME NEW n, NEW S \in SUBSET (0..n), S # {}
  PROVE  Min(S) \in S /\ Min(S) \in Nat /\ \A m \in S : Min(S) <= m
<1>1. S \subseteq Nat
  OBVIOUS
<1>q. QED
  BY <1>1, MinIs

\* bfree of the block at place y; the search goes on at entry next.
Frees(p, f, b, y, next) ==
  /\ At(f, y) = b /\ b # None
  /\ bfree(p, b, next) /\ dinode' = dinode /\ disk' = disk
  /\ ip' \in [Files -> InodeT] /\ \A g \in Files : g # f => ip'[g] = ip[g]
  /\ ip'[f].type = ip[f].type
  /\ next # 0 => ip'[f].addrs[NDIRECT] # None /\ \A n \in 0..(NDIRECT - 1) : ip'[f].addrs[n] = None
  /\ y = MAXFILE => ip'[f].addrs[NDIRECT] = None
  /\ y # MAXFILE => ip'[f].addrs[NDIRECT] = ip[f].addrs[NDIRECT]
  /\ \A x \in Places :
       Ptr(ip'[f], data, {j \in 0..(BSIZE - 1) : j < next}, x) = IF x = y THEN None ELSE At(f, x)
LEMMA FreesKeeps ==
  ASSUME BlkInv, NEW p \in Procs, NEW f \in Files, f = proc[p].file, proc[p].pc = "trunc",
         NEW b, NEW y \in Places, NEW next \in Nat, Frees(p, f, b, y, next)
  PROVE  BlkInv'
<1>1. /\ At(f, y) = b /\ b # None
      /\ bfree(p, b, next) /\ dinode' = dinode /\ disk' = disk
      /\ ip' \in [Files -> InodeT] /\ \A g \in Files : g # f => ip'[g] = ip[g]
      /\ ip'[f].type = ip[f].type
      /\ next # 0 => ip'[f].addrs[NDIRECT] # None /\ \A n \in 0..(NDIRECT - 1) : ip'[f].addrs[n] = None
      /\ y = MAXFILE => ip'[f].addrs[NDIRECT] = None
      /\ y # MAXFILE => ip'[f].addrs[NDIRECT] = ip[f].addrs[NDIRECT]
      /\ \A x \in Places :
           Ptr(ip'[f], data, {j \in 0..(BSIZE - 1) : j < next}, x) = IF x = y THEN None ELSE At(f, x)
  BY DEF Frees
<1>2. /\ Cur(f) = ip[f] /\ f # None /\ ip[f].type /\ dinode[f].type
      /\ \A q \in Procs : proc[q].file = f => q = p
  BY TruncerIs
<1>3. b \in used /\ b \in Blocks
  BY <1>1, SoundIs DEF BlkInv, BlkTypes
<1>4. used' = used \ {b} /\ data' = [data EXCEPT ![b] = Stale] /\ proc' = [Logs(p, {Bitmap}) EXCEPT ![p].at = next]
  BY <1>1, <1>3 DEF bfree
<1>5. /\ data' \in [Blocks -> BlockT] /\ \A a \in Blocks : a # b => data'[a] = data[a]
  BY <1>3, <1>4, ConstantsAre DEF BlkInv, BlkTypes
<1>6. /\ proc' \in [Procs -> ProcT] /\ Alone(p)
      /\ proc'[p].pc = "trunc" /\ proc'[p].file = f /\ proc'[p].at = next
  <2> DEFINE x == [proc[p] EXCEPT !.logged = proc[p].logged \cup {Bitmap}, !.at = next]
  <2>1. proc[p] \in ProcT /\ proc \in [Procs -> ProcT]
    BY DEF BlkInv, BlkTypes
  <2>2. proc' = [proc EXCEPT ![p] = x]
    BY <1>4, <2>1 DEF Logs
  <2>3. x \in ProcT /\ x.pc = proc[p].pc /\ x.file = proc[p].file /\ x.at = next
    BY <2>1 DEF ProcT
  <2> HIDE DEF x
  <2>q. QED
    BY <2>2, <2>3, StepIs DEF BlkInv
<1>7. BlkTypes'
  BY <1>1, <1>3, <1>4, <1>5, <1>6 DEF BlkInv, BlkTypes
<1>8. \A g \in Files : g # f \/ y # MAXFILE => Cur(g).addrs[NDIRECT] # b
  <2>1. ASSUME NEW g \in Files, Cur(g).addrs[NDIRECT] = b PROVE g = f /\ y = MAXFILE
    <3>1. At(g, MAXFILE) = b /\ MAXFILE \in Places
      BY <2>1, SoundIs
    <3>2. At(f, y) # None /\ At(f, y) = At(g, MAXFILE)
      BY <1>1, <3>1
    <3>q. QED
      BY <3>1, <3>2, OnePlace
  <2>q. QED
    BY <2>1
<1>9. \A g \in Files : Cur(g).addrs[NDIRECT] # None /\ (g # f \/ y # MAXFILE)
        => data'[Cur(g).addrs[NDIRECT]] = data[Cur(g).addrs[NDIRECT]]
  <2>1. \A g \in Files : Cur(g).addrs[NDIRECT] \in BlockOrNone
    BY FileParts, InodeParts DEF BlkInv
  <2>q. QED
    BY <1>5, <1>8, <2>1 DEF BlockOrNone
<1>10. Rest(p, f)
  BY <1>1, <1>6, <1>9 DEF Rest
<1>11. \A q \in Procs : proc'[q].file = f <=> q = p
  BY <1>2, <1>6 DEF Alone
<1>12. /\ Holders(f)' # {} /\ Locked(f)' /\ InTrunc(f)'
       /\ Cut(f)' = {j \in 0..(BSIZE - 1) : j < next}
  <2>1. Holders(f)' # {} /\ Locked(f)' /\ InTrunc(f)'
    BY <1>6 DEF Holders, Locked, InTrunc, Busy
  <2>2. Cut(f)' = {j \in 0..(BSIZE - 1) : j < next}
    BY <1>6, <1>11 DEF Cut
  <2>q. QED
    BY <2>1, <2>2
<1>13. Cur(f)' = ip'[f]
  BY <1>12 DEF Cur
<1>14. \A x \in Places : At(f, x)' = IF x = y THEN None ELSE At(f, x)
  <2>1. ip'[f].addrs[NDIRECT] # None => data'[ip'[f].addrs[NDIRECT]] = data[ip'[f].addrs[NDIRECT]]
    BY <1>1, <1>2, <1>9
  <2>2. \A t, x : Ptr(ip'[f], data', t, x) = Ptr(ip'[f], data, t, x)
    BY <2>1, PtrSame
  <2>q. QED
    BY <1>1, <1>12, <1>13, <2>2 DEF At
<1>15. MemSound'
  <2>1. used' = used \ {At(f, y)} /\ At(f, y) # None
    BY <1>1, <1>4
  <2>q. QED
    BY <1>10, <1>14, <2>1, GivesSound
<1>16. InCall(p)'
  <2>1. Using(proc'[p], ip'[f], dinode'[f], data')
    BY <1>1, <1>2, <1>6 DEF Using, Writing, Freeing
  <2>q. QED
    BY <1>2, <1>6, <2>1 DEF InCall
<1>17. InCalls' /\ OneBusy'
  <2>1. Welcomes(p, f)
    BY <1>2 DEF Welcomes
  <2>q. QED
    BY <1>7, <1>10, <1>16, <2>1, KeepsCalls
<1>18. Filled'
  <2>1. Fresh(dinode'[f])
    BY <1>1 DEF BlkInv, Filled
  <2>q. QED
    BY <1>10, <1>12, <2>1, KeepsFilled
<1>19. Synced'
  BY <1>10, <1>12, KeepsSynced
<1>20. DiskInv'
  BY <1>1 DEF BlkInv, DiskInv
<1>q. QED
  BY <1>7, <1>15, <1>17, <1>18, <1>19, <1>20 DEF BlkInv

Freed(p) ==
  \E f \in Files, b \in Blocks, y \in Places, next \in Nat :
    f = proc[p].file /\ proc[p].pc = "trunc" /\ Frees(p, f, b, y, next)
LEMMA TruncFrees == ASSUME BlkInv, NEW p \in Procs, Trunc(p) PROVE Freed(p)
<1>1. proc[p].pc = "trunc" /\ UNCHANGED <<dinode, disk>>
  BY DEF Trunc, Do
<1>2. PICK f \in Files : f = proc[p].file
  BY <1>1, NoFileIs, CallIs
<1> DEFINE at == proc[p].at
           ind == ip[f].addrs[NDIRECT]
           direct == {n \in 0..(NDIRECT - 1) : ip[f].addrs[n] # None}
           left == {j \in Entries(f) : j >= at}
<1>3. /\ Cur(f) = ip[f] /\ Cut(f) = {j \in 0..(BSIZE - 1) : j < at} /\ Freeing(proc[p], ip[f])
      /\ ip[f] \in InodeT /\ at \in Nat
  BY <1>1, <1>2, TruncerIs
<1>4. /\ ip \in [Files -> InodeT] /\ ip[f].addrs \in Addrs /\ MAXFILE \in Places
  BY <1>3, InodeParts, Sizing DEF BlkInv, BlkTypes, Places
<1>b. ASSUME NEW y \in Places, NEW b, b = At(f, y), b # None PROVE b \in Blocks
  BY <1>b, SoundIs DEF BlkInv, BlkTypes
<1>5. \A x : At(f, x) = Ptr(ip[f], data, {j \in 0..(BSIZE - 1) : j < at}, x)
  BY <1>3 DEF At
<1>6. ASSUME NEW n \in 0..NDIRECT, ip' = [ip EXCEPT ![f].addrs[n] = None]
      PROVE  /\ ip' \in [Files -> InodeT] /\ \A g \in Files : g # f => ip'[g] = ip[g]
             /\ ip'[f].type = ip[f].type
             /\ \A m \in 0..NDIRECT : ip'[f].addrs[m] = IF m = n THEN None ELSE ip[f].addrs[m]
  <2> DEFINE i == [ip[f] EXCEPT !.addrs[n] = None]
  <2>1. ip' = [ip EXCEPT ![f] = i]
    BY <1>6
  <2>2. [ip[f].addrs EXCEPT ![n] = None] \in Addrs
    BY <1>4 DEF Addrs, BlockOrNone
  <2>3. i \in InodeT /\ i.type = ip[f].type /\ i.addrs = [ip[f].addrs EXCEPT ![n] = None]
    BY <1>3, <2>2 DEF InodeT
  <2> HIDE DEF i
  <2>4. \A m \in 0..NDIRECT : i.addrs[m] = IF m = n THEN None ELSE ip[f].addrs[m]
    BY <1>4, <2>3 DEF Addrs
  <2>q. QED
    BY <1>4, <2>1, <2>3, <2>4
<1>7. CASE /\ direct # {}
           /\ bfree(p, ip[f].addrs[Min(direct)], 0)
           /\ ip' = [ip EXCEPT ![f].addrs[Min(direct)] = None]
  <2>1. Min(direct) \in direct
    BY <1>7, FirstIs
  <2>2. PICK m \in 0..(NDIRECT - 1) : m = Min(direct) /\ ip[f].addrs[m] # None
    BY <2>1
  <2>3. m \in 0..NDIRECT /\ m # NDIRECT /\ m \in Places /\ m # MAXFILE /\ NDIRECT \in 0..NDIRECT
    BY Sizing DEF Places
  <2>4. /\ ip' \in [Files -> InodeT] /\ \A g \in Files : g # f => ip'[g] = ip[g]
        /\ ip'[f].type = ip[f].type
        /\ \A k \in 0..NDIRECT : ip'[f].addrs[k] = IF k = m THEN None ELSE ip[f].addrs[k]
    BY <1>6, <1>7, <2>2, <2>3
  <2>5. at = 0
    BY <1>1, <1>3, <2>2 DEF Freeing
  <2>6. At(f, m) = ip[f].addrs[m]
    <3>1. m < NDIRECT
      BY Sizing
    <3>q. QED
      BY <1>5, <3>1 DEF Ptr
  <2>7. ip'[f].addrs[NDIRECT] = ind
    BY <2>3, <2>4
  <2>8. \A x \in Places : Ptr(ip'[f], data, {j \in 0..(BSIZE - 1) : j < 0}, x) = IF x = m THEN None ELSE At(f, x)
    <3>1. ASSUME NEW x \in Places
          PROVE  Ptr(ip'[f], data, {j \in 0..(BSIZE - 1) : j < 0}, x) = IF x = m THEN None ELSE At(f, x)
      <4>1. CASE x < NDIRECT
        <5>1. x \in 0..NDIRECT
          BY <4>1, Sizing DEF Places
        <5>q. QED
          BY <1>5, <2>4, <4>1, <5>1 DEF Ptr
      <4>2. CASE ~(x < NDIRECT)
        <5>1. x # m
          BY <4>2, Sizing
        <5>q. QED
          BY <1>5, <2>5, <2>7, <4>2, <5>1 DEF Ptr
      <4>q. QED
        BY <4>1, <4>2
    <3>q. QED
      BY <3>1
  <2>9. Frees(p, f, ip[f].addrs[m], m, 0)
    BY <1>1, <1>7, <2>2, <2>3, <2>4, <2>6, <2>7, <2>8 DEF Frees
  <2>q. QED
    BY <1>1, <1>2, <1>b, <2>2, <2>3, <2>6, <2>9 DEF Freed
<1>8. CASE /\ direct = {} /\ left # {}
           /\ bfree(p, data[ind][Min(left)], Min(left) + 1)
           /\ UNCHANGED ip
  <2>1. ind # None /\ Entries(f) = {j \in 0..(BSIZE - 1) : data[ind][j] # None}
    BY <1>8 DEF Entries, NINDIRECT
  <2>2. left \subseteq 0..(BSIZE - 1) /\ left # {}
    BY <1>8, <2>1
  <2>3. Min(left) \in left /\ \A j \in left : Min(left) <= j
    BY <2>2, FirstIs
  <2>4. PICK m \in 0..(BSIZE - 1) : /\ m = Min(left) /\ data[ind][m] # None /\ m >= at
                                    /\ \A j \in 0..(BSIZE - 1) : j >= at /\ j < m => data[ind][j] = None
    <3>1. \A j \in 0..(BSIZE - 1) : j >= at /\ data[ind][j] # None => Min(left) <= j
      BY <2>1, <2>3
    <3>2. Min(left) \in 0..(BSIZE - 1) /\ Min(left) >= at /\ data[ind][Min(left)] # None
      BY <2>1, <2>3
    <3> HIDE DEF left
    <3>3. PICK m \in 0..(BSIZE - 1) : m = Min(left)
      BY <3>2
    <3>4. \A j \in 0..(BSIZE - 1) : j >= at /\ j < m => data[ind][j] = None
      BY <3>1, <3>3
    <3>q. QED
      BY <3>2, <3>3, <3>4
  <2> DEFINE y == NDIRECT + m
  <2>5. y \in Places /\ y # MAXFILE /\ y - NDIRECT = m /\ ~(y < NDIRECT) /\ m + 1 \in Nat
    BY Sizing DEF Places
  <2>6. At(f, y) = data[ind][m]
    <3>0. ~(m < at)
      BY <1>3, <2>4
    <3>1. m \notin {j \in 0..(BSIZE - 1) : j < at}
      BY <3>0
    <3> HIDE DEF y
    <3>q. QED
      BY <1>5, <2>1, <2>5, <3>1 DEF Ptr
  <2>7. \A x \in Places : Ptr(ip[f], data, {j \in 0..(BSIZE - 1) : j < m + 1}, x) = IF x = y THEN None ELSE At(f, x)
    <3>1. ASSUME NEW x \in Places
          PROVE  Ptr(ip[f], data, {j \in 0..(BSIZE - 1) : j < m + 1}, x) = IF x = y THEN None ELSE At(f, x)
      <4>1. CASE x < NDIRECT \/ x = MAXFILE
        <5>1. x # y
          BY <2>5, <4>1
        <5>q. QED
          BY <1>5, <4>1, <5>1 DEF Ptr
      <4>2. CASE ~(x < NDIRECT) /\ x # MAXFILE
        <5>1. PICK j \in 0..(BSIZE - 1) : j = x - NDIRECT /\ (j = m <=> x = y)
          BY <4>2, Sizing DEF Places
        <5>2. At(f, x) = IF j < at THEN None ELSE data[ind][j]
          BY <1>5, <2>1, <4>2, <5>1 DEF Ptr
        <5>3. Ptr(ip[f], data, {k \in 0..(BSIZE - 1) : k < m + 1}, x) = IF j < m + 1 THEN None ELSE data[ind][j]
          BY <2>1, <4>2, <5>1 DEF Ptr
        <5>q. QED
          BY <1>3, <2>4, <5>1, <5>2, <5>3
      <4>q. QED
        BY <4>1, <4>2
    <3>q. QED
      BY <3>1
  <2> HIDE DEF y
  <2>8. \A n \in 0..(NDIRECT - 1) : ip[f].addrs[n] = None
    BY <1>8
  <2>9. Frees(p, f, data[ind][m], y, m + 1)
    BY <1>1, <1>4, <1>8, <2>1, <2>4, <2>5, <2>6, <2>7, <2>8 DEF Frees
  <2>q. QED
    BY <1>1, <1>2, <1>b, <2>4, <2>5, <2>6, <2>9 DEF Freed
<1>9. CASE /\ direct = {} /\ left = {} /\ ind # None
           /\ bfree(p, ind, 0)
           /\ ip' = [ip EXCEPT ![f].addrs[NDIRECT] = None]
  <2>1. Entries(f) = {j \in 0..(BSIZE - 1) : data[ind][j] # None}
    BY <1>9 DEF Entries, NINDIRECT
  <2>2. \A j \in 0..(BSIZE - 1) : j >= at => data[ind][j] = None
    BY <1>9, <2>1
  <2>3. NDIRECT \in 0..NDIRECT
    BY Sizing
  <2>4. /\ ip' \in [Files -> InodeT] /\ \A g \in Files : g # f => ip'[g] = ip[g]
        /\ ip'[f].type = ip[f].type
        /\ \A k \in 0..NDIRECT : ip'[f].addrs[k] = IF k = NDIRECT THEN None ELSE ip[f].addrs[k]
    BY <1>6, <1>9, <2>3
  <2>5. At(f, MAXFILE) = ind
    BY <1>3, SoundIs
  <2>6. ip'[f].addrs[NDIRECT] = None
    BY <2>3, <2>4
  <2>7. \A x \in Places : Ptr(ip'[f], data, {j \in 0..(BSIZE - 1) : j < 0}, x) = IF x = MAXFILE THEN None ELSE At(f, x)
    <3>1. ASSUME NEW x \in Places
          PROVE  Ptr(ip'[f], data, {j \in 0..(BSIZE - 1) : j < 0}, x) = IF x = MAXFILE THEN None ELSE At(f, x)
      <4>1. CASE x < NDIRECT
        <5>1. x \in 0..NDIRECT /\ x # NDIRECT /\ x # MAXFILE
          BY <4>1, Sizing DEF Places
        <5>q. QED
          BY <1>5, <2>4, <4>1, <5>1 DEF Ptr
      <4>2. CASE ~(x < NDIRECT) /\ x # MAXFILE
        <5>1. x - NDIRECT \in 0..(BSIZE - 1)
          BY <4>2, Sizing DEF Places
        <5>2. At(f, x) = None
          BY <1>3, <1>5, <2>2, <4>2, <5>1 DEF Ptr
        <5>q. QED
          BY <2>6, <4>2, <5>2 DEF Ptr
      <4>3. CASE x = MAXFILE
        <5>1. ~(x < NDIRECT)
          BY <4>3, Sizing
        <5>q. QED
          BY <2>6, <4>3, <5>1 DEF Ptr
      <4>q. QED
        BY <4>1, <4>2, <4>3
    <3>q. QED
      BY <3>1
  <2>8. Frees(p, f, ind, MAXFILE, 0)
    BY <1>1, <1>9, <2>4, <2>5, <2>6, <2>7 DEF Frees
  <2>q. QED
    BY <1>1, <1>2, <1>4, <1>b, <1>9, <2>5, <2>8 DEF Freed
<1>q. QED
  BY <1>2, <1>7, <1>8, <1>9 DEF Trunc

LEMMA TruncKeeps == ASSUME BlkInv, NEW p \in Procs, Trunc(p) PROVE BlkInv' /\ Freed(p)
<1>1. Freed(p)
  BY TruncFrees
<1>q. QED
  BY <1>1, FreesKeeps DEF Freed

LEMMA TruncDoneKeeps == ASSUME BlkInv, NEW p \in Procs, TruncDone(p) PROVE BlkInv'
<1>1. proc[p].pc = "trunc" /\ UNCHANGED <<used, data>> /\ Commit(p, group) /\ proc' = [proc EXCEPT ![p] = Idle]
  BY DEF TruncDone, Do, EndOp
<1>2. PICK f \in Files : f = proc[p].file
  BY <1>1, NoFileIs, CallIs
<1>3. /\ Cur(f) = ip[f] /\ f # None /\ \A q \in Procs : proc[q].file = f => q = p
  BY <1>1, <1>2, TruncerIs
<1>4. /\ \A n \in 0..NDIRECT : ip[f].addrs[n] = None
      /\ dinode' = [dinode EXCEPT ![f] = FreeInode] /\ ip' = [ip EXCEPT ![f] = FreeInode]
  BY <1>2 DEF TruncDone
<1>5. proc'[p] = Idle /\ proc' \in [Procs -> ProcT] /\ Alone(p) /\ Idle.file = None /\ Idle.pc = "idle"
  BY <1>1, StepIs, ConstantsAre DEF BlkInv, Idle
<1>6. /\ ip' \in [Files -> InodeT] /\ dinode' \in [Files -> InodeT] /\ dinode'[f] = FreeInode
      /\ \A g \in Files : g # f => ip'[g] = ip[g] /\ dinode'[g] = dinode[g]
  BY <1>4, ConstantsAre DEF BlkInv, BlkTypes
<1>7. Rest(p, f)
  BY <1>1, <1>2, <1>5, <1>6 DEF Rest
<1>8. BlkTypes'
  BY <1>1, <1>5, <1>6, CommitTypes DEF BlkInv, BlkTypes
<1>9. Holders(f)' = {} /\ ~Busy(p)'
  BY <1>3, <1>5 DEF Holders, Alone, Busy
<1>10. Cur(f)' = FreeInode
  BY <1>6, <1>9 DEF Cur
<1>11. \A x \in Places : At(f, x)' = None /\ At(f, x) = None
  <2>1. ASSUME NEW i, NEW d, NEW t, NEW x \in Places, \A n \in 0..NDIRECT : i.addrs[n] = None
        PROVE  Ptr(i, d, t, x) = None
    BY <2>1, Sizing DEF Ptr, Places
  <2>q. QED
    BY <1>3, <1>4, <1>10, <2>1, ConstantsAre DEF At
<1>12. MemSound'
  BY <1>1, <1>7, <1>11, KeepsSound
<1>13. NoHoles(FreeInode, data')
  <2>1. \A bn \in 0..(MAXFILE - 1) : Starts(bn) \in Nat
    BY StartsAt
  <2>q. QED
    BY <2>1, ConstantsAre DEF NoHoles, HasUpTo
<1>14. Ends(p, f)
  BY <1>3, <1>5, <1>6, <1>7, <1>9, <1>10, <1>13 DEF Ends, InCall, Welcomes, Fresh
<1>q. QED
  BY <1>1, <1>8, <1>12, <1>14, EndsKeeps
-----------------------------------------------------------------------------
(* Start and restart *)

Started ==
  /\ DiskInv /\ disk \in DiskT /\ used = disk.used /\ data = disk.data /\ dinode = disk.dinode
  /\ ip = [f \in Files |-> FreeInode] /\ proc = [p \in Procs |-> Idle]
LEMMA StartIs == Started => BlkInv
<1> SUFFICES ASSUME Started PROVE BlkInv
  OBVIOUS
<1>0. /\ DiskInv /\ disk \in DiskT /\ used = disk.used /\ data = disk.data /\ dinode = disk.dinode
      /\ ip = [f \in Files |-> FreeInode] /\ proc = [p \in Procs |-> Idle]
  BY DEF Started
<1>1. /\ \A p \in Procs : proc[p] = Idle /\ proc[p].file = None /\ proc[p].pc = "idle"
      /\ ip \in [Files -> InodeT] /\ proc \in [Procs -> ProcT]
  BY <1>0, ConstantsAre DEF Idle
<1>2. BlkTypes
  BY <1>0, <1>1 DEF BlkTypes, DiskT
<1>3. \A f \in Files : Holders(f) = {} /\ ~InTrunc(f) /\ Cut(f) = {} /\ Cur(f) = dinode[f]
  BY <1>1, BlocksAssumption DEF Holders, InTrunc, Cut, Cur
<1>4. InCalls /\ OneBusy
  BY <1>1 DEF InCalls, InCall, OneBusy, Busy
<1>5. Synced /\ Filled
  BY <1>0, <1>3 DEF Synced, Filled, DiskInv, DiskIs
<1>6. MemSound
  <2>1. ASSUME NEW f \in Files, NEW x \in Places
        PROVE  Map(Curs, data, Cuts)[<<f, x>>] = Map(dinode, data, NoCuts)[<<f, x>>]
    <3>1. Curs[f] = dinode[f] /\ Cuts[f] = {} /\ NoCuts[f] = {}
      BY <1>3 DEF Curs, Cuts, NoCuts
    <3>2. Map(Curs, data, Cuts)[<<f, x>>] = Ptr(Curs[f], data, Cuts[f], x)
      BY MapIs
    <3>3. Map(dinode, data, NoCuts)[<<f, x>>] = Ptr(dinode[f], data, NoCuts[f], x)
      BY MapIs
    <3>q. QED
      BY <3>1, <3>2, <3>3
  <2>2. \A h \in Refs : Map(Curs, data, Cuts)[h] = Map(dinode, data, NoCuts)[h]
    BY <2>1, RefIs
  <2>q. QED
    BY <1>0, <2>2, SameIsSound DEF MemSound, DiskInv, DiskIs
<1>q. QED
  BY <1>0, <1>2, <1>4, <1>5, <1>6 DEF BlkInv

LEMMA CrashKeeps == BlkInv /\ Crash => BlkInv'
<1>1. BlkInv /\ Crash => Started'
  BY DEF Started, Crash, BlkInv, BlkTypes, DiskInv
<1>q. QED
  BY <1>1, StartIs, PTL

LEMMA BlkInvInit == Init => BlkInv
<1> SUFFICES ASSUME Init PROVE BlkInv
  OBVIOUS
<1>1. /\ used = {} /\ data = [b \in Blocks |-> Stale] /\ dinode = [f \in Files |-> FreeInode]
      /\ disk = [used |-> used, data |-> data, dinode |-> dinode]
      /\ ip = [f \in Files |-> FreeInode] /\ proc = [p \in Procs |-> Idle]
  BY DEF Init
<1>2. disk \in DiskT
  BY <1>1, ConstantsAre DEF DiskT
<1>3. \A h \in Refs : Map(dinode, data, NoCuts)[h] = None
  <2>1. \A x \in Places : Ptr(FreeInode, data, {}, x) = None
    BY ConstantsAre, Sizing DEF Ptr, Places
  <2>2. ASSUME NEW f \in Files, NEW x \in Places PROVE Map(dinode, data, NoCuts)[<<f, x>>] = None
    <3>1. dinode[f] = FreeInode /\ NoCuts[f] = {}
      BY <1>1 DEF NoCuts
    <3>2. Map(dinode, data, NoCuts)[<<f, x>>] = Ptr(dinode[f], data, NoCuts[f], x)
      BY MapIs
    <3>q. QED
      BY <2>1, <3>1, <3>2
  <2>q. QED
    BY <2>2, RefIs
<1>4. Sound({}, Map(dinode, data, NoCuts))
  BY <1>3 DEF Sound
<1>5. NoHoles(FreeInode, data)
  <2>1. \A bn \in 0..(MAXFILE - 1) : Starts(bn) \in Nat
    BY StartsAt
  <2>q. QED
    BY <2>1, ConstantsAre DEF NoHoles, HasUpTo
<1>6. DiskInv
  BY <1>1, <1>4, <1>5 DEF DiskInv, DiskIs, Fresh
<1>q. QED
  BY <1>1, <1>2, <1>6, StartIs DEF Started

\* Whatever calls interleave and whenever the power fails, the inductive
\* invariant holds: nothing that balloc, bmap, writei, itrunc or bfree does
\* for one file disturbs the pointers or bytes of another.
THEOREM BlkInvHolds == Spec => []BlkInv
<1>1. ASSUME BlkInv, [Next]_vars PROVE BlkInv'
  <2>1. CASE UNCHANGED vars
    BY <1>1, <2>1, StutterKeeps DEF vars
  <2>2. CASE Next
    BY <1>1, <2>2, NamingKeeps, WriteKeeps, BeginKeeps, AllocKeeps, CopyKeeps, WriteDoneKeeps, ReadKeeps,
       TruncKeeps, TruncDoneKeeps, CrashKeeps DEF Next
  <2>q. QED
    BY <1>1, <2>1, <2>2
<1>q. QED
  BY <1>1, BlkInvInit, PTL DEF Spec

\* The invariant says of the disk what the bitmap says.
LEMMA AccountedIs == DiskInv => BlocksAreAccounted
<1> SUFFICES ASSUME DiskInv, NEW b \in Blocks
             PROVE  Cardinality({h \in Files \X (0..MAXFILE) :
                                   <<h[2], b>> \in Pointers(disk.dinode[h[1]], disk.data)})
                    = IF b \in disk.used THEN 1 ELSE 0
  BY DEF BlocksAreAccounted
<1> DEFINE m == Map(disk.dinode, disk.data, NoCuts)
           P == {h \in Files \X (0..MAXFILE) : <<h[2], b>> \in Pointers(disk.dinode[h[1]], disk.data)}
<1>1. Sound(disk.used, m)
  BY DEF DiskInv, DiskIs
<1>2. \A h \in Refs : h \in P <=> m[h] = b
  <2>1. ASSUME NEW f \in Files, NEW x \in Places
        PROVE  <<x, b>> \in Pointers(disk.dinode[f], disk.data) <=> m[<<f, x>>] = b
    <3> DEFINE i == disk.dinode[f]
    <3>0. NoCuts[f] = {}
      BY DEF NoCuts
    <3>1. m[<<f, x>>] = Ptr(i, disk.data, {}, x)
      <4>1. m[<<f, x>>] = Ptr(i, disk.data, NoCuts[f], x)
        BY DEF Map, Refs
      <4>q. QED
        BY <3>0, <4>1
    <3> HIDE DEF i, m
    <3>2. <<x, b>> \in Pointers(i, disk.data)
            <=> (x \in 0..(MAXFILE - 1) /\ b = Entry(i, disk.data, x)) \/ (x = MAXFILE /\ b = i.addrs[NDIRECT])
      BY DEF Pointers
    <3>3. CASE x = MAXFILE
      <4>1. ~(x < NDIRECT) /\ x \notin 0..(MAXFILE - 1)
        BY <3>3, Sizing
      <4>2. Ptr(i, disk.data, {}, x) = i.addrs[NDIRECT]
        BY <3>3, <4>1 DEF Ptr
      <4>q. QED
        BY <3>1, <3>2, <3>3, <4>1, <4>2 DEF i
    <3>4. CASE x # MAXFILE
      <4>1. x \in 0..(MAXFILE - 1)
        BY <3>4, Sizing DEF Places
      <4>2. Ptr(i, disk.data, {}, x) = Entry(i, disk.data, x)
        BY <4>1, EntryIsPtr
      <4>q. QED
        BY <3>1, <3>2, <3>4, <4>1, <4>2 DEF i
    <3>q. QED
      BY <3>3, <3>4 DEF i
  <2> HIDE DEF m
  <2>q. QED
    BY <2>1, RefIs DEF Refs, Places
<1>3. P \subseteq Refs
  BY DEF Refs, Places
<1> HIDE DEF m, P
<1>4. CASE b \in disk.used
  <2>1. PICK h \in Refs : m[h] = b
    BY <1>1, <1>4 DEF Sound
  <2>2. \A g \in Refs : m[g] = b => g = h
    BY <1>1, <2>1, NoneIsNoBlock DEF Sound
  <2>3. P = {h}
    BY <1>2, <1>3, <2>1, <2>2
  <2>q. QED
    BY <1>4, <2>3, FS_Singleton DEF P
<1>5. CASE b \notin disk.used
  <2>1. \A h \in Refs : m[h] # b
    BY <1>1, <1>5, NoneIsNoBlock DEF Sound
  <2>2. P = {}
    BY <1>2, <1>3, <2>1
  <2>q. QED
    BY <1>5, <2>2, FS_EmptySet DEF P
<1>q. QED
  BY <1>4, <1>5

\* At any moment at which the power may fail, the disk has no block that two
\* places refer to, none that is in a file and free, and none that is lost
\* (BlocksAreAccounted): a call's blocks, pointers and bits in the map
\* commit together.
THEOREM EveryBlockIsAccounted == Spec => []BlocksAreAccounted
<1>1. BlkInv => BlocksAreAccounted
  BY AccountedIs DEF BlkInv
<1>q. QED
  BY <1>1, BlkInvHolds, PTL
-----------------------------------------------------------------------------
(* What a reader of a file finds *)

FileView(i, d) == IF i.type THEN readi(i, d) ELSE Gone
PartView(p, x, i, d) ==
  IF x.pc = "trunc" THEN Gone
  ELSE [k \in 0..(Max({i.size, x.end}) - 1) |-> IF x.at <= k /\ k < x.end THEN p ELSE Byte(i, d, k)]
Sole(p, f) ==
  proc[p].file = f /\ Busy(p) /\ \A q \in Procs : proc[q].file = f /\ Busy(q) => q = p
Viewed ==
  \A f \in Files :
    /\ ~Locked(f) => Contents(f) = FileView(Cur(f), data)
    /\ \A p \in Procs : Sole(p, f) => Contents(f) = PartView(p, proc[p], ip[f], data)

LEMMA ViewIs == Viewed
<1> SUFFICES ASSUME NEW f \in Files
             PROVE  /\ ~Locked(f) => Contents(f) = FileView(Cur(f), data)
                    /\ \A p \in Procs : Sole(p, f) => Contents(f) = PartView(p, proc[p], ip[f], data)
  BY DEF Viewed
<1> DEFINE busy == {p \in Holders(f) : Busy(p)}
<1>1. ASSUME ~Locked(f) PROVE Contents(f) = FileView(Cur(f), data)
  <2>1. busy = {}
    BY <1>1 DEF Locked
  <2>q. QED
    BY <2>1 DEF Contents, FileView, Cur
<1>2. ASSUME NEW p \in Procs, Sole(p, f) PROVE Contents(f) = PartView(p, proc[p], ip[f], data)
  <2>1. busy = {p} /\ Holders(f) # {}
    BY <1>2, HoldersAre DEF Sole
  <2>2. (CHOOSE q \in busy : TRUE) = p /\ busy # {}
    BY <2>1
  <2> HIDE DEF busy
  <2>3. Contents(f) = LET i == IF Holders(f) = {} THEN dinode[f] ELSE ip[f]
                          r == CHOOSE q \in busy : TRUE
                          from == proc[r].at
                          end == proc[r].end
                      IN  IF busy = {} THEN (IF i.type THEN readi(i, data) ELSE Gone)
                          ELSE IF proc[r].pc = "trunc" THEN Gone
                          ELSE [k \in 0..(Max({i.size, end}) - 1) |-> IF from <= k /\ k < end THEN r ELSE Byte(i, data, k)]
    BY DEF Contents, busy
  <2>q. QED
    BY <2>1, <2>2, <2>3 DEF PartView
<1>q. QED
  BY <1>1, <1>2

LEMMA NextViewIs == Viewed'
  BY ViewIs, PTL

LEMMA SoleIs ==
  ASSUME BlkInv, NEW p \in Procs, Busy(p), NEW f \in Files, f = proc[p].file
  PROVE  Sole(p, f) /\ Contents(f) = PartView(p, proc[p], ip[f], data)
<1>1. Sole(p, f)
  BY BusyIs DEF Sole
<1>q. QED
  BY <1>1, ViewIs DEF Viewed

\* The bytes of a file are those of its blocks, wherever else blocks change.
SameBlocks(i, d, j, e) ==
  \A bn \in 0..(MAXFILE - 1) : Entry(i, d, bn) # None =>
    Entry(j, e, bn) = Entry(i, d, bn) /\ e[Entry(i, d, bn)] = d[Entry(i, d, bn)]
LEMMA ByteSame ==
  ASSUME NEW i, NEW d, NEW j, NEW e, NEW z \in Nat, HasUpTo(i, d, z), z <= MAXFILE * BSIZE,
         SameBlocks(i, d, j, e), NEW k \in Nat, k < z
  PROVE  Byte(j, e, k) = Byte(i, d, k)
<1>1. MAXFILE * BSIZE \in Nat
  BY Sizing
<1>2. k < MAXFILE * BSIZE
  BY <1>1
<1> DEFINE bn == k \div BSIZE
<1>3. bn \in 0..(MAXFILE - 1) /\ Starts(bn) <= k /\ Starts(bn) \in Int
  <2>1. bn \in 0..(MAXFILE - 1) /\ Starts(bn) <= k
    BY <1>2, BlockAt
  <2>q. QED
    BY <2>1, StartsAt
<1> HIDE DEF bn
<1>4. Starts(bn) < z
  BY <1>3
<1>5. Entry(i, d, bn) # None
  BY <1>3, <1>4 DEF HasUpTo
<1>6. Entry(j, e, bn) = Entry(i, d, bn) /\ e[Entry(i, d, bn)] = d[Entry(i, d, bn)]
  BY <1>3, <1>5 DEF SameBlocks
<1>q. QED
  BY <1>6 DEF Byte, bn

LEMMA FileViewSame ==
  ASSUME NEW i \in InodeT, NEW d, NEW j, NEW e, NoHoles(i, d), SameBlocks(i, d, j, e),
         j.type = i.type, j.size = i.size
  PROVE  FileView(j, e) = FileView(i, d)
<1>1. i.size \in Nat /\ i.size <= MAXFILE * BSIZE
  BY InodeParts
<1>2. \A k \in 0..(i.size - 1) : Byte(j, e, k) = Byte(i, d, k)
  BY <1>1, ByteSame DEF NoHoles
<1>3. readi(j, e) = readi(i, d)
  BY <1>2 DEF readi
<1>q. QED
  BY <1>3 DEF FileView

\* The part that a writer has not copied yet is not read from blocks.
LEMMA PartViewSame ==
  ASSUME NEW i \in InodeT, NEW d, NEW j, NEW e, NoHoles(i, d), SameBlocks(i, d, j, e),
         NEW x \in ProcT, NEW y, NEW p, y.pc = x.pc, y.at = x.at, y.end = x.end, j.size = i.size,
         x.pc = "write" => HasUpTo(i, d, x.at) /\ x.end <= MAXFILE * BSIZE /\ x.at <= x.end,
         x.pc \in {"write", "trunc"}
  PROVE  PartView(p, y, j, e) = PartView(p, x, i, d)
<1>1. CASE x.pc = "trunc"
  BY <1>1 DEF PartView
<1>2. CASE x.pc = "write"
  <2>1. i.size \in Nat /\ i.size <= MAXFILE * BSIZE /\ x.at \in Nat /\ x.end \in Nat /\ MAXFILE * BSIZE \in Nat
    BY InodeParts, Sizing DEF ProcT
  <2>2. \A k \in Nat : k < i.size => Byte(j, e, k) = Byte(i, d, k)
    BY <2>1, ByteSame DEF NoHoles
  <2>3. x.at <= MAXFILE * BSIZE
    BY <1>2, <2>1
  <2>4. \A k \in Nat : k < x.at => Byte(j, e, k) = Byte(i, d, k)
    BY <1>2, <2>1, <2>3, ByteSame
  <2> DEFINE m == Max({i.size, x.end})
  <2>5. m \in Nat /\ (m = i.size \/ m = x.end)
    BY <2>1, MaxOfTwo
  <2> HIDE DEF m
  <2>6. \A k \in 0..(m - 1) : k \in Nat /\ (k < i.size \/ k < x.at \/ (x.at <= k /\ k < x.end))
    BY <2>1, <2>5
  <2>7. [k \in 0..(m - 1) |-> IF x.at <= k /\ k < x.end THEN p ELSE Byte(j, e, k)]
          = [k \in 0..(m - 1) |-> IF x.at <= k /\ k < x.end THEN p ELSE Byte(i, d, k)]
    BY <2>2, <2>4, <2>6
  <2>q. QED
    BY <1>2, <2>7 DEF PartView, m
<1>q. QED
  BY <1>1, <1>2

Elsewhere(p, f) == Rest(p, f) /\ Within(f)

LEMMA BlocksStay ==
  ASSUME BlkInv, NEW p \in Procs, NEW f \in Files, Elsewhere(p, f), NEW g \in Files, g # f, ~InTrunc(g)
  PROVE  SameBlocks(Cur(g), data, Cur(g)', data')
<1>1. Cut(g) = {}
  BY DEF Cut, InTrunc
<1>2. \A x : Entry(Cur(g)', data', x) = Entry(Cur(g), data, x)
  BY AwayIs DEF Elsewhere
<1>3. ASSUME NEW bn \in 0..(MAXFILE - 1), Entry(Cur(g), data, bn) # None
      PROVE  data'[Entry(Cur(g), data, bn)] = data[Entry(Cur(g), data, bn)]
  <2>1. At(g, bn) = Entry(Cur(g), data, bn) /\ bn \in Places
    BY <1>1, AtIs
  <2>2. At(g, bn) \in used
    BY <1>3, <2>1, SoundIs
  <2>3. \A x \in Places : At(f, x) # At(g, bn)
    BY <1>3, <2>1, OnePlace
  <2>q. QED
    BY <2>1, <2>2, <2>3 DEF Elsewhere, Within
<1>q. QED
  BY <1>2, <1>3 DEF SameBlocks

LEMMA AwayView ==
  ASSUME BlkInv, NEW p \in Procs, NEW f \in Files, Elsewhere(p, f), NEW g \in Files, g # f
  PROVE  Contents(g)' = Contents(g)
<1>1. /\ Cur(g)' = Cur(g) /\ (Locked(g)' <=> Locked(g)) /\ ip'[g] = ip[g]
      /\ \A q \in Procs : q # p => proc'[q] = proc[q]
      /\ proc[p].file # g /\ proc'[p].file # g
  <2>1. Rest(p, f) /\ g # None
    BY BlocksAssumption DEF Elsewhere
  <2>2. Cur(g)' = Cur(g) /\ (Locked(g)' <=> Locked(g))
    BY <2>1, AwayIs
  <2>q. QED
    BY <2>1, <2>2 DEF Rest, Alone
<1>2. Cur(g) \in InodeT
  BY FileParts DEF BlkInv
<1>3. CASE ~Locked(g)
  <2>1. ~InTrunc(g)
    BY <1>3, UnlockedIs
  <2>2. NoHoles(Cur(g), data) /\ SameBlocks(Cur(g), data, Cur(g)', data')
    BY <2>1, BlocksStay DEF BlkInv, Filled
  <2>3. FileView(Cur(g)', data') = FileView(Cur(g), data)
    BY <1>1, <1>2, <2>2, FileViewSame
  <2>q. QED
    BY <1>1, <1>3, <2>3, ViewIs, NextViewIs DEF Viewed
<1>4. CASE Locked(g)
  <2>1. PICK q \in Procs : proc[q].file = g /\ Busy(q)
    BY <1>4, HoldersAre
  <2>2. Sole(q, g) /\ Contents(g) = PartView(q, proc[q], ip[g], data)
    BY <2>1, SoleIs
  <2>3. q # p /\ proc'[q] = proc[q]
    BY <1>1, <2>1
  <2>4. Sole(q, g)'
    BY <1>1, <2>2, <2>3 DEF Sole, Busy
  <2>5. Contents(g)' = PartView(q, proc[q], ip'[g], data')
    BY <2>3, <2>4, NextViewIs DEF Viewed
  <2>6. CASE proc[q].pc = "trunc"
    BY <2>2, <2>5, <2>6 DEF PartView
  <2>7. CASE proc[q].pc = "write"
    <3>1. /\ Cur(g) = ip[g] /\ ~InTrunc(g) /\ NoHoles(ip[g], data) /\ Using(proc[q], ip[g], dinode[g], data)
      BY <2>1, <2>7, WriterIs
    <3>2. SameBlocks(ip[g], data, ip[g], data')
      BY <1>1, <3>1, BlocksStay
    <3>3. /\ HasUpTo(ip[g], data, proc[q].at) /\ proc[q].end <= MAXFILE * BSIZE /\ proc[q].at <= proc[q].end
          /\ proc[q] \in ProcT
      BY <2>7, <3>1 DEF Using, Writing, BlkInv, BlkTypes
    <3>4. PartView(q, proc[q], ip[g], data') = PartView(q, proc[q], ip[g], data)
      BY <1>2, <2>7, <3>1, <3>2, <3>3, PartViewSame
    <3>q. QED
      BY <1>1, <2>2, <2>5, <3>4
  <2>q. QED
    BY <2>1, <2>6, <2>7 DEF Busy
<1>q. QED
  BY <1>3, <1>4

\* A file that is not locked before or after.
LEMMA IdleView ==
  ASSUME BlkInv, NEW f \in Files, ~Locked(f), ~Locked(f)', SameBlocks(Cur(f), data, Cur(f)', data'),
         Cur(f)'.type = Cur(f).type, Cur(f)'.size = Cur(f).size
  PROVE  Contents(f)' = Contents(f)
<1>1. ~InTrunc(f) /\ Cur(f) \in InodeT
  BY UnlockedIs, FileParts DEF BlkInv
<1>2. NoHoles(Cur(f), data)
  BY <1>1 DEF BlkInv, Filled
<1>3. FileView(Cur(f)', data') = FileView(Cur(f), data)
  BY <1>1, <1>2, FileViewSame
<1>q. QED
  BY <1>3, ViewIs, NextViewIs DEF Viewed
-----------------------------------------------------------------------------
(* The steps of FileStore *)

Others(f) == \A g \in Files : g # f => Contents(g)' = Contents(g)
FilesNow == [f \in Files |-> Contents(f)]
DurableNow == [f \in Files |-> FileView(disk.dinode[f], disk.data)]
FilesStep == FilesNow' = FilesNow \/ Store!Change
DurableStep == DurableNow' = DurableNow \/ DurableNow' = FilesNow'

\* What a call may do to its file.
Turns(c, d) ==
  \/ d = c
  \/ c # Gone /\ d # Gone /\ Store!Written(c, d)
  \/ c = Gone /\ d = Store!Empty
  \/ c # Gone /\ d = Gone
LEMMA FilesStepIs ==
  ASSUME NEW f \in Files, Others(f), Turns(Contents(f), Contents(f)')
  PROVE  FilesStep
<1>1. FilesNow' = [FilesNow EXCEPT ![f] = Contents(f)']
  BY DEF FilesNow, Others
<1>2. FilesNow[f] = Contents(f) /\ FilesNow'[f] = Contents(f)'
  BY DEF FilesNow
<1>3. CASE Contents(f)' = Contents(f)
  <2>1. FilesNow' = FilesNow
    BY <1>1, <1>3 DEF FilesNow
  <2>q. QED
    BY <2>1 DEF FilesStep
<1>4. CASE Contents(f) # Gone /\ Contents(f)' # Gone /\ Store!Written(Contents(f), Contents(f)')
  <2>1. Store!Write(f)
    BY <1>1, <1>2, <1>4 DEF Store!Write, Store!Gone, Gone, FilesNow
  <2>q. QED
    BY <2>1 DEF FilesStep, Store!Change
<1>5. CASE Contents(f) = Gone /\ Contents(f)' = Store!Empty
  <2>1. Store!Create(f)
    BY <1>1, <1>2, <1>5 DEF Store!Create, Store!Gone, Gone, FilesNow
  <2>q. QED
    BY <2>1 DEF FilesStep, Store!Change
<1>6. CASE Contents(f) # Gone /\ Contents(f)' = Gone
  <2>1. Store!Remove(f)
    BY <1>1, <1>2, <1>6 DEF Store!Remove, Store!Gone, Gone, FilesNow
  <2>q. QED
    BY <2>1 DEF FilesStep, Store!Change
<1>q. QED
  BY <1>3, <1>4, <1>5, <1>6 DEF Turns

LEMMA DurableStays == ASSUME disk' = disk PROVE DurableStep
  BY DEF DurableStep, DurableNow

\* A commit makes durable what the files are then.
LEMMA CommitView ==
  ASSUME BlkInv', NEW p \in Procs, NEW k, Commit(p, k), Alone(p), ~Busy(p)'
  PROVE  DurableStep
<1>1. CASE UNCHANGED disk
  BY <1>1, DurableStays
<1>2. CASE /\ \A q \in Procs : q # p => ~Busy(q)
           /\ disk' = [used |-> used', data |-> data', dinode |-> dinode']
  <2>1. \A q \in Procs : ~Busy(q)'
    BY <1>2 DEF Alone, Busy
  <2>2. \A f \in Files : ~Locked(f)'
    BY <2>1 DEF Locked, Holders
  <2>3. \A f \in Files : Cur(f)' = dinode'[f]
    BY <2>2 DEF BlkInv, Synced, Cur
  <2>4. \A f \in Files : Contents(f)' = FileView(dinode'[f], data')
    BY <2>2, <2>3, NextViewIs DEF Viewed
  <2>5. disk'.dinode = dinode' /\ disk'.data = data'
    BY <1>2
  <2>6. DurableNow' = FilesNow'
    BY <2>4, <2>5 DEF DurableNow, FilesNow
  <2>q. QED
    BY <2>6 DEF DurableStep
<1>q. QED
  BY <1>1, <1>2 DEF Commit

\* readi of a file that is there is not Gone.
LEMMA NotGone ==
  ASSUME NEW m \in Int, NEW c, DOMAIN c = 0..m
  PROVE  c # Gone
<1> SUFFICES ASSUME c = Gone PROVE FALSE
  OBVIOUS
<1>1. DOMAIN c = {-1}
  BY DEF Gone
<1>2. -1 \in 0..m
  BY <1>1
<1>q. QED
  BY <1>2

LEMMA FileIsThere ==
  ASSUME NEW i \in InodeT, NEW d
  PROVE  FileView(i, d) # Gone <=> i.type
<1>1. i.size - 1 \in Int /\ i.type \in BOOLEAN
  BY InodeParts
<1>2. DOMAIN readi(i, d) = 0..(i.size - 1)
  BY DEF readi
<1>3. readi(i, d) # Gone
  BY <1>1, <1>2, NotGone
<1>q. QED
  BY <1>3 DEF FileView

\* Steps between calls show nothing.
LEMMA QuietStep ==
  ASSUME BlkInv, BlkInv', NEW p \in Procs, Quiet(p)
  PROVE  FilesStep /\ DurableStep
<1>1. /\ Alone(p) /\ proc'[p].file = proc[p].file /\ ~Busy(p) /\ ~Busy(p)'
      /\ UNCHANGED <<used, data, dinode, ip>>
      /\ Commit(p, group + 1) \/ disk' = disk
  BY DEF Quiet
<1>2. ASSUME NEW g \in Files PROVE Contents(g)' = Contents(g)
  <2>1. Cur(g)' = Cur(g) /\ (Locked(g)' <=> Locked(g))
    BY <1>1, StillIs
  <2>2. CASE ~Locked(g)
    BY <1>1, <2>1, <2>2, ViewIs, NextViewIs DEF Viewed
  <2>3. CASE Locked(g)
    <3>1. PICK q \in Procs : proc[q].file = g /\ Busy(q)
      BY <2>3, HoldersAre
    <3>2. Sole(q, g) /\ Contents(g) = PartView(q, proc[q], ip[g], data)
      BY <3>1, SoleIs
    <3>3. q # p /\ proc'[q] = proc[q]
      BY <1>1, <3>1 DEF Alone
    <3>4. Sole(q, g)'
      BY <1>1, <3>2, <3>3 DEF Sole, Busy, Alone
    <3>5. Contents(g)' = PartView(q, proc'[q], ip'[g], data')
      BY <3>4, NextViewIs DEF Viewed
    <3>q. QED
      BY <1>1, <3>2, <3>3, <3>5
  <2>q. QED
    BY <2>2, <2>3
<1>3. FilesNow' = FilesNow
  BY <1>2 DEF FilesNow
<1>q. QED
  BY <1>1, <1>3, CommitView, DurableStays DEF FilesStep

\* begin_op and ilock of a write: all of it is as good as written.
LEMMA StartStep ==
  ASSUME BlkInv, BlkInv', NEW p \in Procs, Starting(p)
  PROVE  FilesStep /\ DurableStep
<1> DEFINE n1 == Min({proc[p].n, Max1})
           off == proc[p].off
           end == off + n1
<1>1. /\ proc[p].pc = "chunk" /\ ~Locked(proc[p].file) /\ end <= MAXFILE * BSIZE
      /\ proc' = [proc EXCEPT ![p].pc = "write", ![p].at = off, ![p].end = end]
      /\ UNCHANGED <<used, data, dinode, ip, disk>>
  BY DEF Starting, Do
<1>2. proc[p].file # None
  BY <1>1, NoFileIs
<1>3. PICK f \in Files : f = proc[p].file
  BY <1>2, CallIs
<1>4. /\ Cur(f) = ip[f] /\ Using(proc[p], ip[f], dinode[f], data) /\ ip[f] \in InodeT /\ ip[f].type
      /\ off <= ip[f].size
  <2>1. Cur(f) = ip[f] /\ Using(proc[p], ip[f], dinode[f], data) /\ ip[f] \in InodeT
    BY <1>2, <1>3, CallIs, FileParts DEF BlkInv
  <2>q. QED
    BY <1>1, <2>1 DEF Using
<1>5. /\ n1 \in Nat /\ n1 <= Max1 /\ off \in Nat /\ end \in Nat /\ ip[f].size \in Nat /\ Max1 \in Nat
  BY <1>4, InodeParts, ProcParts, Max1Is, MinOfTwo DEF BlkInv
<1>6. proc[p] \in ProcT /\ proc \in [Procs -> ProcT]
  BY DEF BlkInv, BlkTypes
<1> HIDE DEF n1
<1>7. Alone(p) /\ proc'[p] = [proc[p] EXCEPT !.pc = "write", !.at = off, !.end = end]
  BY <1>1, <1>6 DEF Alone
<1>8. /\ proc'[p].pc = "write" /\ proc'[p].file = f /\ proc'[p].at = off /\ proc'[p].end = end
  BY <1>3, <1>6, <1>7 DEF ProcT
<1>9. Elsewhere(p, f)
  BY <1>1, <1>3, <1>7, <1>8 DEF Elsewhere, Rest, Within
<1>10. Others(f)
  BY <1>9, AwayView DEF Others
<1> DEFINE old == Contents(f)
           new == Contents(f)'
<1>11. old = [k \in 0..(ip[f].size - 1) |-> Byte(ip[f], data, k)]
  BY <1>1, <1>3, <1>4, ViewIs DEF Viewed, FileView, readi
<1>12. new = [k \in 0..(Max({ip[f].size, end}) - 1) |->
                IF off <= k /\ k < end THEN p ELSE Byte(ip[f], data, k)]
  <2>1. \A q \in Procs : proc'[q].file = f /\ Busy(q)' => q = p
    BY <1>1, <1>3, <1>7, UnlockedIs DEF Alone, Busy
  <2>2. Sole(p, f)'
    BY <1>8, <2>1 DEF Sole, Busy
  <2>3. new = PartView(p, proc'[p], ip'[f], data')
    BY <2>2, NextViewIs DEF Viewed
  <2>q. QED
    BY <1>1, <1>8, <2>3 DEF PartView
<1> DEFINE z == Max({ip[f].size, end})
<1>13. z \in Nat /\ z = IF ip[f].size >= end THEN ip[f].size ELSE end
  BY <1>5, MaxOfTwo
<1>14. new = [k \in 0..(z - 1) |-> IF off <= k /\ k < end THEN p ELSE Byte(ip[f], data, k)]
  BY <1>12
<1> HIDE DEF z, old, new
<1>15. CASE n1 = 0
  <2>1. z = ip[f].size /\ \A k \in Nat : ~(off <= k /\ k < end)
    BY <1>4, <1>5, <1>13, <1>15
  <2>q. QED
    <3>1. new = old
      BY <1>11, <1>14, <2>1
    <3>q. QED
      BY <1>1, <1>10, <3>1, FilesStepIs, DurableStays DEF Turns, old, new
<1>16. CASE n1 # 0
  <2>1. n1 \in 1..Max1 /\ off \in 0..(z - 1) /\ (off = 0 \/ off - 1 \in 0..(ip[f].size - 1))
    BY <1>4, <1>5, <1>13, <1>16
  <2>2. 0..(z - 1) = (0..(ip[f].size - 1)) \cup off..(off + n1 - 1)
    BY <1>4, <1>5, <1>13, <1>16
  <2>3. \A k \in 0..(z - 1) : (off <= k /\ k < end) <=> k \in off..(off + n1 - 1)
    BY <1>5, <1>13
  <2>4. DOMAIN old = 0..(ip[f].size - 1) /\ DOMAIN new = 0..(z - 1)
    BY <1>11, <1>14
  <2>5. \A k \in 0..(z - 1) : k \notin off..(off + n1 - 1) => Byte(ip[f], data, k) = old[k]
    BY <1>11, <2>2
  <2>6. new = [k \in 0..(z - 1) |-> IF k \in off..(off + n1 - 1) THEN p ELSE old[k]]
    BY <1>14, <2>3, <2>5
  <2>7. new = [k \in DOMAIN old \cup off..(off + n1 - 1) |-> IF k \in off..(off + n1 - 1) THEN p ELSE old[k]]
    BY <2>2, <2>4, <2>6
  <2>8. Store!Written(old, new)
    BY <2>1, <2>4, <2>7 DEF Store!Written
  <2>9. old # Gone /\ new # Gone
    <3>1. ip[f].size - 1 \in Int /\ z - 1 \in Int
      BY <1>5, <1>13
    <3>q. QED
      BY <2>4, <3>1, NotGone
  <2>q. QED
    BY <1>1, <1>10, <2>8, <2>9, FilesStepIs, DurableStays DEF Turns, old, new
<1>q. QED
  BY <1>15, <1>16

\* A turn of writei that takes a block.
LEMMA TakesStep ==
  ASSUME BlkInv, BlkInv', NEW p \in Procs, Takes(p)
  PROVE  FilesStep /\ DurableStep
<1>1. PICK f \in Files, b \in Blocks \ used, B \in SUBSET (Blocks \cup {Bitmap}), y \in Places :
        f = proc[p].file /\ proc[p].pc = "write" /\ Taking(p, f, b, B, y)
  BY DEF Takes
<1>2. /\ dinode' = dinode /\ disk' = disk /\ proc' = Logs(p, B)
      /\ \A g \in Files : g # f => ip'[g] = ip[g]
      /\ ip'[f].size = ip[f].size
      /\ \A a \in Blocks : a # b /\ a # ip[f].addrs[NDIRECT] => data'[a] = data[a]
      /\ \A x \in Places : Ptr(ip'[f], data', {}, x) = IF x = y THEN b ELSE Ptr(ip[f], data, {}, x)
      /\ At(f, y) = None
  BY <1>1 DEF Taking
<1>3. /\ Cur(f) = ip[f] /\ Cut(f) = {} /\ Using(proc[p], ip[f], dinode[f], data) /\ NoHoles(ip[f], data)
      /\ ip[f] \in InodeT /\ f # None
  BY <1>1, WriterIs
<1>4. /\ Alone(p) /\ proc'[p].pc = "write" /\ proc'[p].file = f
      /\ proc'[p].at = proc[p].at /\ proc'[p].end = proc[p].end
  BY <1>1, <1>2, LoggedIs
<1>5. At(f, MAXFILE) = ip[f].addrs[NDIRECT] /\ MAXFILE \in Places
  BY <1>3, SoundIs
<1>6. Within(f)
  <2>1. \A a \in used : a \in Blocks /\ a # b
    BY DEF BlkInv, BlkTypes
  <2>q. QED
    BY <1>2, <1>5, <2>1 DEF Within
<1>7. Elsewhere(p, f)
  <2>1. ASSUME NEW g \in Files, g # f, Cur(g).addrs[NDIRECT] # None
        PROVE  data'[Cur(g).addrs[NDIRECT]] = data[Cur(g).addrs[NDIRECT]]
    <3>1. At(g, MAXFILE) = Cur(g).addrs[NDIRECT]
      BY SoundIs
    <3>2. Cur(g).addrs[NDIRECT] \in used /\ Cur(g).addrs[NDIRECT] # ip[f].addrs[NDIRECT]
      BY <1>5, <2>1, <3>1, SoundIs
    <3>q. QED
      BY <1>2, <3>2 DEF BlkInv, BlkTypes
  <2>2. Rest(p, f)
    BY <1>1, <1>2, <1>4, <2>1 DEF Rest
  <2>q. QED
    BY <1>6, <2>2 DEF Elsewhere
<1>8. SameBlocks(ip[f], data, ip'[f], data')
  <2>1. ASSUME NEW bn \in 0..(MAXFILE - 1), Entry(ip[f], data, bn) # None
        PROVE  /\ Entry(ip'[f], data', bn) = Entry(ip[f], data, bn)
               /\ data'[Entry(ip[f], data, bn)] = data[Entry(ip[f], data, bn)]
    <3>1. /\ At(f, bn) = Entry(ip[f], data, bn) /\ bn \in Places /\ bn # MAXFILE
          /\ Entry(ip[f], data, bn) = Ptr(ip[f], data, {}, bn)
          /\ Entry(ip'[f], data', bn) = Ptr(ip'[f], data', {}, bn)
      BY <1>3, AtIs, EntryIsPtr, Sizing
    <3>2. bn # y
      BY <1>2, <2>1, <3>1
    <3>3. At(f, bn) \in used /\ At(f, bn) # ip[f].addrs[NDIRECT]
      BY <1>5, <2>1, <3>1, SoundIs
    <3>q. QED
      BY <1>2, <3>1, <3>2, <3>3 DEF BlkInv, BlkTypes
  <2>q. QED
    BY <2>1 DEF SameBlocks
<1>9. Contents(f) = PartView(p, proc[p], ip[f], data) /\ Sole(p, f)
  BY <1>1, SoleIs DEF Busy
<1>10. Contents(f)' = PartView(p, proc'[p], ip'[f], data')
  <2>1. Sole(p, f)'
    BY <1>4, <1>9 DEF Sole, Busy, Alone
  <2>q. QED
    BY <2>1, NextViewIs DEF Viewed
<1>11. /\ HasUpTo(ip[f], data, proc[p].at) /\ proc[p].end <= MAXFILE * BSIZE /\ proc[p].at <= proc[p].end
       /\ proc[p] \in ProcT
  BY <1>1, <1>3 DEF Using, Writing, BlkInv, BlkTypes
<1>12. PartView(p, proc'[p], ip'[f], data') = PartView(p, proc[p], ip[f], data)
  BY <1>1, <1>2, <1>3, <1>4, <1>8, <1>11, PartViewSame
<1>13. Others(f)
  BY <1>7, AwayView DEF Others
<1>q. QED
  BY <1>2, <1>9, <1>10, <1>12, <1>13, FilesStepIs, DurableStays DEF Turns
\* A turn of writei that copies bytes.
LEMMA CopyStep ==
  ASSUME BlkInv, BlkInv', NEW p \in Procs, NEW f \in Files, NEW bn \in 0..(MAXFILE - 1), NEW stop \in Nat,
         Copying(p, f, bn, stop)
  PROVE  FilesStep /\ DurableStep
<1> DEFINE b == Entry(ip[f], data, bn)
           at == proc[p].at
           end == proc[p].end
<1>1. /\ f = proc[p].file /\ proc[p].pc = "write" /\ UNCHANGED <<used, dinode, disk, ip>>
      /\ Starts(bn) <= at /\ at < stop /\ stop <= end /\ stop <= Starts(bn + 1)
      /\ b \in Blocks /\ data' = [data EXCEPT ![b] = Copied(p, data[b], bn, stop)]
      /\ Alone(p) /\ proc'[p].pc = "write" /\ proc'[p].file = f /\ proc'[p].at = stop /\ proc'[p].end = end
  BY DEF Copying
<1>2. /\ Rest(p, f) /\ Within(f)
      /\ \A x : Entry(ip'[f], data', x) = Entry(ip[f], data, x)
  BY CopyingIs
<1>3. Others(f)
  BY <1>2, AwayView DEF Others, Elsewhere
<1>4. /\ Cur(f) = ip[f] /\ Cut(f) = {} /\ Using(proc[p], ip[f], dinode[f], data) /\ NoHoles(ip[f], data)
      /\ ip[f] \in InodeT /\ ip[f].size \in Nat /\ at \in Nat /\ end \in Nat
  BY <1>1, WriterIs
<1>5. /\ HasUpTo(ip[f], data, at) /\ end <= MAXFILE * BSIZE /\ MAXFILE * BSIZE \in Nat
      /\ ip[f].size <= MAXFILE * BSIZE
  BY <1>1, <1>4, Sizing, InodeParts DEF Using, Writing
<1>6. Starts(bn) \in Nat /\ Starts(bn + 1) = Starts(bn) + BSIZE /\ BSIZE \in Nat /\ bn \in Int /\ MAXFILE \in Nat
  BY StartsAt, Sizing
<1>7. data[b] \in BlockT /\ DOMAIN data[b] = 0..(BSIZE - 1) /\ b # None /\ data \in [Blocks -> BlockT]
  BY <1>1, NoneIsNoBlock DEF BlkInv, BlkTypes, BlockT
<1>8. ASSUME NEW k \in Nat, k < MAXFILE * BSIZE, Entry(ip[f], data, k \div BSIZE) # None
      PROVE  Byte(ip'[f], data', k) = IF at <= k /\ k < stop THEN p ELSE Byte(ip[f], data, k)
  <2> DEFINE c == k \div BSIZE
             j == k % BSIZE
             e == Entry(ip[f], data, c)
  <2>1. /\ c \in 0..(MAXFILE - 1) /\ j \in 0..(BSIZE - 1) /\ k = Starts(c) + j
        /\ Starts(c) <= k /\ k < Starts(c) + BSIZE /\ c \in Nat
    BY <1>8, BlockAt
  <2>2. Byte(ip'[f], data', k) = data'[e][j] /\ Byte(ip[f], data, k) = data[e][j]
    BY <1>2 DEF Byte
  <2>3. e \in Blocks
    <3>1. At(f, c) = e /\ c \in Places
      BY <1>4, <2>1, AtIs
    <3>q. QED
      BY <1>8, <3>1, SoundIs DEF BlkInv, BlkTypes
  <2>4. e # None
    BY <1>8
  <2> HIDE DEF c, j, e
  <2>5. CASE c = bn
    <3>1. e = b
      BY <2>5 DEF e
    <3>2. data'[e] = Copied(p, data[b], bn, stop)
      BY <1>1, <1>7, <3>1
    <3>3. data'[e][j] = IF Starts(bn) + j \in at..(stop - 1) THEN p ELSE data[b][j]
      BY <1>7, <2>1, <3>2 DEF Copied
    <3>4. Starts(bn) + j = k /\ (k \in at..(stop - 1) <=> at <= k /\ k < stop)
      BY <1>4, <2>1, <2>5
    <3>q. QED
      BY <2>2, <3>1, <3>3, <3>4
  <2>6. CASE c # bn
    <3>1. e # b
      <4>1. At(f, c) = e /\ At(f, bn) = b /\ c \in Places /\ bn \in Places
        BY <1>4, <2>1, AtIs DEF e
      <4>q. QED
        BY <2>4, <2>6, <4>1, OnePlace
    <3>2. data'[e] = data[e]
      BY <1>1, <1>7, <2>3, <3>1
    <3>3. ~(at <= k /\ k < stop)
      <4>1. c < bn \/ bn < c
        BY <1>6, <2>1, <2>6
      <4>2. CASE c < bn
        <5>1. Starts(c + 1) = Starts(c) + BSIZE /\ c + 1 <= bn /\ c + 1 \in Int
          BY <1>6, <2>1, <4>2, StartsAt
        <5>2. Starts(c + 1) <= Starts(bn)
          BY <1>6, <5>1, StartsAt
        <5>3. Starts(c) \in Nat
          BY <2>1, StartsAt
        <5>q. QED
          BY <1>1, <1>4, <1>6, <2>1, <5>1, <5>2, <5>3
      <4>3. CASE bn < c
        <5>1. bn + 1 <= c /\ bn + 1 \in Int
          BY <1>6, <2>1, <4>3
        <5>2. Starts(bn + 1) <= Starts(c) /\ Starts(c) \in Nat
          BY <1>6, <2>1, <5>1, StartsAt
        <5>q. QED
          BY <1>1, <1>4, <1>6, <2>1, <5>2
      <4>q. QED
        BY <4>1, <4>2, <4>3
    <3>q. QED
      BY <2>2, <3>2, <3>3
  <2>q. QED
    BY <2>5, <2>6
<1>9. Contents(f) = PartView(p, proc[p], ip[f], data) /\ Sole(p, f)
  BY <1>1, SoleIs DEF Busy
<1>10. Contents(f)' = PartView(p, proc'[p], ip'[f], data')
  <2>1. Sole(p, f)'
    BY <1>1, <1>9 DEF Sole, Busy, Alone
  <2>q. QED
    BY <2>1, NextViewIs DEF Viewed
<1> DEFINE z == Max({ip[f].size, end})
<1>11. z \in Nat /\ (z = ip[f].size \/ z = end)
  <2>1. z = IF ip[f].size >= end THEN ip[f].size ELSE end
    BY <1>4, MaxOfTwo
  <2>q. QED
    BY <1>4, <2>1
<1>12. /\ Contents(f) = [k \in 0..(z - 1) |-> IF at <= k /\ k < end THEN p ELSE Byte(ip[f], data, k)]
       /\ Contents(f)' = [k \in 0..(z - 1) |-> IF stop <= k /\ k < end THEN p ELSE Byte(ip'[f], data', k)]
  BY <1>1, <1>9, <1>10 DEF PartView
<1> HIDE DEF z
<1>13. ASSUME NEW k \in 0..(z - 1)
       PROVE  (IF stop <= k /\ k < end THEN p ELSE Byte(ip'[f], data', k))
                = (IF at <= k /\ k < end THEN p ELSE Byte(ip[f], data, k))
  <2>1. k \in Nat /\ k < MAXFILE * BSIZE /\ (k < ip[f].size \/ k < end)
    BY <1>4, <1>5, <1>11
  <2>2. CASE stop <= k /\ k < end
    BY <1>1, <1>4, <2>1, <2>2
  <2>3. CASE ~(stop <= k /\ k < end)
    <3>1. Entry(ip[f], data, k \div BSIZE) # None
      <4>1. /\ k \div BSIZE \in 0..(MAXFILE - 1) /\ k \div BSIZE \in Nat
            /\ Starts(k \div BSIZE) <= k /\ k < Starts(k \div BSIZE) + BSIZE
        BY <2>1, BlockAt
      <4>2. Starts(k \div BSIZE) \in Nat
        BY <4>1, StartsAt
      <4>3. CASE k < ip[f].size
        <5>1. Starts(k \div BSIZE) < ip[f].size
          BY <1>4, <2>1, <4>1, <4>2, <4>3
        <5>q. QED
          BY <1>4, <4>1, <5>1 DEF NoHoles, HasUpTo
      <4>4. CASE k < at
        <5>1. Starts(k \div BSIZE) < at
          BY <1>4, <2>1, <4>1, <4>2, <4>4
        <5>q. QED
          BY <1>5, <4>1, <5>1 DEF HasUpTo
      <4>5. CASE at <= k /\ k < stop
        <5>1. k \div BSIZE = bn
          <6>1. k - Starts(bn) \in 0..(BSIZE - 1) /\ k = Starts(bn) + (k - Starts(bn)) /\ bn \in Nat
            BY <1>1, <1>4, <1>6, <2>1, <4>5
          <6>q. QED
            BY <6>1, BlockIs
        <5>q. QED
          BY <1>7, <5>1
      <4>q. QED
        BY <1>1, <1>4, <2>1, <2>3, <4>3, <4>4, <4>5
    <3>2. Byte(ip'[f], data', k) = IF at <= k /\ k < stop THEN p ELSE Byte(ip[f], data, k)
      BY <1>8, <2>1, <3>1
    <3>q. QED
      BY <1>1, <1>4, <2>1, <2>3, <3>2
  <2>q. QED
    BY <2>2, <2>3
<1>14. Contents(f)' = Contents(f)
  BY <1>12, <1>13
<1>q. QED
  BY <1>1, <1>3, <1>14, FilesStepIs, DurableStays DEF Turns

\* The end of writei: its bytes are those of the blocks.
LEMMA FinishStep ==
  ASSUME BlkInv, BlkInv', NEW p \in Procs, NEW f \in Files, Finishing(p, f)
  PROVE  FilesStep /\ DurableStep
<1>1. /\ f = proc[p].file /\ proc[p].pc = "write" /\ proc[p].at = proc[p].end /\ Rest(p, f) /\ Alone(p)
      /\ UNCHANGED <<used, data>> /\ Commit(p, group)
      /\ ~Busy(p)' /\ proc'[p].file = f
      /\ ip'[f].addrs = ip[f].addrs /\ ip'[f].type
      /\ ip'[f].size = IF proc[p].end > ip[f].size THEN proc[p].end ELSE ip[f].size
  BY DEF Finishing, Rest, Busy
<1>2. /\ ip[f].size \in Nat /\ proc[p].end \in Nat
      /\ \A q \in Procs : proc[q].file = f /\ q # p => ~Busy(q)
  BY <1>1, WriterIs
<1>3. ~Locked(f)' /\ Cur(f)' = ip'[f]
  <2>1. ~Locked(f)'
    BY <1>1, <1>2, LeftIs
  <2>2. p \in Holders(f)'
    BY <1>1 DEF Holders
  <2>q. QED
    BY <2>1, <2>2 DEF Cur
<1>4. Contents(f)' = [k \in 0..(ip'[f].size - 1) |-> Byte(ip'[f], data', k)]
  <2>1. Contents(f)' = FileView(ip'[f], data')
    BY <1>3, NextViewIs DEF Viewed
  <2>q. QED
    BY <1>1, <2>1 DEF FileView, readi
<1>5. Contents(f) = PartView(p, proc[p], ip[f], data)
  BY <1>1, SoleIs DEF Busy
<1> DEFINE z == Max({ip[f].size, proc[p].end})
<1>6. z = ip'[f].size
  BY <1>1, <1>2, MaxOfTwo
<1>7. Contents(f) = [k \in 0..(z - 1) |-> IF proc[p].at <= k /\ k < proc[p].end THEN p ELSE Byte(ip[f], data, k)]
  BY <1>1, <1>5 DEF PartView
<1> HIDE DEF z
<1>8. \A k \in 0..(z - 1) : ~(proc[p].at <= k /\ k < proc[p].end) /\ Byte(ip'[f], data', k) = Byte(ip[f], data, k)
  <2>1. \A k : Entry(ip'[f], data', k) = Entry(ip[f], data, k) /\ data' = data
    BY <1>1 DEF Entry
  <2>2. \A k \in Int : ~(proc[p].at <= k /\ k < proc[p].end)
    BY <1>1, <1>2
  <2>q. QED
    BY <2>1, <2>2 DEF Byte
<1>9. Contents(f)' = Contents(f)
  BY <1>4, <1>6, <1>7, <1>8
<1>10. Others(f)
  <2>1. Elsewhere(p, f)
    BY <1>1 DEF Elsewhere, Within
  <2>q. QED
    BY <2>1, AwayView DEF Others
<1>11. DurableStep
  BY <1>1, CommitView
<1>q. QED
  BY <1>9, <1>10, <1>11, FilesStepIs DEF Turns

\* open, close and unlink of a file that stays.
LEMMA SettleStep ==
  ASSUME BlkInv, BlkInv', NEW p \in Procs, NEW f \in Files, Settles(p, f), Commit(p, group + 1)
  PROVE  FilesStep /\ DurableStep
<1>1. /\ Rest(p, f) /\ ~Locked(f) /\ ~Busy(p)' /\ ip'[f] = dinode'[f] /\ dinode'[f].type
      /\ dinode'[f].addrs = dinode[f].addrs /\ dinode'[f].size = dinode[f].size
      /\ UNCHANGED <<used, data>> /\ Alone(p)
  BY DEF Settles, Rest
<1>2. Others(f)
  <2>1. Elsewhere(p, f)
    BY <1>1 DEF Elsewhere, Within
  <2>q. QED
    BY <2>1, AwayView DEF Others
<1>3. DurableStep
  BY <1>1, CommitView
<1>4. ~Locked(f)' /\ Cur(f) = dinode[f] /\ Cur(f)' = dinode'[f]
  <2>1. ~Locked(f)'
    <3>1. \A q \in Procs : q # p /\ proc[q].file = f => ~Busy(q)
      BY <1>1, UnlockedIs
    <3>q. QED
      BY <1>1, <3>1, LeftIs
  <2>2. Cur(f) = dinode[f]
    BY <1>1, UnlockedCur
  <2>3. Cur(f)' = dinode'[f]
    BY <1>1 DEF Cur
  <2>q. QED
    BY <2>1, <2>2, <2>3
<1>5. CASE dinode[f].type
  <2>1. SameBlocks(Cur(f), data, Cur(f)', data')
    <3>1. \A x : Entry(Cur(f)', data', x) = Entry(Cur(f), data, x)
      BY <1>1, <1>4 DEF Entry
    <3>q. QED
      BY <1>1, <3>1 DEF SameBlocks
  <2>2. Cur(f)'.type = Cur(f).type /\ Cur(f)'.size = Cur(f).size
    <3>1. dinode[f].type \in BOOLEAN /\ dinode'[f].type \in BOOLEAN
      BY InodeParts, FileParts DEF BlkInv, BlkTypes
    <3>q. QED
      BY <1>1, <1>4, <1>5, <3>1
  <2>3. Contents(f)' = Contents(f)
    BY <1>1, <1>4, <2>1, <2>2, IdleView
  <2>q. QED
    BY <1>2, <1>3, <2>3, FilesStepIs DEF Turns
<1>6. CASE ~dinode[f].type
  <2>1. Contents(f) = Gone
    BY <1>1, <1>4, <1>6, ViewIs DEF Viewed, FileView
  <2>2. dinode[f].size = 0
    BY <1>6, ConstantsAre DEF BlkInv, Filled, Fresh
  <2>3. Contents(f)' = readi(dinode'[f], data')
    BY <1>1, <1>4, NextViewIs DEF Viewed, FileView
  <2>4. Contents(f)' = Store!Empty
    <3>1. 0..(dinode'[f].size - 1) = {}
      BY <1>1, <2>2
    <3>q. QED
      BY <2>3, <3>1 DEF readi, Store!Empty
  <2>q. QED
    BY <1>2, <1>3, <2>1, <2>4, FilesStepIs DEF Turns
<1>q. QED
  BY <1>5, <1>6

\* The last reference goes: the file is as good as removed.
LEMMA EnterStep ==
  ASSUME BlkInv, BlkInv', NEW p \in Procs, NEW f \in Files, Enters(p, f)
  PROVE  FilesStep /\ DurableStep
<1>1. /\ Rest(p, f) /\ ~Locked(f) /\ Holders(f) \subseteq {p} /\ Alone(p)
      /\ proc'[p].pc = "trunc" /\ proc'[p].file = f /\ dinode[f].type
      /\ UNCHANGED <<used, data, disk>>
  BY DEF Enters, Rest
<1>2. Others(f)
  <2>1. Elsewhere(p, f)
    BY <1>1 DEF Elsewhere, Within
  <2>q. QED
    BY <2>1, AwayView DEF Others
<1>3. Contents(f) # Gone
  <2>1. Contents(f) = FileView(dinode[f], data)
    BY <1>1, UnlockedCur, ViewIs DEF Viewed
  <2>2. dinode[f] \in InodeT
    BY FileParts DEF BlkInv
  <2>q. QED
    BY <1>1, <2>1, <2>2, FileIsThere
<1>4. Contents(f)' = Gone
  <2>1. \A q \in Procs : proc'[q].file = f => q = p
    BY <1>1, HoldersAre DEF Alone
  <2>2. Sole(p, f)'
    BY <1>1, <2>1 DEF Sole, Busy
  <2>3. Contents(f)' = PartView(p, proc'[p], ip'[f], data')
    BY <2>2, NextViewIs DEF Viewed
  <2>q. QED
    BY <1>1, <2>3 DEF PartView
<1>q. QED
  BY <1>1, <1>2, <1>3, <1>4, FilesStepIs, DurableStays DEF Turns

\* itrunc frees a block of a file that is gone.
LEMMA FreeStep ==
  ASSUME BlkInv, BlkInv', NEW p \in Procs, Freed(p)
  PROVE  FilesStep /\ DurableStep
<1>1. PICK f \in Files, b \in Blocks, y \in Places, next \in Nat :
        f = proc[p].file /\ proc[p].pc = "trunc" /\ Frees(p, f, b, y, next)
  BY DEF Freed
<1>2. /\ At(f, y) = b /\ b # None /\ bfree(p, b, next) /\ dinode' = dinode /\ disk' = disk
      /\ \A g \in Files : g # f => ip'[g] = ip[g]
  BY <1>1 DEF Frees
<1>3. b \in used
  BY <1>2, SoundIs
<1>4. data' = [data EXCEPT ![b] = Stale] /\ proc' = [Logs(p, {Bitmap}) EXCEPT ![p].at = next]
  BY <1>2, <1>3 DEF bfree
<1>5. Alone(p) /\ proc'[p].pc = "trunc" /\ proc'[p].file = f
  <2>1. proc[p] \in ProcT /\ proc \in [Procs -> ProcT]
    BY DEF BlkInv, BlkTypes
  <2>2. \A q \in Procs : q # p => proc'[q] = proc[q]
    BY <1>4, <2>1 DEF Logs
  <2>3. proc'[p] = [[proc[p] EXCEPT !.logged = @ \cup {Bitmap}] EXCEPT !.at = next]
    BY <1>4, <2>1 DEF Logs
  <2>4. proc'[p].pc = proc[p].pc /\ proc'[p].file = proc[p].file
    BY <2>1, <2>3 DEF ProcT
  <2>q. QED
    BY <1>1, <2>2, <2>4 DEF Alone
<1>6. \A a \in Blocks : a # b => data'[a] = data[a]
  BY <1>4 DEF BlkInv, BlkTypes
<1>7. Elsewhere(p, f)
  <2>1. Within(f)
    BY <1>2, <1>6 DEF Within, BlkInv, BlkTypes
  <2>2. ASSUME NEW g \in Files, g # f, Cur(g).addrs[NDIRECT] # None
        PROVE  data'[Cur(g).addrs[NDIRECT]] = data[Cur(g).addrs[NDIRECT]]
    <3>1. At(g, MAXFILE) = Cur(g).addrs[NDIRECT] /\ MAXFILE \in Places
      BY SoundIs
    <3>2. Cur(g).addrs[NDIRECT] \in used /\ Cur(g).addrs[NDIRECT] # b
      BY <1>2, <2>2, <3>1, SoundIs
    <3>q. QED
      BY <1>6, <3>2 DEF BlkInv, BlkTypes
  <2>3. Rest(p, f)
    BY <1>1, <1>2, <1>5, <2>2 DEF Rest
  <2>q. QED
    BY <2>1, <2>3 DEF Elsewhere
<1>8. Others(f)
  BY <1>7, AwayView DEF Others
<1>9. Sole(p, f) /\ Contents(f) = PartView(p, proc[p], ip[f], data)
  BY <1>1, SoleIs DEF Busy
<1>10. Sole(p, f)'
  BY <1>5, <1>9 DEF Sole, Busy, Alone
<1>11. Contents(f)' = PartView(p, proc'[p], ip'[f], data')
  BY <1>10, NextViewIs DEF Viewed
<1>12. Contents(f) = Gone /\ Contents(f)' = Gone
  BY <1>1, <1>5, <1>9, <1>11 DEF PartView
<1>q. QED
  BY <1>2, <1>8, <1>12, FilesStepIs, DurableStays DEF Turns

\* The end of itrunc: the i-node is free.
LEMMA TruncDoneStep ==
  ASSUME BlkInv, BlkInv', NEW p \in Procs, TruncDone(p)
  PROVE  FilesStep /\ DurableStep
<1>1. proc[p].pc = "trunc" /\ proc[p].file # None
  BY NoFileIs DEF TruncDone, Do
<1>2. PICK f \in Files : f = proc[p].file
  BY <1>1, CallIs
<1>3. /\ dinode' = [dinode EXCEPT ![f] = FreeInode] /\ ip' = [ip EXCEPT ![f] = FreeInode]
      /\ proc' = [proc EXCEPT ![p] = Idle]
      /\ UNCHANGED <<used, data>> /\ Commit(p, group)
  BY <1>2 DEF TruncDone, EndOp
<1>4. Alone(p) /\ proc'[p] = Idle
  BY <1>3, StepIs DEF BlkInv
<1>5. proc'[p].file = None /\ ~Busy(p)'
  BY <1>4 DEF Busy, Idle
<1>6. /\ \A g \in Files : g # f => ip'[g] = ip[g] /\ dinode'[g] = dinode[g]
      /\ ip'[f] = FreeInode /\ dinode'[f] = FreeInode
  BY <1>3 DEF BlkInv, BlkTypes
<1>7. Elsewhere(p, f)
  BY <1>2, <1>3, <1>4, <1>5, <1>6 DEF Elsewhere, Within, Rest
<1>8. Others(f)
  BY <1>7, AwayView DEF Others
<1>9. Contents(f) = Gone
  <2>1. Contents(f) = PartView(p, proc[p], ip[f], data)
    BY <1>1, <1>2, SoleIs DEF Busy
  <2>q. QED
    BY <1>1, <2>1 DEF PartView
<1>10. Contents(f)' = Gone
  <2>1. \A q \in Procs : proc[q].file = f => q = p
    BY <1>1, <1>2, TruncerIs
  <2>2. ~Locked(f)'
    BY <1>4, <1>5, <2>1, LeftIs
  <2>3. Cur(f)' = FreeInode
    BY <1>6 DEF Cur
  <2>4. Contents(f)' = FileView(FreeInode, data')
    BY <2>2, <2>3, NextViewIs DEF Viewed
  <2>q. QED
    BY <2>4, ConstantsAre DEF FileView
<1>11. DurableStep
  BY <1>3, <1>4, <1>5, CommitView
<1>q. QED
  BY <1>8, <1>9, <1>10, <1>11, FilesStepIs DEF Turns

LEMMA CrashStep ==
  ASSUME BlkInv, BlkInv', Crash
  PROVE  FilesNow' = DurableNow /\ DurableNow' = DurableNow
<1>1. /\ data' = disk.data /\ dinode' = disk.dinode /\ disk' = disk
      /\ proc' = [p \in Procs |-> Idle]
  BY DEF Crash
<1>2. ASSUME NEW f \in Files PROVE Contents(f)' = FileView(disk.dinode[f], disk.data)
  <2>1. \A p \in Procs : proc'[p].file = None /\ ~Busy(p)'
    BY <1>1 DEF Idle, Busy
  <2>2. f # None
    BY BlocksAssumption
  <2>3. Holders(f)' = {} /\ ~Locked(f)'
    BY <2>1, <2>2 DEF Holders, Locked
  <2>4. Cur(f)' = dinode'[f]
    BY <2>3 DEF Cur
  <2>q. QED
    BY <1>1, <2>3, <2>4, NextViewIs DEF Viewed
<1>q. QED
  BY <1>1, <1>2 DEF FilesNow, DurableNow

\* Nothing of the files or the disk changes.
LEMMA StillShows == ASSUME UNCHANGED <<used, data, dinode, disk, ip, proc>> PROVE FilesStep /\ DurableStep
<1>1. ASSUME NEW f \in Files PROVE Contents(f)' = Contents(f)
  BY DEF Contents, Holders, Busy, Byte, Entry, readi
<1>2. FilesNow' = FilesNow
  BY <1>1 DEF FilesNow
<1>q. QED
  BY <1>2, DurableStays DEF FilesStep

(***************************************************************************)
(* The refinement.                                                         *)
(***************************************************************************)
Shows == (FilesStep /\ DurableStep) \/ (FilesNow' = DurableNow /\ DurableNow' = DurableNow)
LEMMA CallShows ==
  ASSUME BlkInv, NEW p \in Procs,
         \/ Open(p) \/ Write(p) \/ Begin(p) \/ Alloc(p) \/ Copy(p) \/ WriteDone(p)
         \/ Read(p) \/ Unlink(p) \/ Close(p) \/ Trunc(p) \/ TruncDone(p)
  PROVE  Shows
<1>1. CASE Open(p) \/ Unlink(p) \/ Close(p)
  BY <1>1, NamingKeeps, SettleStep, EnterStep DEF Settling, Entering, Shows
<1>2. CASE Write(p)
  BY <1>2, WriteKeeps, QuietStep DEF Shows
<1>3. CASE Read(p)
  BY <1>3, ReadKeeps, QuietStep DEF Shows
<1>4. CASE Begin(p)
  BY <1>4, BeginKeeps, StartStep, QuietStep DEF Shows
<1>5. CASE Alloc(p)
  <2>1. CASE UNCHANGED <<used, data, dinode, disk, ip, proc>>
    BY <2>1, StillShows DEF Shows
  <2>q. QED
    BY <1>5, <2>1, AllocKeeps, TakesStep DEF Shows
<1>6. CASE Copy(p)
  BY <1>6, CopyIs, CopyKeeps, CopyStep DEF Shows
<1>7. CASE WriteDone(p)
  BY <1>7, WriteDoneIs, WriteDoneKeeps, FinishStep DEF Shows
<1>8. CASE Trunc(p)
  BY <1>8, TruncKeeps, FreeStep DEF Shows
<1>9. CASE TruncDone(p)
  BY <1>9, TruncDoneKeeps, TruncDoneStep DEF Shows
<1>q. QED
  BY <1>1, <1>2, <1>3, <1>4, <1>5, <1>6, <1>7, <1>8, <1>9

LEMMA StepShows == BlkInv /\ [Next]_vars => Shows
<1> SUFFICES ASSUME BlkInv, [Next]_vars PROVE Shows
  OBVIOUS
<1>1. ASSUME NEW p \in Procs,
             \/ Open(p) \/ Write(p) \/ Begin(p) \/ Alloc(p) \/ Copy(p) \/ WriteDone(p)
             \/ Read(p) \/ Unlink(p) \/ Close(p) \/ Trunc(p) \/ TruncDone(p)
      PROVE  Shows
  BY <1>1, CallShows
<1>2. CASE Crash
  BY <1>2, CrashKeeps, CrashStep DEF Shows
<1>3. CASE UNCHANGED vars
  BY <1>3, StillShows DEF vars, Shows
<1>q. QED
  BY <1>1, <1>2, <1>3 DEF Next

\* Blocks implement files: every behaviour of balloc, bfree, bmap, itrunc,
\* readi and writei, for any number of processes, files and blocks, with
\* crashes, is one of FileStore (ImplementsFileStore), where a write happens
\* at once and a crash goes back to one earlier moment of all files.
THEOREM BlocksImplementFiles == Spec => ImplementsFileStore
<1>1. Init => Store!Init
  <2> SUFFICES ASSUME Init PROVE Store!Init
    OBVIOUS
  <2>1. /\ dinode = [f \in Files |-> FreeInode] /\ disk.dinode = dinode /\ disk.data = data
        /\ proc = [p \in Procs |-> Idle]
    BY DEF Init
  <2>2. ASSUME NEW f \in Files PROVE Contents(f) = Gone
    <3>1. f # None /\ \A p \in Procs : proc[p].file = None
      BY <2>1, BlocksAssumption DEF Idle
    <3>2. Holders(f) = {} /\ ~Locked(f)
      BY <3>1 DEF Holders, Locked
    <3>3. Contents(f) = FileView(dinode[f], data)
      BY <3>2, ViewIs DEF Viewed, Cur
    <3>q. QED
      BY <2>1, <3>3, ConstantsAre DEF FileView
  <2>3. ASSUME NEW f \in Files PROVE ~disk.dinode[f].type
    BY <2>1, ConstantsAre
  <2>q. QED
    BY <2>2, <2>3 DEF Store!Init, Store!Gone, Gone
<1>2. BlkInv /\ [Next]_vars => [Store!Next]_(Store!vars)
  <2>1. Shows => Store!Next
    <3>1. /\ FilesNow = [f \in Files |-> Contents(f)]
          /\ DurableNow = [f \in Files |-> IF disk.dinode[f].type THEN readi(disk.dinode[f], disk.data) ELSE Gone]
      BY DEF FilesNow, DurableNow, FileView
    <3>q. QED
      BY DEF Shows, FilesStep, DurableStep, FilesNow, DurableNow, FileView, Store!Next, Store!Crash
  <2>q. QED
    BY <2>1, StepShows
<1>q. QED
  BY <1>1, <1>2, BlkInvHolds, PTL DEF Spec, ImplementsFileStore, Store!Spec
=============================================================================
