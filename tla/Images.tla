------------------------------- MODULE Images -------------------------------
(***************************************************************************)
(* mkfs, which builds the disk image of the file system, and bootmain,     *)
(* which loads the kernel from its image.  The contents of a file are the  *)
(* numbers of its bytes, so that a copy to a wrong place shows.            *)
(***************************************************************************)
EXTENDS Integers, Sequences, SequencesExt, FiniteSets

CONSTANTS
  BSIZE, NDIRECT, NINDIRECT,
  NMeta,      \* blocks before the first data block
  DirSize,    \* bytes of a directory entry
  SECTSIZE,
  Limit       \* addresses below it can be loaded

-----------------------------------------------------------------------------
(***************************************************************************)
(* mkfs.  The image: i-nodes with size and addrs, the contents of blocks   *)
(* by position, indirect blocks as functions, the next free block and      *)
(* i-node and the blocks marked in the bit map.                            *)
(***************************************************************************)
ROOTINO == 1
Zeroes == [i \in 0..(BSIZE - 1) |-> 0]
NoDinode == [type |-> "none", nlink |-> 0, size |-> 0, addrs |-> [i \in 0..NDIRECT |-> 0]]
Empty == [dinode |-> <<>>, block |-> <<>>, ind |-> <<>>, freeblock |-> NMeta, marked |-> {}]

\* Blocks are numbered from NMeta on in the order in which they are taken.
Nth(img, b) == b - NMeta + 1
ialloc(img, type) == [img EXCEPT !.dinode = Append(@, [NoDinode EXCEPT !.type = type, !.nlink = 1])]

\* A block is taken: it holds data and, should it be used so, addresses.
Take(img) ==
  [img EXCEPT !.freeblock = @ + 1, !.block = Append(@, Zeroes), !.ind = Append(@, [i \in 0..(NINDIRECT - 1) |-> 0])]

\* The block with number fbn of the i-node, taken if it is not there.
Direct(img, inum, fbn) ==
  IF img.dinode[inum].addrs[fbn] # 0 THEN img
  ELSE [Take(img) EXCEPT !.dinode[inum].addrs[fbn] = img.freeblock]
Indirect(img, inum, fbn) ==
  LET one == Direct(img, inum, NDIRECT)
      at == Nth(one, one.dinode[inum].addrs[NDIRECT])
  IN  IF one.ind[at][fbn - NDIRECT] # 0 THEN one
      ELSE [Take(one) EXCEPT !.ind[at][fbn - NDIRECT] = one.freeblock]
BlockOf(img, inum, fbn) ==
  IF fbn < NDIRECT THEN img.dinode[inum].addrs[fbn]
  ELSE IF img.dinode[inum].addrs[NDIRECT] = 0 THEN 0
  ELSE img.ind[Nth(img, img.dinode[inum].addrs[NDIRECT])][fbn - NDIRECT]

\* Writes the bytes p to a block, from the offset off of the i-node on.
Put(img, inum, x, off, p) ==
  [img EXCEPT
    !.block[x] = [i \in 0..(BSIZE - 1) |->
                    IF i \in (off % BSIZE)..((off % BSIZE) + Len(p) - 1) THEN p[i - (off % BSIZE) + 1] ELSE @[i]],
    !.dinode[inum].size = off + Len(p)]
Piece(got, inum, off, p) == Put(got, inum, Nth(got, BlockOf(got, inum, off \div BSIZE)), off, p)

\* Appends the bytes p, a block or the rest of one at a time.
RECURSIVE iappend(_, _, _)
iappend(img, inum, p) ==
  LET off == img.dinode[inum].size
      fbn == off \div BSIZE
      got == IF fbn < NDIRECT THEN Direct(img, inum, fbn) ELSE Indirect(img, inum, fbn)
      room == (fbn + 1) * BSIZE - off
      n1 == IF Len(p) < room THEN Len(p) ELSE room
  IN  IF p = <<>> THEN img ELSE iappend(Piece(got, inum, off, SubSeq(p, 1, n1)), inum, SubSeq(p, n1 + 1, Len(p)))

\* A file is read and appended in pieces of BSIZE bytes.
RECURSIVE copyin(_, _, _)
copyin(img, inum, bytes) ==
  IF bytes = <<>> THEN img
  ELSE LET cc == IF Len(bytes) < BSIZE THEN Len(bytes) ELSE BSIZE
       IN  copyin(iappend(img, inum, SubSeq(bytes, 1, cc)), inum, SubSeq(bytes, cc + 1, Len(bytes)))

\* The bytes of the entry for an i-node, and those of the k-th file.
dirent(inum) == [i \in 1..DirSize |-> inum]
Bytes(k, size) == [i \in 1..size |-> 100 * k + i]

Enter(img, inum) == iappend(img, ROOTINO, dirent(inum))
AddFile(img, k, size) ==
  LET inum == Len(img.dinode) + 1
  IN  copyin(Enter(ialloc(img, "file"), inum), inum, Bytes(k, size))

\* The size of the directory is made a whole number of blocks at the end.
WholeBlocks(size) == (size \div BSIZE + 1) * BSIZE
balloc(img) == [img EXCEPT !.marked = 0..(img.freeblock - 1)]

mkfs(sizes) ==
  LET root == Enter(Enter(ialloc(Empty, "dir"), ROOTINO), ROOTINO)
      all == FoldLeft(LAMBDA img, k : AddFile(img, k, sizes[k]), root, [k \in DOMAIN sizes |-> k])
  IN  balloc([all EXCEPT !.dinode[ROOTINO].size = WholeBlocks(@)])

\* What the kernel reads: the bytes of an i-node by its addresses.
BlocksBelow(size) == {b \in 0..(NDIRECT + NINDIRECT - 1) : b * BSIZE < size}
Contents(img, inum) ==
  [i \in 1..img.dinode[inum].size |->
     LET b == BlockOf(img, inum, (i - 1) \div BSIZE)
     IN  IF b = 0 THEN 0 ELSE img.block[Nth(img, b)][(i - 1) % BSIZE]]
BlocksUsed(img, inum) ==
  ({BlockOf(img, inum, b) : b \in BlocksBelow(img.dinode[inum].size)} \cup {img.dinode[inum].addrs[NDIRECT]}) \ {0}

\* The image is one the kernel can start from: every file has the bytes it
\* was made from and every name its i-node, no block belongs to two files,
\* and the blocks marked are those that belong to one and those before
\* them.  Every byte of a file has a block; of the directory only if its
\* entries did not fill their last block, for then its size is a block
\* more than it has.
IsSound(img, sizes) ==
  LET files == DOMAIN img.dinode
      dirbytes == (Len(sizes) + 2) * DirSize
      bare == {i \in files : \E b \in BlocksBelow(img.dinode[i].size) : BlockOf(img, i, b) = 0}
  IN  /\ \A k \in DOMAIN sizes : Contents(img, k + 1) = Bytes(k, sizes[k])
      /\ SubSeq(Contents(img, ROOTINO), 1, dirbytes)
           = dirent(ROOTINO) \o dirent(ROOTINO) \o FlattenSeq([k \in DOMAIN sizes |-> dirent(k + 1)])
      /\ \A i, j \in files : i # j => BlocksUsed(img, i) \cap BlocksUsed(img, j) = {}
      /\ img.marked = 0..(NMeta - 1) \cup UNION {BlocksUsed(img, i) : i \in files}
      /\ bare = IF dirbytes % BSIZE = 0 THEN {ROOTINO} ELSE {}
ImageIsSound(sizes) == IsSound(mkfs(sizes), sizes)

-----------------------------------------------------------------------------
(***************************************************************************)
(* bootmain.  Sector n of the disk holds the bytes from (n - 1) * SECTSIZE *)
(* of the kernel's file, a byte being its place there plus 1.              *)
(***************************************************************************)
readsect(mem, dst, sector) ==
  [a \in DOMAIN mem |-> IF a \in dst..(dst + SECTSIZE - 1) THEN (sector - 1) * SECTSIZE + (a - dst) + 1 ELSE mem[a]]

RECURSIVE readsects(_, _, _, _)
readsects(mem, pa, epa, sector) ==
  IF pa >= epa THEN mem ELSE readsects(readsect(mem, pa, sector), pa + SECTSIZE, epa, sector + 1)

\* From the beginning of the sector that holds the offset, to the end of
\* the sector that holds the last byte.
readseg(mem, pa, count, offset) ==
  readsects(mem, pa - (offset % SECTSIZE), pa + count, offset \div SECTSIZE + 1)

\* A segment and the zeros behind it.
Load(mem, ph) ==
  LET read == readseg(mem, ph.paddr, ph.filesz, ph.off)
  IN  [a \in DOMAIN mem |-> IF a \in (ph.paddr + ph.filesz)..(ph.paddr + ph.memsz - 1) THEN 0 ELSE read[a]]
bootmain(phs) == FoldLeft(Load, [a \in (-SECTSIZE)..(Limit + SECTSIZE) |-> -1], phs)

\* Segments that lie in memory in the order of the table, each at the
\* beginning of a sector of the file: every one ends up whole, with its
\* zeros, although the last sector of one is read over where the next goes.
KernelIsLoaded(phs) ==
  (\A i \in DOMAIN phs : phs[i].off % SECTSIZE = 0 /\ (i > 1 => phs[i - 1].paddr + phs[i - 1].memsz <= phs[i].paddr))
    => \A i \in DOMAIN phs : \A n \in 0..(phs[i].memsz - 1) :
         bootmain(phs)[phs[i].paddr + n] = IF n < phs[i].filesz THEN phs[i].off + n + 1 ELSE 0
=============================================================================
