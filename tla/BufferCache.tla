---------------------------- MODULE BufferCache ----------------------------
(***************************************************************************)
(* The buffer cache over the disk driver (bio.c, ide.c).  bcache.lock and  *)
(* idelock protect one critical section each, which is one action; the     *)
(* sleep-lock of a buffer is the mutex that module SleepLock implements.   *)
(*                                                                         *)
(* A process holds one buffer at a time; the log layer above is reduced to *)
(* what it does here: log_write leaves B_DIRTY on a buffer that a later    *)
(* bwrite (install_trans) clears, for at most MaxPinned blocks.            *)
(***************************************************************************)
EXTENDS Naturals, Sequences, FiniteSets, SequencesExt

CONSTANTS Procs, Blocks, Vals, NoProc, NoBlock,
          NBuf,      \* NBUF
          MaxPinned  \* LOGSIZE: bound on the blocks log_write keeps dirty

ASSUME NBufAssumption == NBuf \in Nat \ {0} /\ MaxPinned \in Nat
ASSUME NoProcAssumption == NoProc \notin Procs
ASSUME NoBlockAssumption == NoBlock \notin Blocks
ASSUME ProcsAssumption == IsFiniteSet(Procs)

Bufs == 1..NBuf
NoBuf == 0

VARIABLES
  blockno, refcnt, valid, dirty, data,  \* struct buf
  holder,  \* owner of b->lock
  mru,     \* the list from head.next: most recently released first
  queue,   \* idequeue
  device,  \* the command the disk works on
  disk,
  pc, buf, \* where each process is, and its b
  asleep   \* sleeping in iderw

cache == <<blockno, refcnt, mru>>
flags == <<valid, dirty, data>>
io == <<queue, device, disk>>
vars == <<cache, flags, holder, io, pc, buf, asleep>>

PC == {"idle", "lock", "rw", "io", "have", "put"}
Idle == <<>>

Init == /\ blockno = [b \in Bufs |-> NoBlock]
        /\ refcnt = [b \in Bufs |-> 0]
        /\ valid = [b \in Bufs |-> FALSE]
        /\ dirty = [b \in Bufs |-> FALSE]
        /\ data \in {[b \in Bufs |-> v] : v \in Vals}
        /\ holder = [b \in Bufs |-> NoProc]
        /\ mru = [k \in Bufs |-> NBuf + 1 - k]
        /\ queue = <<>> /\ device = Idle
        /\ disk \in [Blocks -> Vals]
        /\ pc = [p \in Procs |-> "idle"]
        /\ buf = [p \in Procs |-> NoBuf]
        /\ asleep = [p \in Procs |-> FALSE]

Goto(p, to) == pc' = [pc EXCEPT ![p] = to]

-----------------------------------------------------------------------------
(* bget *)

Cached(k) == {b \in Bufs : blockno[b] = k}

\* The block is cached, perhaps in the hands of another process.
BgetHit(p, k) ==
  /\ pc[p] = "idle"
  /\ \E b \in Cached(k) :
       /\ refcnt' = [refcnt EXCEPT ![b] = @ + 1]
       /\ buf' = [buf EXCEPT ![p] = b]
  /\ Goto(p, "lock")
  /\ UNCHANGED <<blockno, mru, flags, holder, io, asleep>>

Recyclable_wrong == {b \in Bufs : refcnt[b] = 0}
Recyclable == {b \in Bufs : refcnt[b] = 0 /\ ~dirty[b]}

\* Where b stands in the list of buffers.
Age(b) == CHOOSE k \in Bufs : mru[k] = b

\* Recycle the least recently released buffer that is free and clean.
BgetMiss(p, k) ==
  /\ pc[p] = "idle" /\ Cached(k) = {}
  /\ \E b \in Recyclable :
       /\ \A o \in Recyclable : Age(o) <= Age(b)
       /\ blockno' = [blockno EXCEPT ![b] = k]
       /\ valid' = [valid EXCEPT ![b] = FALSE]
       /\ refcnt' = [refcnt EXCEPT ![b] = 1]
       /\ buf' = [buf EXCEPT ![p] = b]
  /\ Goto(p, "lock")
  /\ UNCHANGED <<mru, dirty, data, holder, io, asleep>>

\* Where bget would panic("bget: no buffers").
NoBuffers(k) == Cached(k) = {} /\ Recyclable = {}

\* acquiresleep(&b->lock), and bread's test of B_VALID under it.
LockBuf(p) ==
  /\ pc[p] = "lock" /\ holder[buf[p]] = NoProc
  /\ holder' = [holder EXCEPT ![buf[p]] = p]
  /\ Goto(p, IF valid[buf[p]] THEN "have" ELSE "rw")
  /\ UNCHANGED <<cache, flags, io, buf, asleep>>

-----------------------------------------------------------------------------
(* The disk driver *)

\* idestart: the command, and the data of a write, go to the controller.
Command(b) == <<blockno[b], IF dirty[b] THEN <<data[b]>> ELSE <<>> >>

\* iderw up to its first sleep: append, start the disk if it was idle.
Iderw(p) ==
  /\ pc[p] = "rw"
  /\ queue' = Append(queue, buf[p])
  /\ device' = IF queue = <<>> THEN Command(buf[p]) ELSE device
  /\ asleep' = [asleep EXCEPT ![p] = TRUE]
  /\ Goto(p, "io")
  /\ UNCHANGED <<cache, flags, holder, disk, buf>>

\* The disk has carried out its command: ideintr.
Ideintr_wrong ==
  /\ device # Idle
  /\ LET b == Head(queue) IN
       /\ IF dirty[b] THEN disk' = [disk EXCEPT ![device[1]] = device[2][1]] /\ UNCHANGED data
                      ELSE data' = [data EXCEPT ![b] = disk[device[1]]] /\ UNCHANGED disk
       /\ valid' = [valid EXCEPT ![b] = TRUE]
       /\ dirty' = [dirty EXCEPT ![b] = FALSE]
       /\ asleep' = [p \in Procs |-> asleep[p] /\ buf[p] # b]
  /\ queue' = Tail(queue)
  /\ device' = Idle
  /\ UNCHANGED <<cache, holder, pc, buf>>

Ideintr ==
  /\ device # Idle
  /\ LET b == Head(queue) IN
       /\ IF dirty[b] THEN disk' = [disk EXCEPT ![device[1]] = device[2][1]] /\ UNCHANGED data
                      ELSE data' = [data EXCEPT ![b] = disk[device[1]]] /\ UNCHANGED disk
       /\ valid' = [valid EXCEPT ![b] = TRUE]
       /\ dirty' = [dirty EXCEPT ![b] = FALSE]
       /\ asleep' = [p \in Procs |-> asleep[p] /\ buf[p] # b]
  /\ queue' = Tail(queue)
  /\ device' = IF Tail(queue) = <<>> THEN Idle ELSE Command(queue[2])
  /\ UNCHANGED <<cache, holder, pc, buf>>

\* The test after sleep: done, or woken by a kill.
IderwRetest(p) ==
  /\ pc[p] = "io" /\ ~asleep[p]
  /\ IF valid[buf[p]] /\ ~dirty[buf[p]] THEN Goto(p, "have") /\ UNCHANGED asleep
     ELSE asleep' = [asleep EXCEPT ![p] = TRUE] /\ UNCHANGED pc
  /\ UNCHANGED <<cache, flags, holder, io, buf>>

Kill(p) == /\ asleep[p]
           /\ asleep' = [asleep EXCEPT ![p] = FALSE]
           /\ UNCHANGED <<cache, flags, holder, io, pc, buf>>

-----------------------------------------------------------------------------
(* The users of a buffer *)

\* Change the block and bwrite it.
Bwrite(p, v) ==
  /\ pc[p] = "have"
  /\ data' = [data EXCEPT ![buf[p]] = v]
  /\ dirty' = [dirty EXCEPT ![buf[p]] = TRUE]
  /\ Goto(p, "rw")
  /\ UNCHANGED <<valid, cache, holder, io, buf, asleep>>

\* Change the block and log_write it: dirty until it is installed.
Pinned == {b \in Bufs : dirty[b] /\ ~\E p \in Procs : buf[p] = b /\ pc[p] \in {"rw", "io"}}

LogWrite(p, v) ==
  /\ pc[p] = "have"
  /\ dirty[buf[p]] \/ Cardinality(Pinned) < MaxPinned
  /\ data' = [data EXCEPT ![buf[p]] = v]
  /\ dirty' = [dirty EXCEPT ![buf[p]] = TRUE]
  /\ UNCHANGED <<valid, cache, holder, io, pc, buf, asleep>>

\* brelse: first the sleep-lock, then, under bcache.lock, the reference.
BrelseUnlock(p) ==
  /\ pc[p] = "have"
  /\ holder' = [holder EXCEPT ![buf[p]] = NoProc]
  /\ Goto(p, "put")
  /\ UNCHANGED <<cache, flags, io, buf, asleep>>

BrelsePut_wrong(p) ==
  /\ pc[p] = "put"
  /\ refcnt' = [refcnt EXCEPT ![buf[p]] = 0]
  /\ mru' = <<buf[p]>> \o Remove(mru, buf[p])
  /\ buf' = [buf EXCEPT ![p] = NoBuf]
  /\ Goto(p, "idle")
  /\ UNCHANGED <<blockno, flags, holder, io, asleep>>

BrelsePut(p) ==
  /\ pc[p] = "put"
  /\ refcnt' = [refcnt EXCEPT ![buf[p]] = @ - 1]
  /\ mru' = IF refcnt[buf[p]] = 1 THEN <<buf[p]>> \o Remove(mru, buf[p]) ELSE mru
  /\ buf' = [buf EXCEPT ![p] = NoBuf]
  /\ Goto(p, "idle")
  /\ UNCHANGED <<blockno, flags, holder, io, asleep>>

-----------------------------------------------------------------------------
Next == \/ \E p \in Procs, k \in Blocks : BgetHit(p, k) \/ BgetMiss(p, k)
        \/ \E p \in Procs : \/ LockBuf(p) \/ Iderw(p) \/ IderwRetest(p) \/ Kill(p)
                            \/ BrelseUnlock(p) \/ BrelsePut(p)
        \/ \E p \in Procs, v \in Vals : Bwrite(p, v) \/ LogWrite(p, v)
        \/ Ideintr

Spec == Init /\ [][Next]_vars

-----------------------------------------------------------------------------
TypeOK == /\ blockno \in [Bufs -> Blocks \cup {NoBlock}]
          /\ refcnt \in [Bufs -> 0..Cardinality(Procs)]
          /\ valid \in [Bufs -> BOOLEAN] /\ dirty \in [Bufs -> BOOLEAN]
          /\ data \in [Bufs -> Vals] /\ disk \in [Blocks -> Vals]
          /\ holder \in [Bufs -> Procs \cup {NoProc}]
          /\ mru \in [Bufs -> Bufs] /\ ToSet(mru) = Bufs
          /\ \A k \in 1..Len(queue) : queue[k] \in Bufs
          /\ pc \in [Procs -> PC] /\ buf \in [Procs -> Bufs \cup {NoBuf}]
          /\ asleep \in [Procs -> BOOLEAN]

\* Users of the cache see blocks in memory, each held by one of them: what was
\* written last is what is read next, through recycling and log_write's pins.
TheBuf(k) == CHOOSE b \in Cached(k) : TRUE
Mem == [k \in Blocks |-> IF Cached(k) # {} /\ (valid[TheBuf(k)] \/ dirty[TheBuf(k)])
                         THEN data[TheBuf(k)] ELSE disk[k]]
Owner == [k \in Blocks |-> IF Cached(k) # {} THEN holder[TheBuf(k)] ELSE NoProc]
B == INSTANCE BlockStore WITH mem <- Mem, owner <- Owner
ImplementsBlockStore == B!Spec

\* refcnt counts the processes between bget and brelse.
RefcntCounts == \A b \in Bufs : refcnt[b] = Cardinality({p \in Procs : buf[p] = b})

\* The driver works on the first buffer of its queue, and every buffer there
\* belongs to a process that waits for it.
QueueIsServed ==
  /\ device = (IF queue = <<>> THEN Idle ELSE Command(Head(queue)))
  /\ \A k \in 1..Len(queue) : \E p \in Procs : buf[p] = queue[k] /\ pc[p] = "io" /\ holder[buf[p]] = p
  /\ \A p \in Procs : asleep[p] => buf[p] \in ToSet(queue)

\* "bget: no buffers" cannot happen with a buffer for each process beyond those
\* that the log keeps dirty.
NeverPanics == \A p \in Procs, k \in Blocks : pc[p] = "idle" => ~NoBuffers(k)
=============================================================================
