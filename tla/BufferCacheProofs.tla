-------------------------- MODULE BufferCacheProofs --------------------------
(***************************************************************************)
(* Safety of the buffer cache and the disk driver for any number of        *)
(* processes, blocks and buffers, and that they implement BlockStore.      *)
(***************************************************************************)
EXTENDS BufferCache, FiniteSetTheorems, SequenceTheorems, TLAPS

CacheTypes ==
  /\ blockno \in [Bufs -> Blocks \cup {NoBlock}] /\ refcnt \in [Bufs -> Nat]
  /\ valid \in [Bufs -> BOOLEAN] /\ dirty \in [Bufs -> BOOLEAN]
  /\ data \in [Bufs -> Vals] /\ disk \in [Blocks -> Vals]
  /\ holder \in [Bufs -> Procs \cup {NoProc}]
  /\ queue \in Seq(Bufs)
  /\ pc \in [Procs -> PC] /\ buf \in [Procs -> Bufs \cup {NoBuf}]
  /\ asleep \in [Procs -> BOOLEAN]

\* Between bget and brelse a process has its buffer, and nobody else has it locked.
Locked == {"rw", "io", "have"}
LocksHeld ==
  /\ \A p \in Procs : /\ pc[p] = "idle" <=> buf[p] = NoBuf
                      /\ pc[p] \in Locked => holder[buf[p]] = p
  /\ \A b \in Bufs : holder[b] # NoProc => buf[holder[b]] = b /\ pc[holder[b]] \in Locked

\* A block is in one buffer at most; a buffer in use has a block.
BlocksUnique ==
  /\ \A b, c \in Bufs : blockno[b] = blockno[c] /\ blockno[b] # NoBlock => b = c
  /\ \A p \in Procs : buf[p] # NoBuf => blockno[buf[p]] \in Blocks

\* The queue: buffers that wait for the disk, each of them once, the first one
\* with its command at the device.
Queued(b) == \E k \in 1..Len(queue) : queue[k] = b
DeviceWorks == device = (IF queue = <<>> THEN Idle ELSE Command(Head(queue)))
QueueLocked ==
  \A k \in 1..Len(queue) : /\ holder[queue[k]] # NoProc /\ pc[holder[queue[k]]] = "io"
                           /\ ~valid[queue[k]] \/ dirty[queue[k]]
QueueOnce == \A k, l \in 1..Len(queue) : queue[k] = queue[l] => k = l
WaitersQueued ==
  \A p \in Procs : /\ asleep[p] => pc[p] = "io" /\ Queued(buf[p])
                   /\ pc[p] = "io" => Queued(buf[p]) \/ (valid[buf[p]] /\ ~dirty[buf[p]])
DiskQueue == DeviceWorks /\ QueueLocked /\ QueueOnce /\ WaitersQueued

\* A buffer that differs from the disk says so.
DataFlags ==
  /\ \A b \in Bufs : /\ dirty[b] => valid[b]
                     /\ valid[b] /\ ~dirty[b] /\ blockno[b] \in Blocks => data[b] = disk[blockno[b]]
  /\ \A p \in Procs : /\ pc[p] = "rw" => ~valid[buf[p]] \/ dirty[buf[p]]
                      /\ pc[p] = "have" => valid[buf[p]]

CacheInv == CacheTypes /\ LocksHeld /\ BlocksUnique /\ RefcntCounts /\ DiskQueue /\ DataFlags

-----------------------------------------------------------------------------
\* A buffer without references is nobody's.
LEMMA FreeIsNobodys ==
  ASSUME RefcntCounts, NEW b \in Bufs, refcnt[b] = 0
  PROVE  \A p \in Procs : buf[p] # b
<1>1. IsFiniteSet({p \in Procs : buf[p] = b})
  BY ProcsAssumption, FS_Subset
<1>2. {p \in Procs : buf[p] = b} = {}
  BY <1>1, FS_EmptySet DEF RefcntCounts
<1>q. QED
  BY <1>2

\* What bget recycles is nobody's, and the block is in no other buffer.
LEMMA MissTakesFree ==
  ASSUME CacheTypes, RefcntCounts, NEW p \in Procs, NEW k \in Blocks, BgetMiss(p, k)
  PROVE  \E b \in Bufs : /\ refcnt[b] = 0 /\ ~dirty[b] /\ \A o \in Procs : buf[o] # b
                         /\ \A c \in Bufs : blockno[c] # k
                         /\ blockno' = [blockno EXCEPT ![b] = k]
                         /\ valid' = [valid EXCEPT ![b] = FALSE]
                         /\ refcnt' = [refcnt EXCEPT ![b] = 1]
                         /\ buf' = [buf EXCEPT ![p] = b]
  BY FreeIsNobodys DEF BgetMiss, Cached, Recyclable

\* A buffer in the queue is locked by the process that waits for the disk.
LEMMA QueuedIsLocked ==
  ASSUME CacheTypes, LocksHeld, DiskQueue
  PROVE  \A k \in 1..Len(queue) :
           /\ queue[k] \in Bufs /\ holder[queue[k]] \in Procs
           /\ buf[holder[queue[k]]] = queue[k] /\ pc[holder[queue[k]]] = "io"
           /\ \A p \in Procs : buf[p] = queue[k] /\ pc[p] \in Locked => p = holder[queue[k]]
<1>1. TAKE k \in 1..Len(queue)
<1>2. queue[k] \in Bufs
  BY ElementOfSeq DEF CacheTypes
<1>3. holder[queue[k]] # NoProc /\ pc[holder[queue[k]]] = "io"
  BY DEF DiskQueue, QueueLocked
<1>q. QED
  BY <1>2, <1>3 DEF LocksHeld, CacheTypes

\* The buffer that an interrupt of the disk is about.
LEMMA HeadIsServed ==
  ASSUME CacheTypes, LocksHeld, DiskQueue, device # Idle
  PROVE  /\ Len(queue) \in Nat \ {0} /\ queue # <<>> /\ Head(queue) = queue[1] /\ Head(queue) \in Bufs
         /\ device = Command(queue[1])
         /\ Tail(queue) \in Seq(Bufs) /\ Len(Tail(queue)) = Len(queue) - 1
         /\ \A k \in 1..Len(queue) - 1 : Tail(queue)[k] = queue[k + 1]
<1>1. queue # <<>> /\ queue \in Seq(Bufs)
  BY DEF DiskQueue, DeviceWorks, CacheTypes
<1>2. Len(queue) \in Nat \ {0} /\ Head(queue) = queue[1]
  BY <1>1
<1>3. device = Command(queue[1])
  BY <1>1, <1>2 DEF DiskQueue, DeviceWorks
<1>q. QED
  BY <1>1, <1>2, <1>3, HeadTailProperties

\* The disk is told a block number that there is.
LEMMA HeadHasBlock ==
  ASSUME CacheTypes, LocksHeld, BlocksUnique, DiskQueue, device # Idle
  PROVE  blockno[Head(queue)] \in Blocks
<1>1. 1 \in 1..Len(queue) /\ Head(queue) = queue[1]
  BY HeadIsServed
<1>2. /\ queue[1] \in Bufs /\ holder[queue[1]] \in Procs
      /\ buf[holder[queue[1]]] = queue[1]
  BY <1>1, QueuedIsLocked
<1>3. queue[1] # NoBuf
  BY <1>2 DEF Bufs, NoBuf
<1>q. QED
  BY <1>1, <1>2, <1>3 DEF BlocksUnique

\* Fields keep their types: a queued buffer has a block for the disk to work on.
LEMMA TypeStep ==
  CacheTypes /\ LocksHeld /\ BlocksUnique /\ RefcntCounts /\ DiskQueue /\ [Next]_vars
    => CacheTypes'
<1> SUFFICES ASSUME CacheTypes, LocksHeld, BlocksUnique, RefcntCounts, DiskQueue, [Next]_vars PROVE CacheTypes'
  OBVIOUS
<1> USE DEF cache, flags, io, CacheTypes, PC
<1>1. ASSUME NEW p \in Procs, NEW k \in Blocks, BgetHit(p, k) PROVE CacheTypes'
  BY <1>1 DEF BgetHit, Cached, Goto
<1>2. ASSUME NEW p \in Procs, NEW k \in Blocks, BgetMiss(p, k) PROVE CacheTypes'
  BY <1>2 DEF BgetMiss, Cached, Recyclable, Goto
<1>3. ASSUME NEW p \in Procs, LockBuf(p) PROVE CacheTypes'
  BY <1>3 DEF LockBuf, Goto
<1>4. ASSUME NEW p \in Procs, Iderw(p) PROVE CacheTypes'
  <2>1. buf[p] \in Bufs
    BY <1>4 DEF Iderw, LocksHeld
  <2>2. Append(queue, buf[p]) \in Seq(Bufs)
    BY <2>1, AppendProperties
  <2>q. QED
    BY <1>4, <2>2 DEF Iderw, Goto
<1>5. ASSUME NEW p \in Procs, IderwRetest(p) PROVE CacheTypes'
  BY <1>5 DEF IderwRetest, Goto
<1>6. ASSUME NEW p \in Procs, Kill(p) PROVE CacheTypes'
  BY <1>6 DEF Kill
<1>7. ASSUME NEW p \in Procs, BrelseUnlock(p) PROVE CacheTypes'
  BY <1>7 DEF BrelseUnlock, Goto
<1>8. ASSUME NEW p \in Procs, BrelsePut(p) PROVE CacheTypes'
  <2>1. buf[p] \in Bufs /\ refcnt[buf[p]] # 0
    BY <1>8, FreeIsNobodys DEF BrelsePut, LocksHeld
  <2>q. QED
    BY <1>8, <2>1 DEF BrelsePut, Goto
<1>9. ASSUME NEW p \in Procs, NEW v \in Vals, Bwrite(p, v) PROVE CacheTypes'
  BY <1>9 DEF Bwrite, Goto
<1>10. ASSUME NEW p \in Procs, NEW v \in Vals, LogWrite(p, v) PROVE CacheTypes'
  BY <1>10 DEF LogWrite
<1>11. ASSUME Ideintr PROVE CacheTypes'
  <2>1. Head(queue) \in Bufs /\ Tail(queue) \in Seq(Bufs)
    BY <1>11, HeadIsServed DEF Ideintr
  <2>2. blockno[Head(queue)] \in Blocks
    BY <1>11, HeadHasBlock DEF Ideintr
  <2>3. CASE dirty[Head(queue)]
    <3>1. device[1] \in Blocks /\ device[2][1] \in Vals
      BY <1>11, <2>1, <2>2, <2>3, HeadIsServed DEF Ideintr, Command
    <3>q. QED
      BY <1>11, <2>1, <2>3, <3>1 DEF Ideintr
  <2>4. CASE ~dirty[Head(queue)]
    <3>1. device[1] \in Blocks
      BY <1>11, <2>1, <2>2, <2>4, HeadIsServed DEF Ideintr, Command
    <3>q. QED
      BY <1>11, <2>1, <2>4, <3>1 DEF Ideintr
  <2>q. QED
    BY <2>3, <2>4
<1>12. ASSUME UNCHANGED vars PROVE CacheTypes'
  BY <1>12 DEF vars
<1>q. QED
  BY <1>1, <1>2, <1>3, <1>4, <1>5, <1>6, <1>7, <1>8, <1>9, <1>10, <1>11, <1>12 DEF Next

\* Who locks a buffer is between bget and brelse, and has it alone.
LEMMA LocksStep == CacheTypes /\ LocksHeld /\ [Next]_vars => LocksHeld'
<1> SUFFICES ASSUME CacheTypes, LocksHeld, [Next]_vars PROVE LocksHeld'
  OBVIOUS
<1> USE NoProcAssumption DEF cache, flags, io, CacheTypes, PC, LocksHeld, Locked, NoBuf, Bufs
<1>1. ASSUME NEW p \in Procs, NEW k \in Blocks, BgetHit(p, k) PROVE LocksHeld'
  BY <1>1 DEF BgetHit, Cached, Goto
<1>2. ASSUME NEW p \in Procs, NEW k \in Blocks, BgetMiss(p, k) PROVE LocksHeld'
  BY <1>2 DEF BgetMiss, Cached, Recyclable, Goto
<1>3. ASSUME NEW p \in Procs, LockBuf(p) PROVE LocksHeld'
  BY <1>3 DEF LockBuf, Goto
<1>4. ASSUME NEW p \in Procs, Iderw(p) PROVE LocksHeld'
  BY <1>4 DEF Iderw, Goto
<1>5. ASSUME NEW p \in Procs, IderwRetest(p) PROVE LocksHeld'
  BY <1>5 DEF IderwRetest, Goto
<1>6. ASSUME NEW p \in Procs, Kill(p) PROVE LocksHeld'
  BY <1>6 DEF Kill
<1>7. ASSUME NEW p \in Procs, BrelseUnlock(p) PROVE LocksHeld'
  BY <1>7 DEF BrelseUnlock, Goto
<1>8. ASSUME NEW p \in Procs, BrelsePut(p) PROVE LocksHeld'
  BY <1>8 DEF BrelsePut, Goto
<1>9. ASSUME NEW p \in Procs, NEW v \in Vals, Bwrite(p, v) PROVE LocksHeld'
  BY <1>9 DEF Bwrite, Goto
<1>10. ASSUME NEW p \in Procs, NEW v \in Vals, LogWrite(p, v) PROVE LocksHeld'
  BY <1>10 DEF LogWrite
<1>11. ASSUME Ideintr PROVE LocksHeld'
  BY <1>11 DEF Ideintr
<1>12. ASSUME UNCHANGED vars PROVE LocksHeld'
  BY <1>12 DEF vars
<1>q. QED
  BY <1>1, <1>2, <1>3, <1>4, <1>5, <1>6, <1>7, <1>8, <1>9, <1>10, <1>11, <1>12 DEF Next

\* bget gives a block a buffer only when no other buffer has it.
LEMMA BlocksStep ==
  CacheTypes /\ LocksHeld /\ RefcntCounts /\ BlocksUnique /\ [Next]_vars
    => BlocksUnique'
<1> SUFFICES ASSUME CacheTypes, LocksHeld, RefcntCounts, BlocksUnique, [Next]_vars PROVE BlocksUnique'
  OBVIOUS
<1> USE NoBlockAssumption DEF cache, flags, io, CacheTypes, LocksHeld, BlocksUnique, NoBuf, Bufs
<1>1. ASSUME NEW p \in Procs, NEW k \in Blocks, BgetHit(p, k) PROVE BlocksUnique'
  BY <1>1 DEF BgetHit, Cached, Goto
<1>2. ASSUME NEW p \in Procs, NEW k \in Blocks, BgetMiss(p, k) PROVE BlocksUnique'
  <2>1. PICK b \in Bufs : /\ \A o \in Procs : buf[o] # b
                          /\ \A c \in Bufs : blockno[c] # k
                          /\ blockno' = [blockno EXCEPT ![b] = k]
                          /\ buf' = [buf EXCEPT ![p] = b]
    BY <1>2, MissTakesFree
  <2>q. QED
    BY <2>1
<1>3. ASSUME NEW p \in Procs, LockBuf(p) PROVE BlocksUnique'
  BY <1>3 DEF LockBuf, Goto
<1>4. ASSUME NEW p \in Procs, Iderw(p) PROVE BlocksUnique'
  BY <1>4 DEF Iderw, Goto
<1>5. ASSUME NEW p \in Procs, IderwRetest(p) PROVE BlocksUnique'
  BY <1>5 DEF IderwRetest, Goto
<1>6. ASSUME NEW p \in Procs, Kill(p) PROVE BlocksUnique'
  BY <1>6 DEF Kill
<1>7. ASSUME NEW p \in Procs, BrelseUnlock(p) PROVE BlocksUnique'
  BY <1>7 DEF BrelseUnlock, Goto
<1>8. ASSUME NEW p \in Procs, BrelsePut(p) PROVE BlocksUnique'
  BY <1>8 DEF BrelsePut, Goto
<1>9. ASSUME NEW p \in Procs, NEW v \in Vals, Bwrite(p, v) PROVE BlocksUnique'
  BY <1>9 DEF Bwrite, Goto
<1>10. ASSUME NEW p \in Procs, NEW v \in Vals, LogWrite(p, v) PROVE BlocksUnique'
  BY <1>10 DEF LogWrite
<1>11. ASSUME Ideintr PROVE BlocksUnique'
  BY <1>11 DEF Ideintr
<1>12. ASSUME UNCHANGED vars PROVE BlocksUnique'
  BY <1>12 DEF vars
<1>q. QED
  BY <1>1, <1>2, <1>3, <1>4, <1>5, <1>6, <1>7, <1>8, <1>9, <1>10, <1>11, <1>12 DEF Next

\* Only a process that holds a buffer changes it, and it marks what it changed.
LEMMA DataStep ==
  CacheTypes /\ LocksHeld /\ BlocksUnique /\ RefcntCounts /\ DiskQueue /\ DataFlags /\ [Next]_vars
    => DataFlags'
<1> SUFFICES ASSUME CacheTypes, LocksHeld, BlocksUnique, RefcntCounts, DiskQueue, DataFlags, [Next]_vars PROVE DataFlags'
  OBVIOUS
<1> USE NoProcAssumption, NoBlockAssumption DEF cache, flags, io, CacheTypes, LocksHeld, Locked, BlocksUnique, DataFlags
<1>1. ASSUME NEW p \in Procs, NEW k \in Blocks, BgetHit(p, k) PROVE DataFlags'
  BY <1>1 DEF BgetHit, Cached, Goto
<1>2. ASSUME NEW p \in Procs, NEW k \in Blocks, BgetMiss(p, k) PROVE DataFlags'
  BY <1>2, FreeIsNobodys DEF BgetMiss, Cached, Recyclable, Goto
<1>3. ASSUME NEW p \in Procs, LockBuf(p) PROVE DataFlags'
  BY <1>3 DEF LockBuf, Goto
<1>4. ASSUME NEW p \in Procs, Iderw(p) PROVE DataFlags'
  BY <1>4 DEF Iderw, Goto
<1>5. ASSUME NEW p \in Procs, IderwRetest(p) PROVE DataFlags'
  BY <1>5 DEF IderwRetest, Goto
<1>6. ASSUME NEW p \in Procs, Kill(p) PROVE DataFlags'
  BY <1>6 DEF Kill
<1>7. ASSUME NEW p \in Procs, BrelseUnlock(p) PROVE DataFlags'
  BY <1>7 DEF BrelseUnlock, Goto
<1>8. ASSUME NEW p \in Procs, BrelsePut(p) PROVE DataFlags'
  BY <1>8 DEF BrelsePut, Goto
<1>9. ASSUME NEW p \in Procs, NEW v \in Vals, Bwrite(p, v) PROVE DataFlags'
  BY <1>9 DEF Bwrite, Goto
<1>10. ASSUME NEW p \in Procs, NEW v \in Vals, LogWrite(p, v) PROVE DataFlags'
  BY <1>10 DEF LogWrite
<1>11. ASSUME Ideintr PROVE DataFlags'
  <2> DEFINE h == Head(queue)
  <2>1. /\ h \in Bufs /\ device = Command(h) /\ blockno[h] \in Blocks
        /\ ~valid[h] \/ dirty[h]
        /\ \A p \in Procs : buf[p] = h /\ pc[p] \in Locked => pc[p] = "io"
    BY <1>11, HeadIsServed, HeadHasBlock, QueuedIsLocked DEF Ideintr, DiskQueue, QueueLocked
  <2>2. /\ valid' = [valid EXCEPT ![h] = TRUE] /\ dirty' = [dirty EXCEPT ![h] = FALSE]
        /\ UNCHANGED <<blockno, holder, pc, buf>>
    BY <1>11 DEF Ideintr
  <2> HIDE DEF h
  <2>3. CASE dirty[h]
    <3>1. disk' = [disk EXCEPT ![blockno[h]] = data[h]] /\ data' = data
      BY <1>11, <2>1, <2>3 DEF Ideintr, Command, h
    <3>q. QED
      BY <2>1, <2>2, <3>1
  <2>4. CASE ~dirty[h]
    <3>1. data' = [data EXCEPT ![h] = disk[blockno[h]]] /\ disk' = disk
      BY <1>11, <2>1, <2>4 DEF Ideintr, Command, h
    <3>q. QED
      BY <2>1, <2>2, <3>1
  <2>q. QED
    BY <2>3, <2>4
<1>12. ASSUME UNCHANGED vars PROVE DataFlags'
  BY <1>12 DEF vars
<1>q. QED
  BY <1>1, <1>2, <1>3, <1>4, <1>5, <1>6, <1>7, <1>8, <1>9, <1>10, <1>11, <1>12 DEF Next

\* The command at the device stays that of the first buffer in the queue.
LEMMA DeviceStep ==
  CacheTypes /\ LocksHeld /\ RefcntCounts /\ BlocksUnique /\ DataFlags /\ DiskQueue /\ [Next]_vars
    => DeviceWorks'
<1> SUFFICES ASSUME CacheTypes, LocksHeld, RefcntCounts, BlocksUnique, DataFlags, DiskQueue, [Next]_vars PROVE DeviceWorks'
  OBVIOUS
<1>a. queue # <<>> => /\ Head(queue) \in Bufs
                      /\ \E o \in Procs : buf[o] = Head(queue)
                      /\ \A o \in Procs : buf[o] = Head(queue) => pc[o] \notin {"rw", "have"}
  <2>1. SUFFICES ASSUME queue # <<>>
                 PROVE  /\ Head(queue) \in Bufs
                        /\ \E o \in Procs : buf[o] = Head(queue)
                        /\ \A o \in Procs : buf[o] = Head(queue) => pc[o] \notin {"rw", "have"}
    OBVIOUS
  <2>2. 1 \in 1..Len(queue) /\ Head(queue) = queue[1]
    BY <2>1 DEF CacheTypes
  <2>q. QED
    BY <2>2, QueuedIsLocked DEF Locked
<1>b. DeviceWorks
  BY DEF DiskQueue
<1> USE DEF cache, flags, io, CacheTypes, DeviceWorks, Command
<1>1. ASSUME NEW p \in Procs, NEW k \in Blocks, BgetHit(p, k) PROVE DeviceWorks'
  BY <1>1, <1>a, <1>b DEF BgetHit, Cached, Goto
<1>2. ASSUME NEW p \in Procs, NEW k \in Blocks, BgetMiss(p, k) PROVE DeviceWorks'
  <2>1. PICK b \in Bufs : /\ \A o \in Procs : buf[o] # b
                          /\ blockno' = [blockno EXCEPT ![b] = k]
    BY <1>2, MissTakesFree
  <2>2. UNCHANGED <<queue, device, dirty, data>>
    BY <1>2 DEF BgetMiss
  <2>q. QED
    BY <1>a, <1>b, <2>1, <2>2
<1>3. ASSUME NEW p \in Procs, LockBuf(p) PROVE DeviceWorks'
  BY <1>3, <1>a, <1>b DEF LockBuf, Goto
<1>4. ASSUME NEW p \in Procs, Iderw(p) PROVE DeviceWorks'
  <2>1. queue' = Append(queue, buf[p]) /\ buf[p] \in Bufs /\ UNCHANGED <<blockno, dirty, data>>
        /\ device' = IF queue = <<>> THEN Command(buf[p]) ELSE device
    BY <1>4 DEF Iderw, LocksHeld
  <2>2. Command(Head(queue))' = Command(Head(queue'))
    BY <2>1 DEF Command
  <2>3. CASE queue = <<>>
    <3>1. queue' # <<>> /\ Head(queue') = buf[p]
      BY <2>1, <2>3
    <3>q. QED
      BY <2>1, <2>3, <3>1
  <2>4. CASE queue # <<>>
    <3>1. queue' # <<>> /\ Head(queue') = Head(queue)
      BY <2>1, <2>4
    <3>q. QED
      BY <1>b, <2>1, <2>4, <3>1
  <2>q. QED
    BY <2>3, <2>4
<1>5. ASSUME NEW p \in Procs, IderwRetest(p) PROVE DeviceWorks'
  BY <1>5, <1>a, <1>b DEF IderwRetest, Goto
<1>6. ASSUME NEW p \in Procs, Kill(p) PROVE DeviceWorks'
  BY <1>6, <1>a, <1>b DEF Kill
<1>7. ASSUME NEW p \in Procs, BrelseUnlock(p) PROVE DeviceWorks'
  BY <1>7, <1>a, <1>b DEF BrelseUnlock, Goto
<1>8. ASSUME NEW p \in Procs, BrelsePut(p) PROVE DeviceWorks'
  BY <1>8, <1>a, <1>b DEF BrelsePut, Goto
<1>9. ASSUME NEW p \in Procs, NEW v \in Vals, Bwrite(p, v) PROVE DeviceWorks'
  BY <1>9, <1>a, <1>b DEF Bwrite, Goto
<1>10. ASSUME NEW p \in Procs, NEW v \in Vals, LogWrite(p, v) PROVE DeviceWorks'
  BY <1>10, <1>a, <1>b DEF LogWrite
<1>11. ASSUME Ideintr PROVE DeviceWorks'
  <2>1. /\ queue' = Tail(queue) /\ UNCHANGED blockno
        /\ device' = IF Tail(queue) = <<>> THEN Idle ELSE Command(queue[2])
    BY <1>11 DEF Ideintr
  <2>2. CASE Tail(queue) = <<>>
    BY <2>1, <2>2
  <2>3. CASE Tail(queue) # <<>>
    <3>1. /\ 1 \in 1..Len(queue) /\ 2 \in 1..Len(queue)
          /\ Head(queue) = queue[1] /\ Head(Tail(queue)) = queue[2]
      BY <1>11, <2>3, HeadIsServed DEF Ideintr
    <3>2. queue[2] # queue[1] /\ queue[1] \in Bufs /\ queue[2] \in Bufs
      BY <3>1, QueuedIsLocked DEF DiskQueue, QueueOnce
    <3>3. /\ dirty' = [dirty EXCEPT ![queue[1]] = FALSE]
          /\ data' = data \/ data' = [data EXCEPT ![queue[1]] = disk[device[1]]]
      BY <1>11, <3>1 DEF Ideintr
    <3>4. dirty'[queue[2]] = dirty[queue[2]] /\ data'[queue[2]] = data[queue[2]]
      BY <3>2, <3>3
    <3>q. QED
      BY <2>1, <2>3, <3>1, <3>4
  <2>q. QED
    BY <2>2, <2>3
<1>12. ASSUME UNCHANGED vars PROVE DeviceWorks'
  BY <1>12, <1>a, <1>b DEF vars
<1>q. QED
  BY <1>1, <1>2, <1>3, <1>4, <1>5, <1>6, <1>7, <1>8, <1>9, <1>10, <1>11, <1>12 DEF Next

\* A queued buffer stays locked, since its process waits for the disk.
LEMMA LockedStep ==
  CacheTypes /\ LocksHeld /\ RefcntCounts /\ BlocksUnique /\ DataFlags /\ DiskQueue /\ [Next]_vars
    => QueueLocked'
<1> SUFFICES ASSUME CacheTypes, LocksHeld, RefcntCounts, BlocksUnique, DataFlags, DiskQueue, [Next]_vars PROVE QueueLocked'
  OBVIOUS
<1>a. \A k \in 1..Len(queue) :
        /\ queue[k] \in Bufs /\ holder[queue[k]] \in Procs
        /\ buf[holder[queue[k]]] = queue[k] /\ pc[holder[queue[k]]] = "io"
        /\ \A o \in Procs : buf[o] = queue[k] => o = holder[queue[k]] \/ pc[o] \notin {"rw", "have", "io"}
        /\ ~valid[queue[k]] \/ dirty[queue[k]]
  BY QueuedIsLocked DEF Locked, DiskQueue, QueueLocked
<1> USE NoProcAssumption DEF cache, flags, io, CacheTypes, QueueLocked
<1>1. ASSUME NEW p \in Procs, NEW k \in Blocks, BgetHit(p, k) PROVE QueueLocked'
  BY <1>1, <1>a DEF BgetHit, Cached, Goto
<1>2. ASSUME NEW p \in Procs, NEW k \in Blocks, BgetMiss(p, k) PROVE QueueLocked'
  <2>1. PICK b \in Bufs : /\ \A o \in Procs : buf[o] # b
                          /\ valid' = [valid EXCEPT ![b] = FALSE]
    BY <1>2, MissTakesFree
  <2>2. pc[p] = "idle" /\ pc' = [pc EXCEPT ![p] = "lock"] /\ UNCHANGED <<queue, holder, dirty>>
    BY <1>2 DEF BgetMiss, Goto
  <2>q. QED
    BY <1>a, <2>1, <2>2
<1>3. ASSUME NEW p \in Procs, LockBuf(p) PROVE QueueLocked'
  BY <1>3, <1>a DEF LockBuf, Goto
<1>4. ASSUME NEW p \in Procs, Iderw(p) PROVE QueueLocked'
  <2>1. queue' = Append(queue, buf[p]) /\ buf[p] \in Bufs
    BY <1>4 DEF Iderw, LocksHeld
  <2>2. pc[p] = "rw" /\ pc' = [pc EXCEPT ![p] = "io"] /\ UNCHANGED <<holder, buf, valid, dirty>>
    BY <1>4 DEF Iderw, Goto
  <2>3. ASSUME NEW k \in 1..Len(queue) PROVE queue[k] # buf[p] /\ holder[queue[k]] # p
    BY <1>a, <2>2
  <2>4. holder[buf[p]] = p /\ (~valid[buf[p]] \/ dirty[buf[p]])
    BY <2>2 DEF LocksHeld, Locked, DataFlags
  <2>5. ASSUME NEW k \in 1..Len(queue')
        PROVE  IF k = Len(queue) + 1 THEN queue'[k] = buf[p]
               ELSE k \in 1..Len(queue) /\ queue'[k] = queue[k]
    BY <2>1, AppendProperties
  <2>6. ASSUME NEW k \in 1..Len(queue')
        PROVE  /\ holder'[queue'[k]] # NoProc /\ pc'[holder'[queue'[k]]] = "io"
               /\ ~valid'[queue'[k]] \/ dirty'[queue'[k]]
    <3>1. CASE k = Len(queue) + 1
      BY <2>2, <2>4, <2>5, <3>1
    <3>2. CASE k # Len(queue) + 1
      <4>1. /\ k \in 1..Len(queue) /\ queue'[k] = queue[k] /\ queue[k] \in Bufs
            /\ holder[queue[k]] \in Procs /\ holder[queue[k]] # p
        BY <1>a, <2>3, <2>5, <3>2
      <4>2. pc'[holder[queue[k]]] = pc[holder[queue[k]]]
        BY <2>2, <4>1
      <4>q. QED
        BY <1>a, <2>2, <4>1, <4>2
    <3>q. QED
      BY <3>1, <3>2
  <2>q. QED
    BY <2>6
<1>5. ASSUME NEW p \in Procs, IderwRetest(p) PROVE QueueLocked'
  BY <1>5, <1>a DEF IderwRetest, Goto
<1>6. ASSUME NEW p \in Procs, Kill(p) PROVE QueueLocked'
  BY <1>6, <1>a DEF Kill
<1>7. ASSUME NEW p \in Procs, BrelseUnlock(p) PROVE QueueLocked'
  BY <1>7, <1>a DEF BrelseUnlock, Goto
<1>8. ASSUME NEW p \in Procs, BrelsePut(p) PROVE QueueLocked'
  BY <1>8, <1>a DEF BrelsePut, Goto
<1>9. ASSUME NEW p \in Procs, NEW v \in Vals, Bwrite(p, v) PROVE QueueLocked'
  BY <1>9, <1>a DEF Bwrite, Goto
<1>10. ASSUME NEW p \in Procs, NEW v \in Vals, LogWrite(p, v) PROVE QueueLocked'
  BY <1>10, <1>a DEF LogWrite
<1>11. ASSUME Ideintr PROVE QueueLocked'
  <2>1. ASSUME NEW k \in 1..Len(queue')
        PROVE  /\ k + 1 \in 1..Len(queue) /\ queue'[k] = queue[k + 1] /\ queue[k + 1] # Head(queue)
    <3>1. queue' = Tail(queue) /\ device # Idle
      BY <1>11 DEF Ideintr
    <3>2. /\ k + 1 \in 1..Len(queue) /\ 1 \in 1..Len(queue) /\ k + 1 # 1
          /\ queue'[k] = queue[k + 1] /\ Head(queue) = queue[1]
      BY <3>1, HeadIsServed
    <3>q. QED
      BY <3>2 DEF DiskQueue, QueueOnce
  <2>2. /\ UNCHANGED <<holder, pc>> /\ Head(queue) \in Bufs
        /\ valid' = [valid EXCEPT ![Head(queue)] = TRUE] /\ dirty' = [dirty EXCEPT ![Head(queue)] = FALSE]
    BY <1>11, HeadIsServed DEF Ideintr
  <2>q. QED
    BY <1>a, <2>1, <2>2
<1>12. ASSUME UNCHANGED vars PROVE QueueLocked'
  BY <1>12, <1>a DEF vars
<1>q. QED
  BY <1>1, <1>2, <1>3, <1>4, <1>5, <1>6, <1>7, <1>8, <1>9, <1>10, <1>11, <1>12 DEF Next

\* A process queues a buffer that it has locked, so no other process has queued it.
LEMMA OnceStep ==
  CacheTypes /\ LocksHeld /\ RefcntCounts /\ BlocksUnique /\ DataFlags /\ DiskQueue /\ [Next]_vars
    => QueueOnce'
<1> SUFFICES ASSUME CacheTypes, LocksHeld, RefcntCounts, BlocksUnique, DataFlags, DiskQueue, [Next]_vars PROVE QueueOnce'
  OBVIOUS
<1> USE DEF cache, flags, io, DiskQueue, QueueOnce
<1>1. ASSUME NEW p \in Procs, NEW k \in Blocks, BgetHit(p, k) PROVE QueueOnce'
  BY <1>1 DEF BgetHit, Cached, Goto
<1>2. ASSUME NEW p \in Procs, NEW k \in Blocks, BgetMiss(p, k) PROVE QueueOnce'
  BY <1>2 DEF BgetMiss, Cached, Recyclable, Goto
<1>3. ASSUME NEW p \in Procs, LockBuf(p) PROVE QueueOnce'
  BY <1>3 DEF LockBuf, Goto
<1>4. ASSUME NEW p \in Procs, Iderw(p) PROVE QueueOnce'
  <2>1. queue' = Append(queue, buf[p]) /\ buf[p] \in Bufs /\ pc[p] = "rw"
    BY <1>4 DEF Iderw, LocksHeld, CacheTypes
  <2>2. ASSUME NEW k \in 1..Len(queue) PROVE queue[k] # buf[p]
    BY <2>1, QueuedIsLocked DEF Locked
  <2>3. ASSUME NEW k \in 1..Len(queue')
        PROVE  IF k = Len(queue) + 1 THEN queue'[k] = buf[p]
               ELSE k \in 1..Len(queue) /\ queue'[k] = queue[k]
    BY <2>1, AppendProperties DEF CacheTypes
  <2>q. QED
    BY <2>2, <2>3
<1>5. ASSUME NEW p \in Procs, IderwRetest(p) PROVE QueueOnce'
  BY <1>5 DEF IderwRetest, Goto
<1>6. ASSUME NEW p \in Procs, Kill(p) PROVE QueueOnce'
  BY <1>6 DEF Kill
<1>7. ASSUME NEW p \in Procs, BrelseUnlock(p) PROVE QueueOnce'
  BY <1>7 DEF BrelseUnlock, Goto
<1>8. ASSUME NEW p \in Procs, BrelsePut(p) PROVE QueueOnce'
  BY <1>8 DEF BrelsePut, Goto
<1>9. ASSUME NEW p \in Procs, NEW v \in Vals, Bwrite(p, v) PROVE QueueOnce'
  BY <1>9 DEF Bwrite, Goto
<1>10. ASSUME NEW p \in Procs, NEW v \in Vals, LogWrite(p, v) PROVE QueueOnce'
  BY <1>10 DEF LogWrite
<1>11. ASSUME Ideintr PROVE QueueOnce'
  <2>1. ASSUME NEW k \in 1..Len(queue')
        PROVE  k + 1 \in 1..Len(queue) /\ queue'[k] = queue[k + 1]
    BY <1>11, HeadIsServed DEF Ideintr
  <2>q. QED
    BY <2>1
<1>12. ASSUME UNCHANGED vars PROVE QueueOnce'
  BY <1>12 DEF vars
<1>q. QED
  BY <1>1, <1>2, <1>3, <1>4, <1>5, <1>6, <1>7, <1>8, <1>9, <1>10, <1>11, <1>12 DEF Next

\* Whoever sleeps in iderw, or tests again after a kill, is still to be served.
LEMMA WaitersStep ==
  CacheTypes /\ LocksHeld /\ RefcntCounts /\ BlocksUnique /\ DataFlags /\ DiskQueue /\ [Next]_vars
    => WaitersQueued'
<1> SUFFICES ASSUME CacheTypes, LocksHeld, RefcntCounts, BlocksUnique, DataFlags, DiskQueue, [Next]_vars PROVE WaitersQueued'
  OBVIOUS
<1>a. WaitersQueued
  BY DEF DiskQueue
<1> USE DEF cache, flags, io, CacheTypes, LocksHeld, Locked, WaitersQueued, Queued
<1>1. ASSUME NEW p \in Procs, NEW k \in Blocks, BgetHit(p, k) PROVE WaitersQueued'
  BY <1>1, <1>a DEF BgetHit, Cached, Goto
<1>2. ASSUME NEW p \in Procs, NEW k \in Blocks, BgetMiss(p, k) PROVE WaitersQueued'
  <2>1. PICK b \in Bufs : /\ \A o \in Procs : buf[o] # b
                          /\ valid' = [valid EXCEPT ![b] = FALSE]
                          /\ buf' = [buf EXCEPT ![p] = b]
    BY <1>2, MissTakesFree
  <2>2. pc[p] = "idle" /\ pc' = [pc EXCEPT ![p] = "lock"] /\ UNCHANGED <<queue, dirty, asleep>>
    BY <1>2 DEF BgetMiss, Goto
  <2>3. ASSUME NEW o \in Procs, o # p
        PROVE  /\ pc'[o] = pc[o] /\ buf'[o] = buf[o]
               /\ pc[o] = "io" => valid'[buf[o]] = valid[buf[o]]
    <3>1. pc'[o] = pc[o] /\ buf'[o] = buf[o]
      BY <2>1, <2>2, <2>3
    <3>2. pc[o] = "io" => buf[o] \in Bufs /\ buf[o] # b
      BY <2>1 DEF LocksHeld
    <3>3. \A c \in Bufs : c # b => valid'[c] = valid[c]
      BY <2>1
    <3>q. QED
      BY <3>1, <3>2, <3>3
  <2>4. ~asleep[p] /\ pc'[p] = "lock"
    BY <1>a, <2>2
  <2>q. QED
    BY <1>a, <2>2, <2>3, <2>4
<1>3. ASSUME NEW p \in Procs, LockBuf(p) PROVE WaitersQueued'
  BY <1>3, <1>a DEF LockBuf, Goto
<1>4. ASSUME NEW p \in Procs, Iderw(p) PROVE WaitersQueued'
  BY <1>4, <1>a DEF Iderw, Goto
<1>5. ASSUME NEW p \in Procs, IderwRetest(p) PROVE WaitersQueued'
  BY <1>5, <1>a DEF IderwRetest, Goto
<1>6. ASSUME NEW p \in Procs, Kill(p) PROVE WaitersQueued'
  BY <1>6, <1>a DEF Kill
<1>7. ASSUME NEW p \in Procs, BrelseUnlock(p) PROVE WaitersQueued'
  BY <1>7, <1>a DEF BrelseUnlock, Goto
<1>8. ASSUME NEW p \in Procs, BrelsePut(p) PROVE WaitersQueued'
  <2>1. /\ pc[p] = "put" /\ pc' = [pc EXCEPT ![p] = "idle"] /\ buf' = [buf EXCEPT ![p] = NoBuf]
        /\ UNCHANGED <<queue, valid, dirty, asleep>>
    BY <1>8 DEF BrelsePut, Goto
  <2>2. ~asleep[p]
    BY <1>a, <2>1
  <2>q. QED
    BY <1>a, <2>1, <2>2
<1>9. ASSUME NEW p \in Procs, NEW v \in Vals, Bwrite(p, v) PROVE WaitersQueued'
  BY <1>9, <1>a DEF Bwrite, Goto
<1>10. ASSUME NEW p \in Procs, NEW v \in Vals, LogWrite(p, v) PROVE WaitersQueued'
  BY <1>10, <1>a DEF LogWrite
<1>11. ASSUME Ideintr PROVE WaitersQueued'
  <2>1. /\ queue' = Tail(queue) /\ device # Idle /\ UNCHANGED <<pc, buf>>
        /\ valid' = [valid EXCEPT ![Head(queue)] = TRUE] /\ dirty' = [dirty EXCEPT ![Head(queue)] = FALSE]
        /\ asleep' = [p \in Procs |-> asleep[p] /\ buf[p] # Head(queue)]
    BY <1>11 DEF Ideintr
  <2>2. Head(queue) = queue[1] /\ Head(queue) \in Bufs
    BY <2>1, HeadIsServed
  <2>3. ASSUME NEW k \in 1..Len(queue), queue[k] # Head(queue)
        PROVE  \E l \in 1..Len(queue') : queue'[l] = queue[k]
    <3>1. k # 1
      BY <2>2, <2>3
    <3>2. k - 1 \in 1..Len(queue') /\ queue'[k - 1] = queue[(k - 1) + 1] /\ (k - 1) + 1 = k
      BY <2>1, <3>1, HeadIsServed
    <3>q. QED
      BY <3>1, <3>2
  <2>4. ASSUME NEW o \in Procs, asleep[o] \/ pc[o] = "io" PROVE pc[o] = "io" /\ buf[o] \in Bufs
    BY <1>a, <2>4 DEF LocksHeld
  <2>5. ASSUME NEW o \in Procs, pc[o] = "io", buf[o] = Head(queue)
        PROVE  ~asleep'[o] /\ valid'[buf[o]] /\ ~dirty'[buf[o]]
    <3>1. asleep'[o] = (asleep[o] /\ buf[o] # Head(queue))
      BY <2>1
    <3>2. valid'[Head(queue)] = TRUE /\ dirty'[Head(queue)] = FALSE
      BY <2>1, <2>2
    <3>q. QED
      BY <2>5, <3>1, <3>2
  <2>6. ASSUME NEW o \in Procs, pc[o] = "io", buf[o] # Head(queue)
        PROVE  /\ asleep'[o] = asleep[o]
               /\ valid'[buf[o]] = valid[buf[o]] /\ dirty'[buf[o]] = dirty[buf[o]]
    BY <2>1, <2>2, <2>4, <2>6
  <2>7. ASSUME NEW o \in Procs, pc[o] # "io" PROVE ~asleep'[o]
    BY <1>a, <2>1, <2>7
  <2>q. QED
    <3>1. ASSUME NEW o \in Procs
          PROVE  /\ asleep'[o] => pc[o] = "io" /\ \E k \in 1..Len(queue') : queue'[k] = buf[o]
                 /\ pc[o] = "io" => \/ \E k \in 1..Len(queue') : queue'[k] = buf[o]
                                    \/ valid'[buf[o]] /\ ~dirty'[buf[o]]
      <4>1. CASE pc[o] # "io"
        BY <2>7, <4>1
      <4>2. CASE pc[o] = "io" /\ buf[o] = Head(queue)
        BY <2>5, <4>2
      <4>3. CASE pc[o] = "io" /\ buf[o] # Head(queue)
        <5>1. /\ asleep[o] => \E k \in 1..Len(queue) : queue[k] = buf[o]
              /\ \/ \E k \in 1..Len(queue) : queue[k] = buf[o]
                 \/ valid[buf[o]] /\ ~dirty[buf[o]]
          BY <1>a, <4>3
        <5>2. (\E k \in 1..Len(queue) : queue[k] = buf[o])
                => \E l \in 1..Len(queue') : queue'[l] = buf[o]
          <6>1. ASSUME NEW k \in 1..Len(queue), queue[k] = buf[o]
                PROVE  \E l \in 1..Len(queue') : queue'[l] = buf[o]
            <7>1. queue[k] # Head(queue)
              BY <4>3, <6>1
            <7>2. \E l \in 1..Len(queue') : queue'[l] = queue[k]
              BY <2>3, <7>1
            <7>q. QED
              BY <6>1, <7>2
          <6>q. QED
            BY <6>1
        <5>3. /\ asleep'[o] = asleep[o]
              /\ valid'[buf[o]] = valid[buf[o]] /\ dirty'[buf[o]] = dirty[buf[o]]
          BY <2>6, <4>3
        <5>q. QED
          BY <4>3, <5>1, <5>2, <5>3
      <4>q. QED
        BY <4>1, <4>2, <4>3
    <3>q. QED
      BY <2>1, <3>1
<1>12. ASSUME UNCHANGED vars PROVE WaitersQueued'
  BY <1>12, <1>a DEF vars
<1>q. QED
  BY <1>1, <1>2, <1>3, <1>4, <1>5, <1>6, <1>7, <1>8, <1>9, <1>10, <1>11, <1>12 DEF Next

\* A reference is counted while a process is between bget and brelse.
LEMMA RefcntStep == CacheTypes /\ LocksHeld /\ RefcntCounts /\ [Next]_vars => RefcntCounts'
<1> SUFFICES ASSUME CacheTypes, LocksHeld, RefcntCounts, [Next]_vars PROVE RefcntCounts'
  OBVIOUS
<1> USE DEF cache, flags, io, CacheTypes, RefcntCounts
<1>1. ASSUME NEW p \in Procs, NEW k \in Blocks, BgetHit(p, k) PROVE RefcntCounts'
  <2>1. PICK c \in Bufs : refcnt' = [refcnt EXCEPT ![c] = refcnt[c] + 1] /\ buf' = [buf EXCEPT ![p] = c]
    BY <1>1 DEF BgetHit, Cached
  <2>2. buf[p] = NoBuf
    BY <1>1 DEF BgetHit, LocksHeld
  <2>3. ASSUME NEW b \in Bufs PROVE refcnt'[b] = Cardinality({o \in Procs : buf'[o] = b})
    <3>1. IsFiniteSet({o \in Procs : buf[o] = b})
      BY ProcsAssumption, FS_Subset
    <3>2. CASE b = c
      <4>1. {o \in Procs : buf'[o] = b} = {o \in Procs : buf[o] = b} \cup {p}
        BY <2>1, <3>2
      <4>2. p \notin {o \in Procs : buf[o] = b}
        BY <2>2 DEF NoBuf, Bufs
      <4>q. QED
        <5>1. Cardinality({o \in Procs : buf[o] = b} \cup {p}) = Cardinality({o \in Procs : buf[o] = b}) + 1
          BY <3>1, <4>2, FS_AddElement
        <5>2. refcnt'[b] = refcnt[b] + 1
          BY <2>1, <3>2
        <5>q. QED
          BY <4>1, <5>1, <5>2
    <3>3. CASE b # c
      <4>1. {o \in Procs : buf'[o] = b} = {o \in Procs : buf[o] = b}
        BY <2>1, <2>2, <3>3 DEF NoBuf, Bufs
      <4>q. QED
        BY <2>1, <3>3, <4>1
    <3>q. QED
      BY <3>2, <3>3
  <2>q. QED
    BY <2>3
<1>2. ASSUME NEW p \in Procs, NEW k \in Blocks, BgetMiss(p, k) PROVE RefcntCounts'
  <2>1. PICK c \in Bufs : /\ \A o \in Procs : buf[o] # c
                          /\ refcnt' = [refcnt EXCEPT ![c] = 1] /\ buf' = [buf EXCEPT ![p] = c]
    BY <1>2, MissTakesFree
  <2>2. buf[p] = NoBuf
    BY <1>2 DEF BgetMiss, LocksHeld
  <2>3. ASSUME NEW b \in Bufs PROVE refcnt'[b] = Cardinality({o \in Procs : buf'[o] = b})
    <3>1. CASE b = c
      <4>1. {o \in Procs : buf'[o] = b} = {p}
        BY <2>1, <3>1
      <4>q. QED
        BY <2>1, <3>1, <4>1, FS_Singleton
    <3>2. CASE b # c
      <4>1. {o \in Procs : buf'[o] = b} = {o \in Procs : buf[o] = b}
        BY <2>1, <2>2, <3>2 DEF NoBuf, Bufs
      <4>q. QED
        BY <2>1, <3>2, <4>1
    <3>q. QED
      BY <3>1, <3>2
  <2>q. QED
    BY <2>3
<1>3. ASSUME NEW p \in Procs, LockBuf(p) PROVE RefcntCounts'
  BY <1>3 DEF LockBuf, Goto
<1>4. ASSUME NEW p \in Procs, Iderw(p) PROVE RefcntCounts'
  BY <1>4 DEF Iderw, Goto
<1>5. ASSUME NEW p \in Procs, IderwRetest(p) PROVE RefcntCounts'
  BY <1>5 DEF IderwRetest, Goto
<1>6. ASSUME NEW p \in Procs, Kill(p) PROVE RefcntCounts'
  BY <1>6 DEF Kill
<1>7. ASSUME NEW p \in Procs, BrelseUnlock(p) PROVE RefcntCounts'
  BY <1>7 DEF BrelseUnlock, Goto
<1>8. ASSUME NEW p \in Procs, BrelsePut(p) PROVE RefcntCounts'
  <2> DEFINE c == buf[p]
  <2>1. /\ refcnt' = [refcnt EXCEPT ![c] = refcnt[c] - 1] /\ buf' = [buf EXCEPT ![p] = NoBuf]
        /\ c \in Bufs
    BY <1>8 DEF BrelsePut, LocksHeld
  <2>2. ASSUME NEW b \in Bufs PROVE refcnt'[b] = Cardinality({o \in Procs : buf'[o] = b})
    <3>1. IsFiniteSet({o \in Procs : buf[o] = b})
      BY ProcsAssumption, FS_Subset
    <3>2. CASE b = c
      <4>1. {o \in Procs : buf'[o] = b} = {o \in Procs : buf[o] = b} \ {p}
        BY <2>1, <3>2 DEF NoBuf, Bufs
      <4>2. p \in {o \in Procs : buf[o] = b}
        BY <3>2
      <4>q. QED
        <5>1. Cardinality({o \in Procs : buf[o] = b} \ {p}) = Cardinality({o \in Procs : buf[o] = b}) - 1
          BY <3>1, <4>2, FS_RemoveElement
        <5>2. refcnt'[b] = refcnt[b] - 1
          BY <2>1, <3>2
        <5>q. QED
          BY <4>1, <5>1, <5>2
    <3>3. CASE b # c
      <4>1. {o \in Procs : buf'[o] = b} = {o \in Procs : buf[o] = b}
        BY <2>1, <3>3 DEF NoBuf, Bufs
      <4>q. QED
        BY <2>1, <3>3, <4>1
    <3>q. QED
      BY <3>2, <3>3
  <2>q. QED
    BY <2>2
<1>9. ASSUME NEW p \in Procs, NEW v \in Vals, Bwrite(p, v) PROVE RefcntCounts'
  BY <1>9 DEF Bwrite, Goto
<1>10. ASSUME NEW p \in Procs, NEW v \in Vals, LogWrite(p, v) PROVE RefcntCounts'
  BY <1>10 DEF LogWrite
<1>11. ASSUME Ideintr PROVE RefcntCounts'
  BY <1>11 DEF Ideintr
<1>12. ASSUME UNCHANGED vars PROVE RefcntCounts'
  BY <1>12 DEF vars
<1>q. QED
  BY <1>1, <1>2, <1>3, <1>4, <1>5, <1>6, <1>7, <1>8, <1>9, <1>10, <1>11, <1>12 DEF Next

-----------------------------------------------------------------------------

\* CacheInv holds at first and is preserved by every step.
LEMMA InitInv == Init => CacheInv
<1> SUFFICES ASSUME Init PROVE CacheInv
  OBVIOUS
<1>1. CacheTypes
  BY DEF Init, CacheTypes, PC
<1>2. LocksHeld
  BY DEF Init, LocksHeld, Locked
<1>3. BlocksUnique
  BY DEF Init, BlocksUnique
<1>4. RefcntCounts
  <2>1. ASSUME NEW b \in Bufs PROVE {p \in Procs : buf[p] = b} = {}
    BY DEF Init, NoBuf, Bufs
  <2>q. QED
    BY <2>1, FS_EmptySet DEF Init, RefcntCounts
<1>5. DiskQueue
  BY DEF Init, DiskQueue, DeviceWorks, QueueLocked, QueueOnce, WaitersQueued
<1>6. DataFlags
  BY DEF Init, DataFlags
<1>q. QED
  BY <1>1, <1>2, <1>3, <1>4, <1>5, <1>6 DEF CacheInv

LEMMA StepInv == CacheInv /\ [Next]_vars => CacheInv'
<1> SUFFICES ASSUME CacheInv, [Next]_vars PROVE CacheInv'
  OBVIOUS
<1>1. CacheTypes /\ LocksHeld /\ BlocksUnique /\ RefcntCounts /\ DiskQueue /\ DataFlags
  BY DEF CacheInv
<1>2. CacheTypes' /\ LocksHeld' /\ BlocksUnique' /\ RefcntCounts'
  BY <1>1, TypeStep, LocksStep, BlocksStep, RefcntStep
<1>3. DeviceWorks' /\ QueueLocked' /\ QueueOnce' /\ WaitersQueued' /\ DataFlags'
  BY <1>1, DeviceStep, LockedStep, OnceStep, WaitersStep, DataStep
<1>q. QED
  BY <1>2, <1>3 DEF CacheInv, DiskQueue

\* The checked property is part of the invariant.
LEMMA InvIsServed == CacheInv => QueueIsServed
<1> SUFFICES ASSUME CacheInv PROVE QueueIsServed
  OBVIOUS
<1>1. CacheTypes /\ LocksHeld /\ DiskQueue
  BY DEF CacheInv
<1>2. device = (IF queue = <<>> THEN Idle ELSE Command(Head(queue)))
  BY <1>1 DEF DiskQueue, DeviceWorks
<1>3. ASSUME NEW k \in 1..Len(queue)
      PROVE  \E p \in Procs : buf[p] = queue[k] /\ pc[p] = "io" /\ holder[buf[p]] = p
  BY <1>1, QueuedIsLocked
<1>4. ASSUME NEW p \in Procs, asleep[p] PROVE buf[p] \in ToSet(queue)
  <2>1. PICK k \in 1..Len(queue) : queue[k] = buf[p]
    BY <1>1, <1>4 DEF DiskQueue, WaitersQueued, Queued
  <2>2. k \in DOMAIN queue
    BY <1>1 DEF CacheTypes
  <2>q. QED
    BY <2>1, <2>2 DEF ToSet
<1>q. QED
  BY <1>2, <1>3, <1>4 DEF QueueIsServed

-----------------------------------------------------------------------------
(* The blocks as the users of the cache see them. *)

\* CHOOSE from a set of one.
LEMMA OnlyChoice ==
  ASSUME NEW f, NEW k, NEW b \in Bufs, f[b] = k, \A c \in Bufs : f[c] = k => c = b
  PROVE  {c \in Bufs : f[c] = k} # {} /\ (CHOOSE c \in {x \in Bufs : f[x] = k} : TRUE) = b
  OBVIOUS

\* The contents and the owner of block k, by the buffer that has it, if any.
Sees(k, mem, owner) ==
  /\ \A b \in Bufs : blockno[b] = k =>
       /\ owner = holder[b]
       /\ mem = IF valid[b] \/ dirty[b] THEN data[b] ELSE disk[k]
  /\ (\A b \in Bufs : blockno[b] # k) => mem = disk[k] /\ owner = NoProc

\* Sees is right of the refinement mapping, before a step and after it.
LEMMA MemValue == ASSUME BlocksUnique, NEW k \in Blocks PROVE Sees(k, Mem[k], Owner[k])
<1>1. ASSUME NEW b \in Bufs, blockno[b] = k PROVE Cached(k) # {} /\ TheBuf(k) = b
  <2>1. \A c \in Bufs : blockno[c] = k => c = b
    BY <1>1, NoBlockAssumption DEF BlocksUnique
  <2>q. QED
    BY <1>1, <2>1, OnlyChoice DEF Cached, TheBuf
<1>2. ASSUME \A b \in Bufs : blockno[b] # k PROVE Cached(k) = {}
  BY <1>2 DEF Cached
<1>q. QED
  BY <1>1, <1>2 DEF Sees, Mem, Owner

LEMMA MemValueNext ==
  ASSUME BlocksUnique', NEW k \in Blocks
  PROVE  /\ \A b \in Bufs : blockno'[b] = k =>
              /\ Owner'[k] = holder'[b]
              /\ Mem'[k] = IF valid'[b] \/ dirty'[b] THEN data'[b] ELSE disk'[k]
         /\ (\A b \in Bufs : blockno'[b] # k) => Mem'[k] = disk'[k] /\ Owner'[k] = NoProc
<1>1. ASSUME NEW b \in Bufs, blockno'[b] = k PROVE Cached(k)' # {} /\ TheBuf(k)' = b
  <2>1. \A c \in Bufs : blockno'[c] = k => c = b
    BY <1>1, NoBlockAssumption DEF BlocksUnique
  <2>q. QED
    BY <1>1, <2>1, OnlyChoice DEF Cached, TheBuf
<1>2. ASSUME \A b \in Bufs : blockno'[b] # k PROVE Cached(k)' = {}
  BY <1>2 DEF Cached
<1>q. QED
  BY <1>1, <1>2 DEF Mem, Owner

\* By their definitions.
LEMMA MemIsFunction == Mem = [k \in Blocks |-> Mem[k]] /\ Owner = [k \in Blocks |-> Owner[k]]
  BY DEF Mem, Owner

\* What two states agree on if all blocks look the same in them.
LEMMA SameBlocks ==
  ASSUME \A k \in Blocks : Mem'[k] = Mem[k] /\ Owner'[k] = Owner[k]
  PROVE  UNCHANGED <<Mem, Owner>>
  BY DEF Mem, Owner

\* A step that touches no block is no step to the users.
LEMMA SilentSteps ==
  ASSUME UNCHANGED <<blockno, valid, dirty, data, disk, holder>>
  PROVE  UNCHANGED <<Mem, Owner>>
  BY DEF Mem, Owner, Cached, TheBuf

\* The recycled buffer was clean: its block is on the disk as it was in memory.
LEMMA MissIsSilent ==
  ASSUME CacheInv, BlocksUnique', NEW p \in Procs, NEW k \in Blocks, BgetMiss(p, k)
  PROVE  UNCHANGED <<Mem, Owner>>
<1> USE DEF CacheInv
<1>1. PICK b \in Bufs : /\ ~dirty[b] /\ \A o \in Procs : buf[o] # b
                        /\ \A c \in Bufs : blockno[c] # k
                        /\ blockno' = [blockno EXCEPT ![b] = k]
                        /\ valid' = [valid EXCEPT ![b] = FALSE]
  BY MissTakesFree
<1>2. UNCHANGED <<dirty, data, disk, holder>>
  BY DEF BgetMiss, flags, io
<1>3. holder[b] = NoProc
  BY <1>1 DEF LocksHeld, CacheTypes
<1>4. ASSUME NEW j \in Blocks PROVE Mem'[j] = Mem[j] /\ Owner'[j] = Owner[j]
  <2>1. CASE j = k
    <3>1. Mem[j] = disk[j] /\ Owner[j] = NoProc
      BY <1>1, <2>1, MemValue DEF Sees
    <3>2. blockno'[b] = j /\ ~valid'[b] /\ ~dirty'[b]
      BY <1>1, <1>2, <2>1 DEF CacheTypes
    <3>q. QED
      BY <1>2, <1>3, <3>1, <3>2, MemValueNext
  <2>2. CASE j # k /\ blockno[b] = j
    <3>1. Owner[j] = NoProc /\ Mem[j] = disk[j]
      BY <1>1, <1>3, <2>2, MemValue DEF Sees, DataFlags
    <3>2. \A c \in Bufs : blockno'[c] # j
      BY <1>1, <2>2, NoBlockAssumption DEF CacheTypes, BlocksUnique
    <3>q. QED
      BY <1>2, <3>1, <3>2, MemValueNext
  <2>3. CASE j # k /\ blockno[b] # j
    <3>1. CASE \A c \in Bufs : blockno[c] # j
      <4>1. \A c \in Bufs : blockno'[c] # j
        BY <1>1, <2>3, <3>1 DEF CacheTypes
      <4>q. QED
        BY <1>2, <3>1, <4>1, MemValue, MemValueNext DEF Sees
    <3>2. ASSUME NEW c \in Bufs, blockno[c] = j PROVE Mem'[j] = Mem[j] /\ Owner'[j] = Owner[j]
      <4>1. c # b /\ blockno'[c] = j /\ valid'[c] = valid[c]
        BY <1>1, <2>3, <3>2 DEF CacheTypes
      <4>q. QED
        BY <1>2, <3>2, <4>1, MemValue, MemValueNext DEF Sees
    <3>q. QED
      BY <3>1, <3>2
  <2>q. QED
    BY <2>1, <2>2, <2>3
<1>q. QED
  BY <1>4, SameBlocks

\* The disk and the buffer it has served agree; nobody sees the difference.
LEMMA InterruptIsSilent ==
  ASSUME CacheInv, BlocksUnique', Ideintr
  PROVE  UNCHANGED <<Mem, Owner>>
<1> USE DEF CacheInv
<1> DEFINE h == Head(queue)
<1>1. h \in Bufs /\ device = Command(h) /\ blockno[h] \in Blocks /\ (~valid[h] \/ dirty[h])
  BY HeadIsServed, HeadHasBlock DEF Ideintr, DiskQueue, QueueLocked
<1>2. /\ valid' = [valid EXCEPT ![h] = TRUE] /\ dirty' = [dirty EXCEPT ![h] = FALSE]
      /\ UNCHANGED <<blockno, holder>>
  BY DEF Ideintr, cache
<1>3. \/ dirty[h] /\ disk' = [disk EXCEPT ![blockno[h]] = data[h]] /\ data' = data
      \/ ~dirty[h] /\ data' = [data EXCEPT ![h] = disk[blockno[h]]] /\ disk' = disk
  <2>1. CASE dirty[h]
    BY <1>1, <2>1 DEF Ideintr, Command
  <2>2. CASE ~dirty[h]
    BY <1>1, <2>2 DEF Ideintr, Command
  <2>q. QED
    BY <2>1, <2>2
<1> HIDE DEF h
<1>4. ASSUME NEW j \in Blocks PROVE Mem'[j] = Mem[j] /\ Owner'[j] = Owner[j]
  <2>1. CASE \A c \in Bufs : blockno[c] # j
    <3>1. disk'[j] = disk[j]
      BY <1>1, <1>3, <2>1 DEF CacheTypes
    <3>q. QED
      BY <1>2, <2>1, <3>1, MemValue, MemValueNext DEF Sees
  <2>2. CASE blockno[h] = j
    <3>1. valid'[h] /\ data'[h] = IF valid[h] \/ dirty[h] THEN data[h] ELSE disk[j]
      BY <1>1, <1>2, <1>3, <2>2 DEF CacheTypes, DataFlags
    <3>2. /\ Owner[j] = holder[h] /\ Owner'[j] = holder[h] /\ Mem'[j] = data'[h]
          /\ Mem[j] = IF valid[h] \/ dirty[h] THEN data[h] ELSE disk[j]
      BY <1>1, <1>2, <2>2, <3>1, MemValue, MemValueNext DEF Sees
    <3>q. QED
      BY <3>1, <3>2
  <2>3. ASSUME NEW c \in Bufs, blockno[c] = j, c # h PROVE Mem'[j] = Mem[j] /\ Owner'[j] = Owner[j]
    <3>1. blockno[h] # j
      BY <1>1, <2>3, NoBlockAssumption DEF BlocksUnique, CacheTypes
    <3>2. /\ valid'[c] = valid[c] /\ dirty'[c] = dirty[c] /\ data'[c] = data[c] /\ disk'[j] = disk[j]
      BY <1>1, <1>2, <1>3, <2>3, <3>1 DEF CacheTypes
    <3>q. QED
      BY <1>2, <2>3, <3>2, MemValue, MemValueNext DEF Sees
  <2>q. QED
    BY <2>1, <2>2, <2>3
<1>q. QED
  BY <1>4, SameBlocks

\* acquiresleep and releasesleep hand over the block, whatever buffer it is in.
LEMMA LockAcquires ==
  ASSUME CacheInv, BlocksUnique', NEW p \in Procs, LockBuf(p)
  PROVE  B!Acquire(p, blockno[buf[p]]) /\ blockno[buf[p]] \in Blocks
<1> USE DEF CacheInv
<1> DEFINE b == buf[p]
           k == blockno[b]
<1>1. /\ b \in Bufs /\ k \in Blocks /\ holder[b] = NoProc
      /\ holder' = [holder EXCEPT ![b] = p]
      /\ UNCHANGED <<blockno, valid, dirty, data, disk>>
  BY DEF LockBuf, cache, flags, io, LocksHeld, BlocksUnique, CacheTypes
<1>2. Mem' = Mem
  BY <1>1 DEF Mem, Cached, TheBuf
<1> HIDE DEF b, k
<1>3. Owner[k] = NoProc
  BY <1>1, MemValue DEF Sees, k
<1>4. ASSUME NEW j \in Blocks PROVE Owner'[j] = IF j = k THEN p ELSE Owner[j]
  <2>1. CASE j = k
    BY <1>1, <2>1, MemValueNext DEF k, CacheTypes
  <2>2. ASSUME NEW c \in Bufs, blockno[c] = j, j # k PROVE Owner'[j] = Owner[j]
    <3>1. c # b
      BY <2>2 DEF k
    <3>q. QED
      BY <1>1, <2>2, <3>1, MemValue, MemValueNext DEF Sees, CacheTypes
  <2>3. CASE \A c \in Bufs : blockno[c] # j
    BY <1>1, <2>3, MemValue, MemValueNext DEF Sees, k
  <2>q. QED
    BY <2>1, <2>2, <2>3
<1>5. Owner' = [Owner EXCEPT ![k] = p]
  BY <1>4 DEF Owner
<1>q. QED
  BY <1>1, <1>2, <1>3, <1>5 DEF B!Acquire, b, k

\* releasesleep ends what acquiresleep began.
LEMMA UnlockReleases ==
  ASSUME CacheInv, BlocksUnique', NEW p \in Procs, BrelseUnlock(p)
  PROVE  B!Release(p, blockno[buf[p]]) /\ blockno[buf[p]] \in Blocks
<1> USE DEF CacheInv
<1> DEFINE b == buf[p]
           k == blockno[b]
<1>1. /\ b \in Bufs /\ k \in Blocks /\ holder[b] = p
      /\ holder' = [holder EXCEPT ![b] = NoProc]
      /\ UNCHANGED <<blockno, valid, dirty, data, disk>>
  BY DEF BrelseUnlock, cache, flags, io, LocksHeld, Locked, BlocksUnique, CacheTypes
<1>2. Mem' = Mem
  BY <1>1 DEF Mem, Cached, TheBuf
<1> HIDE DEF b, k
<1>3. Owner[k] = p
  BY <1>1, MemValue DEF Sees, k
<1>4. ASSUME NEW j \in Blocks PROVE Owner'[j] = IF j = k THEN NoProc ELSE Owner[j]
  <2>1. CASE j = k
    BY <1>1, <2>1, MemValueNext DEF k, CacheTypes
  <2>2. ASSUME NEW c \in Bufs, blockno[c] = j, j # k PROVE Owner'[j] = Owner[j]
    <3>1. c # b
      BY <2>2 DEF k
    <3>q. QED
      BY <1>1, <2>2, <3>1, MemValue, MemValueNext DEF Sees, CacheTypes
  <2>3. CASE \A c \in Bufs : blockno[c] # j
    BY <1>1, <2>3, MemValue, MemValueNext DEF Sees, k
  <2>q. QED
    BY <2>1, <2>2, <2>3
<1>5. Owner' = [Owner EXCEPT ![k] = NoProc]
  BY <1>4 DEF Owner
<1>q. QED
  BY <1>1, <1>2, <1>3, <1>5 DEF B!Release, b, k

\* Who changes a block holds it.
LEMMA UpdateWrites ==
  ASSUME CacheInv, BlocksUnique', NEW p \in Procs, NEW v \in Vals, Bwrite(p, v) \/ LogWrite(p, v)
  PROVE  B!Write(p, blockno[buf[p]], v) /\ blockno[buf[p]] \in Blocks
<1> USE DEF CacheInv
<1> DEFINE b == buf[p]
           k == blockno[b]
<1>1. /\ b \in Bufs /\ k \in Blocks /\ holder[b] = p
      /\ data' = [data EXCEPT ![b] = v] /\ dirty' = [dirty EXCEPT ![b] = TRUE]
      /\ UNCHANGED <<blockno, valid, disk, holder>>
  BY DEF Bwrite, LogWrite, cache, io, LocksHeld, Locked, BlocksUnique, CacheTypes
<1>2. Owner' = Owner
  BY <1>1 DEF Owner, Cached, TheBuf
<1> HIDE DEF b, k
<1>3. Owner[k] = p
  BY <1>1, MemValue DEF Sees, k
<1>4. ASSUME NEW j \in Blocks PROVE Mem'[j] = IF j = k THEN v ELSE Mem[j]
  <2>1. CASE j = k
    <3>1. dirty'[b] /\ data'[b] = v /\ blockno'[b] = j
      BY <1>1, <2>1 DEF k, CacheTypes
    <3>q. QED
      <4>1. Mem'[j] = IF valid'[b] \/ dirty'[b] THEN data'[b] ELSE disk'[j]
        BY <1>1, <3>1, MemValueNext
      <4>q. QED
        BY <2>1, <3>1, <4>1
  <2>2. ASSUME NEW c \in Bufs, blockno[c] = j, j # k PROVE Mem'[j] = Mem[j]
    <3>1. c # b
      BY <2>2 DEF k
    <3>2. dirty'[c] = dirty[c] /\ data'[c] = data[c]
      BY <1>1, <3>1 DEF CacheTypes
    <3>3. Mem[j] = IF valid[c] \/ dirty[c] THEN data[c] ELSE disk[j]
      BY <2>2, MemValue DEF Sees
    <3>4. Mem'[j] = IF valid'[c] \/ dirty'[c] THEN data'[c] ELSE disk'[j]
      BY <1>1, <2>2, MemValueNext
    <3>q. QED
      BY <1>1, <3>2, <3>3, <3>4
  <2>3. CASE \A c \in Bufs : blockno[c] # j
    BY <1>1, <2>3, MemValue, MemValueNext DEF Sees, k
  <2>q. QED
    BY <2>1, <2>2, <2>3
<1>5. Mem' = [Mem EXCEPT ![k] = v]
  BY <1>4 DEF Mem
<1>q. QED
  BY <1>1, <1>2, <1>3, <1>5 DEF B!Write, b, k

-----------------------------------------------------------------------------
\* An empty cache shows the disk, and a step of the cache is one of the store or none.
LEMMA InitStore == Init => B!Init
<1> SUFFICES ASSUME Init PROVE B!Init
  OBVIOUS
<1>1. BlocksUnique /\ \A b \in Bufs : blockno[b] = NoBlock
  BY InitInv DEF CacheInv, Init
<1>2. ASSUME NEW k \in Blocks PROVE Mem[k] = disk[k] /\ Owner[k] = NoProc
  <2>1. \A b \in Bufs : blockno[b] # k
    BY <1>1, NoBlockAssumption
  <2>q. QED
    BY <1>1, <2>1, MemValue DEF Sees
<1>3. Mem = disk /\ Owner = [k \in Blocks |-> NoProc]
  BY <1>2, MemIsFunction DEF Init
<1>q. QED
  BY <1>3 DEF Init, B!Init

LEMMA StepStore == CacheInv /\ CacheInv' /\ [Next]_vars => [B!Next]_<<Mem, Owner>>
<1> SUFFICES ASSUME CacheInv, CacheInv', [Next]_vars PROVE [B!Next]_<<Mem, Owner>>
  OBVIOUS
<1>1. BlocksUnique'
  BY DEF CacheInv
<1>2. ASSUME NEW p \in Procs, NEW k \in Blocks, BgetMiss(p, k) PROVE UNCHANGED <<Mem, Owner>>
  BY <1>1, <1>2, MissIsSilent
<1>3. ASSUME NEW p \in Procs, LockBuf(p) PROVE B!Next
  BY <1>1, <1>3, LockAcquires DEF B!Next
<1>4. ASSUME NEW p \in Procs, BrelseUnlock(p) PROVE B!Next
  BY <1>1, <1>4, UnlockReleases DEF B!Next
<1>5. ASSUME NEW p \in Procs, NEW v \in Vals, Bwrite(p, v) \/ LogWrite(p, v) PROVE B!Next
  BY <1>1, <1>5, UpdateWrites DEF B!Next
<1>6. ASSUME Ideintr PROVE UNCHANGED <<Mem, Owner>>
  BY <1>1, <1>6, InterruptIsSilent
<1>7. ASSUME NEW p \in Procs, NEW k \in Blocks, BgetHit(p, k) PROVE UNCHANGED <<Mem, Owner>>
  BY <1>7, SilentSteps DEF BgetHit, flags, io
<1>8. ASSUME NEW p \in Procs, Iderw(p) \/ IderwRetest(p) \/ Kill(p) \/ BrelsePut(p)
      PROVE  UNCHANGED <<Mem, Owner>>
  BY <1>8, SilentSteps DEF Iderw, IderwRetest, Kill, BrelsePut, cache, flags, io
<1>9. ASSUME UNCHANGED vars PROVE UNCHANGED <<Mem, Owner>>
  BY <1>9, SilentSteps DEF vars, cache, flags, io
<1>q. QED
  BY <1>2, <1>3, <1>4, <1>5, <1>6, <1>7, <1>8, <1>9 DEF Next

-----------------------------------------------------------------------------
\* For any processes, blocks and buffers, refcnt is the number of processes
\* between bget and brelse.
THEOREM RefcntsAreExact == Spec => []RefcntCounts
<1>1. CacheInv => RefcntCounts
  BY DEF CacheInv
<1>q. QED
  BY <1>1, InitInv, StepInv, PTL DEF Spec

\* The device works on the head of the queue, and whoever sleeps in iderw is in it.
THEOREM DiskServesQueue == Spec => []QueueIsServed
  BY InitInv, StepInv, InvIsServed, PTL DEF Spec

\* However buffers are recycled, pinned and written back, a user of the cache
\* sees the block as it was last written.
THEOREM CacheIsStore == Spec => ImplementsBlockStore
  BY InitInv, StepInv, InitStore, StepStore, PTL DEF Spec, B!Spec, ImplementsBlockStore
=============================================================================
