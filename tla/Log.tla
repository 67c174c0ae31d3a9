-------------------------------- MODULE Log --------------------------------
(***************************************************************************)
(* The xv6 logging layer: log.c, with the buffer cache (bio.c) as far as   *)
(* the log depends on it, and the disk across crashes.                     *)
(*                                                                         *)
(* A critical section under log.lock is one action; everything log.c does  *)
(* outside the lock (the checks at the top of log_write, each disk write   *)
(* of commit) is an action of its own, with a crash possible in between.   *)
(* A sector write is atomic: the disk holds the old sector or the new one. *)
(***************************************************************************)
EXTENDS Integers, Sequences, FiniteSets

CONSTANTS Procs,        \* processes that make file-system calls
          Blocks,       \* home blocks that the calls update
          Vals,         \* contents of a block
          LogSize,      \* LOGSIZE
          NLog,         \* sb.nlog, set by mkfs
          MaxOpBlocks,  \* MAXOPBLOCKS, what begin_op reserves for a call
          OpMax,        \* distinct blocks a call really logs, at most
          NoVal,        \* the block is not in the cache
          NoBlock       \* the process holds no buffer

ASSUME LogSizeAssumption == LogSize \in Nat /\ NLog \in Nat
ASSUME OpAssumption == MaxOpBlocks \in Nat \ {0} /\ OpMax \in 1..MaxOpBlocks
ASSUME NoneAssumption == NoVal \notin Vals /\ NoBlock \notin Blocks
ASSUME ProcsAssumption == IsFiniteSet(Procs)

VARIABLES
  home,         \* disk: the blocks at their home locations
  slot,         \* disk: slot[i] is the log block at log.start + i
  head,         \* disk: the block numbers in the log's header sector
  cache,        \* bcache: the data of each cached block, NoVal if not cached
  dirty,        \* bcache: the blocks whose buffer has B_DIRTY
  lh,           \* log.lh: block numbers logged since the last commit
  outstanding,  \* log.outstanding
  committing,   \* log.committing
  phase,        \* where commit() or the boot-time recovery is
  tail,         \* loop index of write_log and install_trans, 0 outside the loops
  pc,           \* where each process is in its file-system call
  buf,          \* the buffer a process has locked inside log_write
  wrote        \* distinct blocks the process's call has logged so far

disk == <<home, slot, head>>
bcache == <<cache, dirty>>
log == <<lh, outstanding, committing>>
loop == <<phase, tail>>
procs == <<pc, buf, wrote>>
vars == <<disk, bcache, log, loop, procs>>

PC == {"user", "begin_op", "asleep", "in_op", "log_write", "commit", "panicked"}
BootPhase == {"read_head", "recover_install", "recover_clear"}
CommitPhase == {"start", "write_log", "write_head", "install", "clear", "finish"}
Phase == {"none"} \cup BootPhase \cup CommitPhase

Booting == phase \in BootPhase

\* b is one of the blocks recorded in header h.
Logged(h, b) == \E i \in 1..Len(h) : h[i] = b

\* Data a bread of b returns.
Contents(b) == IF cache[b] = NoVal THEN home[b] ELSE cache[b]

\* Some process holds b's buffer (its refcnt is positive).
Held(b) == \E p \in Procs : buf[p] = b

Init == /\ home \in [Blocks -> Vals]
        /\ \E zero \in Vals : slot = [i \in 1..LogSize |-> zero]  \* mkfs zeroes it
        /\ head = << >>
        /\ cache = [b \in Blocks |-> NoVal]
        /\ dirty = {}
        /\ lh = << >>
        /\ outstanding = 0
        /\ committing = FALSE
        /\ phase = "read_head"
        /\ tail = 0
        /\ pc = [p \in Procs |-> "user"]
        /\ buf = [p \in Procs |-> NoBlock]
        /\ wrote = [p \in Procs |-> {}]

-----------------------------------------------------------------------------
(* begin_op *)

\* Operators whose name ends in _wrong are plausible mistakes in the operator
\* that follows them; PROJECT.json says which property catches each of them.
NoRoom_wrong == Len(lh) + outstanding * MaxOpBlocks > LogSize

\* The reservation test of begin_op: this call might exhaust the log.
NoRoom == Len(lh) + (outstanding + 1) * MaxOpBlocks > LogSize

MustWait_wrong == NoRoom

MustWait == committing \/ NoRoom

\* A system call that uses the file system reaches begin_op.
EnterOp(p) == /\ ~Booting
              /\ pc[p] = "user"
              /\ pc' = [pc EXCEPT ![p] = "begin_op"]
              /\ UNCHANGED <<disk, bcache, log, loop, buf, wrote>>

\* One turn of begin_op's loop: sleep on &log, or join the transaction.
BeginOp(p) ==
  /\ pc[p] = "begin_op"
  /\ \/ /\ MustWait
        /\ pc' = [pc EXCEPT ![p] = "asleep"]
        /\ UNCHANGED outstanding
     \/ /\ ~MustWait
        /\ outstanding' = outstanding + 1
        /\ pc' = [pc EXCEPT ![p] = "in_op"]
  /\ UNCHANGED <<disk, bcache, lh, committing, loop, buf, wrote>>

Woken_wrong == pc

\* wakeup(&log): every sleeper goes round begin_op's loop again.
Woken == [q \in Procs |-> IF pc[q] = "asleep" THEN "begin_op" ELSE pc[q]]

\* kill() makes a sleeper runnable; begin_op does not look at p->killed.
KillSleeper(p) == /\ pc[p] = "asleep"
                  /\ pc' = [pc EXCEPT ![p] = "begin_op"]
                  /\ UNCHANGED <<disk, bcache, log, loop, buf, wrote>>

-----------------------------------------------------------------------------
(* log_write, and the cache around it *)

TooBig == Len(lh) >= LogSize \/ Len(lh) >= NLog - 1

\* The caller has bread b, modifies it and calls log_write, which makes its
\* two checks before it takes log.lock.
LogWrite(p, b, v) ==
  /\ pc[p] = "in_op"
  /\ ~Held(b)
  /\ Cardinality(wrote[p] \cup {b}) <= OpMax
  /\ cache' = [cache EXCEPT ![b] = v]
  /\ buf' = [buf EXCEPT ![p] = b]
  /\ \/ /\ TooBig \/ outstanding < 1
        /\ pc' = [pc EXCEPT ![p] = "panicked"]
     \/ /\ ~TooBig /\ outstanding >= 1
        /\ pc' = [pc EXCEPT ![p] = "log_write"]
  /\ UNCHANGED <<disk, dirty, log, loop, wrote>>

\* log.lh after block b has been recorded, or absorbed.
Recorded(b) == IF Logged(lh, b) THEN lh ELSE Append(lh, b)

\* log_write's critical section, then brelse by the caller.
LogAppend(p) ==
  /\ pc[p] = "log_write"
  /\ lh' = Recorded(buf[p])
  /\ dirty' = dirty \cup {buf[p]}
  /\ pc' = [pc EXCEPT ![p] = "in_op"]
  /\ buf' = [buf EXCEPT ![p] = NoBlock]
  /\ wrote' = [wrote EXCEPT ![p] = @ \cup {buf[p]}]
  /\ UNCHANGED <<disk, cache, outstanding, committing, loop>>

\* Any process reads b through the cache.
Bread(b) == /\ ~Booting
            /\ cache[b] = NoVal
            /\ cache' = [cache EXCEPT ![b] = home[b]]
            /\ UNCHANGED <<disk, dirty, log, loop, procs>>

\* What bget demands of a buffer that it recycles for another block.
Recyclable(b) == ~Held(b) /\ b \notin dirty

Evict(b) == /\ cache[b] # NoVal
            /\ Recyclable(b)
            /\ cache' = [cache EXCEPT ![b] = NoVal]
            /\ UNCHANGED <<disk, dirty, log, loop, procs>>

-----------------------------------------------------------------------------
(* end_op and commit *)

\* A panic here would leave log.lock held; CommitAlone shows it unreachable.
EndOp(p) ==
  /\ pc[p] = "in_op"
  /\ outstanding' = outstanding - 1
  /\ wrote' = [wrote EXCEPT ![p] = {}]
  /\ \/ /\ committing
        /\ pc' = [pc EXCEPT ![p] = "panicked"]
        /\ UNCHANGED <<committing, phase>>
     \/ /\ ~committing
        /\ outstanding' = 0
        /\ committing' = TRUE
        /\ phase' = "start"
        /\ pc' = [pc EXCEPT ![p] = "commit"]
     \/ /\ ~committing
        /\ outstanding' # 0
        /\ pc' = [Woken EXCEPT ![p] = "user"]
        /\ UNCHANGED <<committing, phase>>
  /\ UNCHANGED <<disk, bcache, lh, tail, buf>>

StartCommit_wrong(p) ==
  /\ pc[p] = "commit" /\ phase = "start"
  /\ phase' = IF Len(lh) > 0 THEN "write_head" ELSE "finish"
  /\ UNCHANGED <<disk, bcache, log, tail, procs>>

\* commit() does nothing for a transaction without writes.
StartCommit(p) ==
  /\ pc[p] = "commit" /\ phase = "start"
  /\ phase' = IF Len(lh) > 0 THEN "write_log" ELSE "finish"
  /\ UNCHANGED <<disk, bcache, log, tail, procs>>

\* write_log: one turn of its loop, or its end.
WriteLog(p) ==
  /\ pc[p] = "commit" /\ phase = "write_log"
  /\ \/ /\ tail < Len(lh)
        /\ slot' = [slot EXCEPT ![tail + 1] = Contents(lh[tail + 1])]
        /\ cache' = [cache EXCEPT ![lh[tail + 1]] = Contents(lh[tail + 1])]
        /\ tail' = tail + 1
        /\ UNCHANGED phase
     \/ /\ tail >= Len(lh)
        /\ phase' = "write_head"
        /\ tail' = 0
        /\ UNCHANGED <<slot, cache>>
  /\ UNCHANGED <<home, head, dirty, log, procs>>

\* write_head with log.lh.n > 0: the real commit.
WriteHead(p) ==
  /\ pc[p] = "commit" /\ phase = "write_head"
  /\ head' = lh
  /\ phase' = "install"
  /\ UNCHANGED <<home, slot, bcache, log, tail, procs>>

\* The body of install_trans's loop: copy slot i to its home block.
InstallBlock(i) ==
  /\ home' = [home EXCEPT ![lh[i]] = slot[i]]
  /\ cache' = [cache EXCEPT ![lh[i]] = slot[i]]
  /\ dirty' = dirty \ {lh[i]}

Install(p) ==
  /\ pc[p] = "commit" /\ phase = "install"
  /\ \/ /\ tail < Len(lh)
        /\ InstallBlock(tail + 1)
        /\ tail' = tail + 1
        /\ UNCHANGED phase
     \/ /\ tail >= Len(lh)
        /\ phase' = "clear"
        /\ tail' = 0
        /\ UNCHANGED <<home, bcache>>
  /\ UNCHANGED <<slot, head, log, procs>>

\* log.lh.n = 0; write_head(): erase the transaction from the log.
ClearLog(p) ==
  /\ pc[p] = "commit" /\ phase = "clear"
  /\ lh' = << >>
  /\ head' = << >>
  /\ phase' = "finish"
  /\ UNCHANGED <<home, slot, bcache, outstanding, committing, tail, procs>>

\* end_op's second critical section.
FinishCommit(p) ==
  /\ pc[p] = "commit" /\ phase = "finish"
  /\ committing' = FALSE
  /\ phase' = "none"
  /\ pc' = [Woken EXCEPT ![p] = "user"]
  /\ UNCHANGED <<disk, bcache, lh, outstanding, tail, buf, wrote>>

-----------------------------------------------------------------------------
(* Crash and recovery *)

\* Power fails or the kernel is reset: memory is lost, the disk is not.
Crash == /\ cache' = [b \in Blocks |-> NoVal]
         /\ dirty' = {}
         /\ lh' = << >>
         /\ outstanding' = 0
         /\ committing' = FALSE
         /\ phase' = "read_head"
         /\ tail' = 0
         /\ pc' = [p \in Procs |-> "user"]
         /\ buf' = [p \in Procs |-> NoBlock]
         /\ wrote' = [p \in Procs |-> {}]
         /\ UNCHANGED disk

\* initlog -> recover_from_log -> read_head, before any process runs.
ReadHead == /\ phase = "read_head"
            /\ lh' = head
            /\ phase' = "recover_install"
            /\ UNCHANGED <<disk, bcache, outstanding, committing, tail, procs>>

RecoverInstall ==
  /\ phase = "recover_install"
  /\ \/ /\ tail < Len(lh)
        /\ InstallBlock(tail + 1)
        /\ tail' = tail + 1
        /\ UNCHANGED phase
     \/ /\ tail >= Len(lh)
        /\ phase' = "recover_clear"
        /\ tail' = 0
        /\ UNCHANGED <<home, bcache>>
  /\ UNCHANGED <<slot, head, log, procs>>

RecoverClear ==
  /\ phase = "recover_clear"
  /\ lh' = << >>
  /\ head' = << >>
  /\ phase' = "none"
  /\ UNCHANGED <<home, slot, bcache, outstanding, committing, tail, procs>>

-----------------------------------------------------------------------------
Commit(p) == \/ StartCommit(p) \/ WriteLog(p) \/ WriteHead(p)
             \/ Install(p) \/ ClearLog(p) \/ FinishCommit(p)

Recover == ReadHead \/ RecoverInstall \/ RecoverClear

Next == \/ \E p \in Procs : \/ EnterOp(p) \/ BeginOp(p) \/ KillSleeper(p)
                            \/ LogAppend(p) \/ EndOp(p) \/ Commit(p)
        \/ \E p \in Procs, b \in Blocks, v \in Vals : LogWrite(p, b, v)
        \/ \E b \in Blocks : Bread(b) \/ Evict(b)
        \/ Recover
        \/ Crash

Spec == Init /\ [][Next]_vars

(***************************************************************************)
(* A runnable process is scheduled and disk requests complete (weak        *)
(* fairness of its kernel steps); a call makes finitely many log_writes,   *)
(* so it reaches end_op (strong fairness: LogWrite disables EndOp).        *)
(***************************************************************************)
Fairness == /\ \A p \in Procs : /\ WF_vars(BeginOp(p))
                                /\ WF_vars(LogAppend(p))
                                /\ WF_vars(Commit(p))
                                /\ SF_vars(EndOp(p))
            /\ WF_vars(Recover)

FairSpec == Spec /\ Fairness

-----------------------------------------------------------------------------
(* Properties *)

\* Every variable keeps its type; log.outstanding never goes below zero.
TypeOK == /\ home \in [Blocks -> Vals]
          /\ slot \in [1..LogSize -> Vals]
          /\ head \in Seq(Blocks)
          /\ cache \in [Blocks -> Vals \cup {NoVal}]
          /\ dirty \subseteq Blocks
          /\ lh \in Seq(Blocks)
          /\ outstanding \in Nat
          /\ committing \in BOOLEAN
          /\ phase \in Phase
          /\ tail \in Nat
          /\ pc \in [Procs -> PC]
          /\ buf \in [Procs -> Blocks \cup {NoBlock}]
          /\ wrote \in [Procs -> SUBSET Blocks]

\* Processes between begin_op and end_op.
InCall == {"in_op", "log_write", "panicked"}
Active == {p \in Procs : pc[p] \in InCall}

\* log.outstanding is exactly the number of calls under way: end_op's test
\* "outstanding == 0" may be trusted to mean that no call is under way.
OutstandingCounts == outstanding = Cardinality(Active)

\* commit() runs without log.lock; log.committing alone keeps every call, and
\* every other committer, out while it reads the cache and the header.
CommitAlone ==
  /\ committing => Active = {}
  /\ \A p, q \in Procs : pc[p] = "commit" /\ pc[q] = "commit" => p = q
  /\ committing <=> \E p \in Procs : pc[p] = "commit"

\* What a crash at this moment leaves after recovery: the home blocks, with
\* the log's blocks copied over them in the order of the header.
Durable == [b \in Blocks |->
              IF Logged(head, b)
              THEN slot[CHOOSE i \in 1..Len(head) :
                          /\ head[i] = b
                          /\ \A j \in 1..Len(head) : head[j] = b => j <= i]
              ELSE home[b]]

\* What a file-system call reads; nobody reads before recovery is over.
View == IF Booting THEN Durable ELSE [b \in Blocks |-> Contents(b)]

\* The log makes the calls of one transaction atomic: across any crash, one
\* during commit or during recovery included, the disk recovers to the blocks
\* of a moment at which no call was under way.
Disk == INSTANCE AtomicDisk WITH durable <- Durable, view <- View, active <- Active

\* When no call is under way and no commit is pending, nothing would be
\* lost: the last end_op returns only after its transaction is on the disk.
QuiescentIsDurable == outstanding = 0 /\ ~committing => View = Durable

ImplementsAtomicDisk == Disk!Spec /\ []QuiescentIsDurable

\* Units of log space that begin_op has reserved for the calls under way and
\* that they have not used up.
Reserve == {r \in Procs \X (1..MaxOpBlocks) :
              r[1] \in Active /\ r[2] > Cardinality(wrote[r[1]])}

\* The blocks logged so far and the reservations still open fit in the array
\* log.lh.block[LOGSIZE]: log_write, which checks before it locks, can never
\* store beyond its end, however many writers race for the last entries.
RoomIsReserved == Len(lh) + Cardinality(Reserve) <= LogSize

\* The reservation in begin_op keeps log_write's overflow check from firing,
\* and end_op never finds a commit under way.
NeverPanics == \A p \in Procs : pc[p] # "panicked"

\* A process that sleeps in begin_op gets another turn (or the machine goes
\* down and its call is gone): no wakeup is lost.
SleeperWakes == \A p \in Procs : pc[p] = "asleep" ~> pc[p] # "asleep"
=============================================================================
