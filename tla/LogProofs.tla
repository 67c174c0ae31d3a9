------------------------------ MODULE LogProofs ------------------------------
(***************************************************************************)
(* Proofs about Log for every number of processes and blocks and every     *)
(* size of the log.  The inductive invariant LogInv adds to the invariants *)
(* that TLC checks what a process has pinned down between its steps;       *)
(* DataInv says where the contents of the blocks are, from which it        *)
(* follows that Log implements AtomicDisk.                                 *)
(***************************************************************************)
EXTENDS Log, FiniteSetTheorems, TLAPS

\* Nobody is in the file system before recovery is over.
BootIsAlone == Booting => \A p \in Procs : pc[p] = "user"

\* What the checks at the top of log_write have established.
WriterHolds ==
  \A p \in Procs : pc[p] = "log_write" =>
    /\ buf[p] \in Blocks
    /\ Cardinality(wrote[p] \cup {buf[p]}) <= OpMax

\* The blocks of a call under way are in the log, and are not too many.
CallsAreLogged ==
  /\ \A p \in Active :
       /\ IsFiniteSet(wrote[p])
       /\ Cardinality(wrote[p]) <= OpMax
       /\ \A b \in wrote[p] : Logged(lh, b)
  /\ \A p \in Procs \ Active : wrote[p] = {}

HeadFits == Len(head) <= LogSize

LogInv == /\ TypeOK /\ OutstandingCounts /\ CommitAlone /\ RoomIsReserved
          /\ BootIsAlone /\ WriterHolds /\ CallsAreLogged /\ HeadFits

-----------------------------------------------------------------------------
(* Facts about the operators of the model *)

LEMMA ActiveIsFinite == IsFiniteSet(Active) /\ Active \subseteq Procs
  BY ProcsAssumption, FS_Subset DEF Active, InCall

LEMMA ReserveIsFinite ==
  /\ IsFiniteSet(Reserve)
  /\ Cardinality(Reserve) \in Nat
  /\ IsFiniteSet(Procs \X (1..MaxOpBlocks))
<1>1. IsFiniteSet(1..MaxOpBlocks)
  BY FS_Interval, OpAssumption
<1>2. IsFiniteSet(Procs \X (1..MaxOpBlocks))
  BY <1>1, ProcsAssumption, FS_Product
<1>3. Reserve \subseteq Procs \X (1..MaxOpBlocks)
  BY DEF Reserve
<1>q. QED
  BY <1>2, <1>3, FS_Subset, FS_CardinalityType

\* The reservations of the calls under way are at most MaxOpBlocks for each.
LEMMA ReserveBound == Cardinality(Reserve) <= Cardinality(Active) * MaxOpBlocks
<1>1. IsFiniteSet(1..MaxOpBlocks) /\ Cardinality(1..MaxOpBlocks) = MaxOpBlocks
  BY FS_Interval, OpAssumption
<1>2. /\ IsFiniteSet(Active \X (1..MaxOpBlocks))
      /\ Cardinality(Active \X (1..MaxOpBlocks)) = Cardinality(Active) * MaxOpBlocks
  BY <1>1, ActiveIsFinite, FS_Product
<1>3. Reserve \subseteq Active \X (1..MaxOpBlocks)
  BY DEF Reserve, Active, InCall
<1>q. QED
  BY <1>2, <1>3, FS_Subset

\* The invariant bounds log.lh by its array.
LEMMA LhFits == ASSUME TypeOK, RoomIsReserved
                PROVE  Len(lh) \in Nat /\ Len(lh) <= LogSize
  BY ReserveIsFinite, LogSizeAssumption DEF TypeOK, RoomIsReserved

\* Recording a block keeps the blocks recorded before and adds this one; the
\* header grows by one entry at most, and not at all when it absorbs the block.
LEMMA RecordedFacts ==
  ASSUME TypeOK, NEW b \in Blocks
  PROVE  /\ Recorded(b) \in Seq(Blocks)
         /\ Len(Recorded(b)) <= Len(lh) + 1
         /\ Logged(lh, b) => Recorded(b) = lh
         /\ Logged(Recorded(b), b)
         /\ \A c \in Blocks : Logged(lh, c) => Logged(Recorded(b), c)
<1>1. lh \in Seq(Blocks) /\ Len(lh) \in Nat
  BY DEF TypeOK
<1>2. CASE Logged(lh, b)
  BY <1>1, <1>2 DEF Recorded
<1>3. CASE ~Logged(lh, b)
  <2>1. Recorded(b) = Append(lh, b)
    BY <1>3 DEF Recorded
  <2>2. /\ Append(lh, b) \in Seq(Blocks)
        /\ Len(Append(lh, b)) = Len(lh) + 1
        /\ Append(lh, b)[Len(lh) + 1] = b
        /\ \A i \in 1..Len(lh) : Append(lh, b)[i] = lh[i]
    BY <1>1
  <2>3. Logged(Append(lh, b), b)
    BY <2>2, <1>1 DEF Logged
  <2>4. \A c \in Blocks : Logged(lh, c) => Logged(Append(lh, b), c)
    BY <2>2, <1>1 DEF Logged
  <2>q. QED
    BY <1>3, <2>1, <2>2, <2>3, <2>4
<1>q. QED
  BY <1>2, <1>3

LEMMA WokenFacts == ASSUME TypeOK
                    PROVE  /\ Woken \in [Procs -> PC]
                           /\ \A q \in Procs : Woken[q] = pc[q] \/
                                (pc[q] = "asleep" /\ Woken[q] = "begin_op")
  BY DEF Woken, TypeOK, PC

-----------------------------------------------------------------------------
(* Type correctness *)

\* Copying log block i home keeps the types if slot i exists.
LEMMA InstallType ==
  ASSUME TypeOK, Len(lh) <= LogSize, NEW i \in 1..Len(lh), InstallBlock(i)
  PROVE  /\ home' \in [Blocks -> Vals]
         /\ cache' \in [Blocks -> Vals \cup {NoVal}]
         /\ dirty' \subseteq Blocks
<1>1. lh[i] \in Blocks /\ i \in 1..LogSize
  BY LogSizeAssumption DEF TypeOK
<1>2. slot[i] \in Vals
  BY <1>1 DEF TypeOK
<1>q. QED
  BY <1>1, <1>2 DEF TypeOK, InstallBlock

LEMMA ContentsType == ASSUME TypeOK, NEW b \in Blocks PROVE Contents(b) \in Vals
  BY DEF TypeOK, Contents

LEMMA TypeInit == Init => TypeOK
<1>1. SUFFICES ASSUME Init PROVE TypeOK
  OBVIOUS
<1>2. << >> \in Seq(Blocks)
  OBVIOUS
<1>3. slot \in [1..LogSize -> Vals]
  BY <1>1 DEF Init
<1>q. QED
  BY <1>1, <1>2, <1>3 DEF Init, TypeOK, PC, Phase, BootPhase

LEMMA TypeStep == LogInv /\ [Next]_vars => TypeOK'
<1>1. SUFFICES ASSUME LogInv, [Next]_vars PROVE TypeOK'
  OBVIOUS
<1>2. /\ TypeOK /\ Len(lh) \in Nat /\ Len(lh) <= LogSize
      /\ OutstandingCounts /\ CommitAlone /\ WriterHolds
  BY <1>1, LhFits DEF LogInv
<1>3. ASSUME NEW p \in Procs, EnterOp(p) PROVE TypeOK'
  BY <1>2, <1>3 DEF TypeOK, EnterOp, disk, bcache, log, loop, PC
<1>4. ASSUME NEW p \in Procs, BeginOp(p) PROVE TypeOK'
  <2>1. outstanding' \in Nat /\ pc' \in [Procs -> PC]
    <3>1. CASE MustWait
      BY <1>2, <1>4, <3>1 DEF TypeOK, BeginOp, PC
    <3>2. CASE ~MustWait
      BY <1>2, <1>4, <3>2 DEF TypeOK, BeginOp, PC
    <3>q. QED
      BY <3>1, <3>2
  <2>q. QED
    BY <1>2, <1>4, <2>1 DEF TypeOK, BeginOp, disk, bcache, loop
<1>5. ASSUME NEW p \in Procs, KillSleeper(p) PROVE TypeOK'
  BY <1>2, <1>5 DEF TypeOK, KillSleeper, disk, bcache, log, loop, PC
<1>6. ASSUME NEW p \in Procs, LogAppend(p) PROVE TypeOK'
  <2>1. buf[p] \in Blocks
    BY <1>2, <1>6 DEF WriterHolds, LogAppend
  <2>2. lh' \in Seq(Blocks)
    BY <1>2, <1>6, <2>1, RecordedFacts DEF LogAppend
  <2>3. /\ dirty' \subseteq Blocks
        /\ pc' \in [Procs -> PC]
        /\ buf' \in [Procs -> Blocks \cup {NoBlock}]
        /\ wrote' \in [Procs -> SUBSET Blocks]
    BY <1>2, <1>6, <2>1 DEF TypeOK, LogAppend, PC
  <2>q. QED
    BY <1>2, <1>6, <2>2, <2>3 DEF TypeOK, LogAppend, disk, loop
<1>7. ASSUME NEW p \in Procs, EndOp(p) PROVE TypeOK'
  <2>1. p \in Active
    BY <1>7 DEF EndOp, Active, InCall
  <2>2. outstanding # 0
    BY <1>2, <2>1, ActiveIsFinite, FS_EmptySet DEF OutstandingCounts
  <2>3. outstanding' \in Nat
    BY <1>2, <1>7, <2>2 DEF EndOp, TypeOK
  <2>4. pc' \in [Procs -> PC]
    BY <1>2, <1>7, WokenFacts DEF EndOp, TypeOK, PC
  <2>5. phase' \in Phase /\ committing' \in BOOLEAN
    BY <1>2, <1>7 DEF EndOp, TypeOK, Phase, CommitPhase
  <2>q. QED
    BY <1>2, <1>7, <2>3, <2>4, <2>5 DEF EndOp, TypeOK, disk, bcache
<1>8. ASSUME NEW p \in Procs, StartCommit(p) PROVE TypeOK'
  <2>1. phase' \in Phase
    BY <1>8 DEF StartCommit, Phase, CommitPhase
  <2>q. QED
    BY <1>2, <1>8, <2>1 DEF TypeOK, StartCommit, disk, bcache, log, procs
<1>9. ASSUME NEW p \in Procs, WriteLog(p) PROVE TypeOK'
  <2>1. CASE tail < Len(lh)
    <3>1. tail + 1 \in 1..Len(lh) /\ lh[tail + 1] \in Blocks
      BY <1>2, <2>1 DEF TypeOK
    <3>2. Contents(lh[tail + 1]) \in Vals
      BY <1>2, <3>1, ContentsType
    <3>3. /\ slot' = [slot EXCEPT ![tail + 1] = Contents(lh[tail + 1])]
          /\ cache' = [cache EXCEPT ![lh[tail + 1]] = Contents(lh[tail + 1])]
          /\ tail' = tail + 1
          /\ UNCHANGED phase
      BY <1>2, <1>9, <2>1 DEF WriteLog, TypeOK
    <3>4. /\ slot' \in [1..LogSize -> Vals]
          /\ cache' \in [Blocks -> Vals \cup {NoVal}]
          /\ tail' \in Nat
      <4>1. slot \in [1..LogSize -> Vals] /\ cache \in [Blocks -> Vals \cup {NoVal}] /\ tail \in Nat
        BY <1>2 DEF TypeOK
      <4>2. slot' \in [1..LogSize -> Vals]
        BY <4>1, <3>2, <3>3
      <4>3. cache' \in [Blocks -> Vals \cup {NoVal}]
        BY <4>1, <3>1, <3>2, <3>3
      <4>q. QED
        BY <4>1, <4>2, <4>3, <3>3
    <3>q. QED
      BY <1>2, <1>9, <3>3, <3>4 DEF TypeOK, WriteLog, log, procs
  <2>2. CASE tail >= Len(lh)
    <3>1. phase' = "write_head" /\ tail' = 0 /\ UNCHANGED <<slot, cache>>
      BY <1>2, <1>9, <2>2 DEF WriteLog, TypeOK
    <3>q. QED
      BY <1>2, <1>9, <3>1 DEF TypeOK, WriteLog, log, procs, Phase, CommitPhase
  <2>q. QED
    BY <1>2, <2>1, <2>2 DEF TypeOK
<1>10. ASSUME NEW p \in Procs, WriteHead(p) PROVE TypeOK'
  BY <1>2, <1>10 DEF TypeOK, WriteHead, bcache, log, procs, Phase, CommitPhase
<1>11. ASSUME tail < Len(lh), InstallBlock(tail + 1), tail' = tail + 1,
              UNCHANGED <<slot, head, log, phase, procs>>
       PROVE  TypeOK'
  <2>1. tail + 1 \in 1..Len(lh)
    BY <1>2, <1>11 DEF TypeOK
  <2>2. /\ home' \in [Blocks -> Vals]
        /\ cache' \in [Blocks -> Vals \cup {NoVal}]
        /\ dirty' \subseteq Blocks
        /\ tail' \in Nat
    BY <1>2, <1>11, <2>1, InstallType DEF TypeOK
  <2>q. QED
    BY <1>2, <1>11, <2>2 DEF TypeOK, log, procs
<1>12. ASSUME NEW p \in Procs, Install(p) PROVE TypeOK'
  <2>1. CASE InstallBlock(tail + 1) /\ tail < Len(lh) /\ tail' = tail + 1 /\ UNCHANGED phase
    BY <1>11, <1>12, <2>1 DEF Install
  <2>2. CASE phase' = "clear" /\ tail' = 0 /\ UNCHANGED <<home, bcache>>
    BY <1>2, <1>12, <2>2 DEF TypeOK, Install, bcache, log, procs, Phase, CommitPhase
  <2>q. QED
    BY <1>12, <2>1, <2>2 DEF Install
<1>13. ASSUME NEW p \in Procs, ClearLog(p) PROVE TypeOK'
  BY <1>2, <1>13 DEF TypeOK, ClearLog, bcache, procs, Phase, CommitPhase
<1>14. ASSUME NEW p \in Procs, FinishCommit(p) PROVE TypeOK'
  <2>1. pc' \in [Procs -> PC]
    BY <1>2, <1>14, WokenFacts DEF FinishCommit, PC
  <2>q. QED
    BY <1>2, <1>14, <2>1 DEF TypeOK, FinishCommit, disk, bcache, Phase
<1>15. ASSUME NEW p \in Procs, NEW b \in Blocks, NEW v \in Vals, LogWrite(p, b, v)
       PROVE  TypeOK'
  <2>1. /\ cache' \in [Blocks -> Vals \cup {NoVal}]
        /\ buf' \in [Procs -> Blocks \cup {NoBlock}]
        /\ pc' \in [Procs -> PC]
       
    BY <1>2, <1>15 DEF TypeOK, LogWrite, PC
  <2>q. QED
    BY <1>2, <1>15, <2>1 DEF TypeOK, LogWrite, disk, log, loop
<1>16. ASSUME NEW b \in Blocks, Bread(b) \/ Evict(b) PROVE TypeOK'
  BY <1>2, <1>16 DEF TypeOK, Bread, Evict, disk, log, loop, procs
<1>17. ASSUME ReadHead PROVE TypeOK'
  BY <1>2, <1>17 DEF TypeOK, ReadHead, disk, bcache, procs, Phase, BootPhase
<1>18. ASSUME RecoverInstall PROVE TypeOK'
  <2>1. CASE InstallBlock(tail + 1) /\ tail < Len(lh) /\ tail' = tail + 1 /\ UNCHANGED phase
    BY <1>11, <1>18, <2>1 DEF RecoverInstall
  <2>2. CASE phase' = "recover_clear" /\ tail' = 0 /\ UNCHANGED <<home, bcache>>
    BY <1>2, <1>18, <2>2 DEF TypeOK, RecoverInstall, bcache, log, procs, Phase, BootPhase
  <2>q. QED
    BY <1>18, <2>1, <2>2 DEF RecoverInstall
<1>19. ASSUME RecoverClear PROVE TypeOK'
  BY <1>2, <1>19 DEF TypeOK, RecoverClear, bcache, procs, Phase
<1>20. ASSUME Crash PROVE TypeOK'
  <2>1. << >> \in Seq(Blocks)
    OBVIOUS
  <2>q. QED
    BY <1>2, <1>20, <2>1 DEF TypeOK, Crash, disk, PC, Phase, BootPhase
<1>21. ASSUME UNCHANGED vars PROVE TypeOK'
  BY <1>2, <1>21 DEF TypeOK, vars, disk, bcache, log, loop, procs
<1>q. QED
  BY <1>1, <1>3, <1>4, <1>5, <1>6, <1>7, <1>8, <1>9, <1>10, <1>12, <1>13, <1>14, <1>15,
     <1>16, <1>17, <1>18, <1>19, <1>20, <1>21 DEF Next, Commit, Recover

-----------------------------------------------------------------------------
(* The inductive invariant *)

\* A step that leaves the calls and the header alone keeps what is said of them.
LEMMA SpaceFrame ==
  ASSUME LogInv, UNCHANGED <<lh, head, outstanding, wrote>>,
         \A q \in Procs : pc'[q] \in InCall <=> pc[q] \in InCall,
         \A q \in Procs : pc'[q] = "log_write" => pc[q] = "log_write" /\ buf'[q] = buf[q]
  PROVE  /\ Active' = Active
         /\ OutstandingCounts' /\ RoomIsReserved' /\ WriterHolds'
         /\ CallsAreLogged' /\ HeadFits'
<1>1. Active' = Active
  BY DEF Active, InCall
<1>2. Reserve' = Reserve
  BY <1>1 DEF Reserve
<1>3. OutstandingCounts' /\ RoomIsReserved' /\ HeadFits'
  BY <1>1, <1>2 DEF LogInv, OutstandingCounts, RoomIsReserved, HeadFits
<1>4. WriterHolds'
  BY DEF LogInv, WriterHolds
<1>5. CallsAreLogged'
  BY <1>1 DEF LogInv, CallsAreLogged, Logged
<1>q. QED
  BY <1>1, <1>3, <1>4, <1>5

LEMMA CommitFrame ==
  ASSUME LogInv, UNCHANGED committing, Active' \subseteq Active \/ ~committing,
         \A q \in Procs : pc'[q] = "commit" <=> pc[q] = "commit"
  PROVE  CommitAlone'
  BY DEF LogInv, CommitAlone

\* Once nobody is in a call, no reservation is open.
LEMMA NoReserve ==
  ASSUME Active = {} PROVE Reserve = {} /\ Cardinality(Reserve) = 0
  BY FS_EmptySet DEF Reserve

LEMMA InvInit == Init => LogInv
<1>1. SUFFICES ASSUME Init PROVE LogInv
  OBVIOUS
<1>2. TypeOK
  BY <1>1, TypeInit
<1>3. Active = {} /\ Cardinality(Active) = 0
  BY <1>1, FS_EmptySet DEF Init, Active, InCall
<1>4. Len(lh) = 0 /\ Len(head) = 0
  BY <1>1 DEF Init
<1>5. OutstandingCounts /\ CommitAlone
  BY <1>1, <1>3 DEF Init, OutstandingCounts, CommitAlone
<1>6. RoomIsReserved /\ HeadFits
  BY <1>3, <1>4, NoReserve, LogSizeAssumption DEF RoomIsReserved, HeadFits
<1>7. BootIsAlone /\ WriterHolds /\ CallsAreLogged
  BY <1>1, <1>3 DEF Init, BootIsAlone, WriterHolds, CallsAreLogged
<1>q. QED
  BY <1>2, <1>5, <1>6, <1>7 DEF LogInv

\* begin_op lets a call in: its reservation fits beside the open ones.
LEMMA BeginInv == ASSUME LogInv, NEW p \in Procs, BeginOp(p), TypeOK' PROVE LogInv'
<1>1. TypeOK /\ p \notin Active /\ ~Booting /\ pc \in [Procs -> PC]
  BY DEF LogInv, BeginOp, Active, InCall, BootIsAlone, TypeOK
<1>2. CASE MustWait
  <2>1. /\ pc' = [pc EXCEPT ![p] = "asleep"]
        /\ UNCHANGED <<lh, head, outstanding, wrote, committing, phase, buf>>
    BY <1>2 DEF BeginOp, disk, loop
  <2>2. /\ \A q \in Procs : pc'[q] \in InCall <=> pc[q] \in InCall
        /\ \A q \in Procs : pc'[q] = "log_write" => pc[q] = "log_write" /\ buf'[q] = buf[q]
        /\ \A q \in Procs : pc'[q] = "commit" <=> pc[q] = "commit"
    BY <1>1, <2>1 DEF BeginOp, InCall
  <2>3. /\ Active' = Active
        /\ OutstandingCounts' /\ RoomIsReserved' /\ WriterHolds'
        /\ CallsAreLogged' /\ HeadFits'
    BY <2>1, <2>2, SpaceFrame
  <2>4. CommitAlone' /\ BootIsAlone'
    BY <1>1, <2>1, <2>2, <2>3, CommitFrame DEF BootIsAlone, Booting
  <2>q. QED
    BY <2>3, <2>4 DEF LogInv
<1>3. CASE ~MustWait
  <2>1. /\ pc' = [pc EXCEPT ![p] = "in_op"]
        /\ outstanding' = outstanding + 1
        /\ UNCHANGED <<lh, head, committing, phase, buf, wrote>>
    BY <1>3 DEF BeginOp, disk, loop
  <2>2. Active' = Active \cup {p}
    BY <1>1, <2>1 DEF Active, InCall
  <2>3. Cardinality(Active') = Cardinality(Active) + 1
    BY <1>1, <2>2, ActiveIsFinite, FS_AddElement
  <2>4. OutstandingCounts'
    BY <2>1, <2>3 DEF LogInv, OutstandingCounts
  <2>5. Cardinality(Active) \in Nat /\ outstanding = Cardinality(Active)
    BY ActiveIsFinite, FS_CardinalityType DEF LogInv, OutstandingCounts
  <2>6. Cardinality(Reserve') <= Cardinality(Active') * MaxOpBlocks /\ Cardinality(Reserve') \in Nat
    <3>1. (Cardinality(Reserve) <= Cardinality(Active) * MaxOpBlocks)'
      BY ReserveBound, PTL
    <3>2. (IsFiniteSet(Reserve) /\ Cardinality(Reserve) \in Nat /\ IsFiniteSet(Procs \X (1..MaxOpBlocks)))'
      BY ReserveIsFinite, PTL
    <3>q. QED
      BY <3>1, <3>2
  <2>7. Len(lh) + (outstanding + 1) * MaxOpBlocks <= LogSize /\ ~committing
    BY <1>1, <1>3, <2>5, LogSizeAssumption, OpAssumption DEF MustWait, NoRoom, TypeOK
  <2>8. RoomIsReserved'
    <3>1. Cardinality(Reserve') <= (outstanding + 1) * MaxOpBlocks
      BY <2>3, <2>5, <2>6
    <3>2. (outstanding + 1) * MaxOpBlocks \in Nat /\ Len(lh) \in Nat /\ Len(lh') = Len(lh)
      BY <1>1, <2>1, <2>5, OpAssumption DEF TypeOK
    <3>q. QED
      BY <3>1, <3>2, <2>6, <2>7, LogSizeAssumption DEF RoomIsReserved
  <2>9. WriterHolds' /\ HeadFits' /\ BootIsAlone'
    BY <1>1, <2>1 DEF LogInv, TypeOK, WriterHolds, HeadFits, BootIsAlone, Booting
  <2>10. CallsAreLogged'
    <3>1. wrote[p] = {} /\ IsFiniteSet({}) /\ Cardinality({}) <= OpMax
      BY <1>1, FS_EmptySet, OpAssumption DEF LogInv, CallsAreLogged
    <3>q. QED
      BY <2>1, <2>2, <3>1 DEF LogInv, CallsAreLogged, Logged
  <2>11. CommitAlone'
    <3>1. \A q \in Procs : pc'[q] = "commit" <=> pc[q] = "commit"
      BY <1>1, <2>1 DEF BeginOp
    <3>q. QED
      BY <2>1, <2>7, <3>1, CommitFrame
  <2>q. QED
    BY <2>4, <2>8, <2>9, <2>10, <2>11 DEF LogInv
<1>q. QED
  BY <1>2, <1>3

\* log_write's critical section turns a reservation into a log entry, unless
\* the block is absorbed.
LEMMA AppendInv == ASSUME LogInv, NEW p \in Procs, LogAppend(p), TypeOK' PROVE LogInv'
<1> DEFINE b == buf[p]
<1>1. /\ TypeOK /\ p \in Active /\ b \in Blocks /\ ~Booting /\ ~committing
      /\ Cardinality(wrote[p] \cup {b}) <= OpMax
      /\ IsFiniteSet(wrote[p]) /\ Cardinality(wrote[p]) <= OpMax
      /\ \A c \in wrote[p] : Logged(lh, c)
  BY DEF LogInv, LogAppend, Active, InCall, WriterHolds, CallsAreLogged, BootIsAlone, CommitAlone
<1>2. /\ lh' = Recorded(b)
      /\ pc' = [pc EXCEPT ![p] = "in_op"]
      /\ buf' = [buf EXCEPT ![p] = NoBlock]
      /\ wrote' = [wrote EXCEPT ![p] = @ \cup {b}]
      /\ UNCHANGED <<head, outstanding, committing, phase>>
  BY DEF LogAppend, disk, loop
<1>3. /\ pc'[p] = "in_op" /\ \A q \in Procs \ {p} : pc'[q] = pc[q]
      /\ wrote'[p] = wrote[p] \cup {b} /\ \A q \in Procs \ {p} : wrote'[q] = wrote[q]
      /\ \A q \in Procs \ {p} : buf'[q] = buf[q]
  BY <1>1, <1>2 DEF TypeOK
<1>4. Active' = Active
  BY <1>1, <1>3 DEF Active, InCall, LogAppend
<1>5. OutstandingCounts' /\ CommitAlone' /\ HeadFits' /\ BootIsAlone'
  <2>1. \A q \in Procs : pc'[q] = "commit" <=> pc[q] = "commit"
    BY <1>3 DEF LogAppend
  <2>2. CommitAlone'
    BY <1>2, <1>4, <2>1, CommitFrame
  <2>q. QED
    BY <1>1, <1>2, <1>4, <2>2 DEF LogInv, OutstandingCounts, HeadFits, BootIsAlone, Booting
<1>6. WriterHolds'
  <2>1. SUFFICES ASSUME NEW q \in Procs, pc'[q] = "log_write"
                 PROVE  buf'[q] \in Blocks /\ Cardinality(wrote'[q] \cup {buf'[q]}) <= OpMax
    BY DEF WriterHolds
  <2>2. q # p /\ pc[q] = "log_write" /\ buf'[q] = buf[q] /\ wrote'[q] = wrote[q]
    BY <1>3, <2>1
  <2>q. QED
    BY <2>2 DEF LogInv, WriterHolds
<1>7. /\ Recorded(b) \in Seq(Blocks)
      /\ Len(Recorded(b)) <= Len(lh) + 1
      /\ Logged(lh, b) => Recorded(b) = lh
      /\ Logged(Recorded(b), b)
      /\ \A c \in Blocks : Logged(lh, c) => Logged(Recorded(b), c)
  BY <1>1, RecordedFacts
<1>8. CallsAreLogged'
  <2>1. SUFFICES ASSUME NEW q \in Active'
                 PROVE  /\ IsFiniteSet(wrote'[q])
                        /\ Cardinality(wrote'[q]) <= OpMax
                        /\ \A c \in wrote'[q] : Logged(lh', c)
    BY <1>1, <1>3, <1>4 DEF LogInv, CallsAreLogged
  <2>2. q \in Active /\ q \in Procs /\ wrote[q] \subseteq Blocks
    BY <1>1, <1>4, <2>1 DEF TypeOK, Active, InCall
  <2>3. CASE q = p
    <3>1. IsFiniteSet(wrote[p] \cup {b})
      BY <1>1, FS_AddElement
    <3>q. QED
      BY <1>1, <1>2, <1>3, <1>7, <2>2, <2>3, <3>1
  <2>4. CASE q # p
    BY <1>2, <1>3, <1>7, <2>2, <2>4 DEF LogInv, CallsAreLogged
  <2>q. QED
    BY <2>3, <2>4
<1>9. RoomIsReserved'
  <2>1. Cardinality(wrote[p]) \in Nat /\ Cardinality(Reserve) \in Nat /\ IsFiniteSet(Reserve)
    BY <1>1, ReserveIsFinite, FS_CardinalityType
  <2>2. Len(lh) + Cardinality(Reserve) <= LogSize /\ Len(lh) \in Nat /\ LogSize \in Nat
    BY LogSizeAssumption DEF LogInv, RoomIsReserved, TypeOK
  <2>3. CASE b \in wrote[p]
    <3>1. wrote' = wrote
      BY <1>1, <1>2, <2>3 DEF TypeOK
    <3>2. Reserve' = Reserve
      BY <1>4, <3>1 DEF Reserve
    <3>3. lh' = lh
      BY <1>1, <1>2, <1>7, <2>3
    <3>q. QED
      BY <2>2, <3>2, <3>3 DEF RoomIsReserved
  <2>4. CASE b \notin wrote[p]
    <3> DEFINE r == <<p, Cardinality(wrote[p]) + 1>>
    <3>1. Cardinality(wrote[p] \cup {b}) = Cardinality(wrote[p]) + 1
      BY <1>1, <2>4, FS_AddElement
    <3>2. r \in Procs \X (1..MaxOpBlocks)
      BY <1>1, <2>1, <3>1, OpAssumption
    <3>3. r \in Reserve
      BY <1>1, <2>1, <3>2 DEF Reserve
    <3>4. Reserve' \subseteq Reserve \ {r}
      <4>1. SUFFICES ASSUME NEW t \in Reserve' PROVE t \in Reserve /\ t # r
        OBVIOUS
      <4>2. /\ t \in Procs \X (1..MaxOpBlocks) /\ t[1] \in Active
            /\ t[2] > Cardinality(wrote'[t[1]])
        BY <1>4, <4>1 DEF Reserve
      <4>3. CASE t[1] = p
        <5>1. wrote'[p] = wrote[p] \cup {b}
          BY <1>3
        <5>2. t[2] > Cardinality(wrote[p]) + 1 /\ t[2] \in Nat
          BY <3>1, <4>2, <4>3, <5>1
        <5>3. t[2] > Cardinality(wrote[p]) /\ t[2] # Cardinality(wrote[p]) + 1
          BY <2>1, <5>2
        <5>q. QED
          BY <4>2, <4>3, <5>3 DEF Reserve
      <4>4. CASE t[1] # p
        <5>1. wrote'[t[1]] = wrote[t[1]]
          BY <1>3, <4>2, <4>4
        <5>q. QED
          BY <4>2, <4>4, <5>1 DEF Reserve
      <4>q. QED
        BY <4>3, <4>4
    <3>5. /\ IsFiniteSet(Reserve \ {r})
          /\ Cardinality(Reserve \ {r}) = Cardinality(Reserve) - 1
      BY <2>1, <3>3, FS_RemoveElement
    <3>6. Cardinality(Reserve') <= Cardinality(Reserve) - 1 /\ Cardinality(Reserve') \in Nat
      BY <3>4, <3>5, FS_Subset, FS_CardinalityType
    <3>7. Len(lh') <= Len(lh) + 1 /\ Len(lh') \in Nat
      BY <1>2, <1>7
    <3>q. QED
      BY <2>1, <2>2, <3>6, <3>7 DEF RoomIsReserved
  <2>q. QED
    BY <2>3, <2>4
<1>q. QED
  BY <1>5, <1>6, <1>8, <1>9 DEF LogInv

\* end_op closes the reservation of its call; the last call becomes the one
\* committer.
LEMMA EndInv == ASSUME LogInv, NEW p \in Procs, EndOp(p), TypeOK' PROVE LogInv'
<1>1. /\ TypeOK /\ p \in Active /\ pc[p] = "in_op" /\ ~Booting /\ ~committing
      /\ \A q \in Procs : pc[q] # "commit"
  BY DEF LogInv, EndOp, Active, InCall, BootIsAlone, CommitAlone
<1>2. /\ outstanding' = outstanding - 1
      /\ wrote' = [wrote EXCEPT ![p] = {}]
      /\ UNCHANGED <<lh, head, buf>>
      /\ \/ /\ outstanding' = 0 /\ committing' = TRUE /\ phase' = "start"
            /\ pc' = [pc EXCEPT ![p] = "commit"]
         \/ /\ outstanding' # 0 /\ UNCHANGED <<committing, phase>>
            /\ pc' = [Woken EXCEPT ![p] = "user"]
  BY <1>1 DEF EndOp, disk
<1>3. /\ pc'[p] \in {"commit", "user"}
      /\ \A q \in Procs \ {p} :
           /\ pc'[q] \in InCall => pc'[q] = pc[q]
           /\ pc[q] \in InCall => pc'[q] = pc[q]
           /\ pc'[q] # "commit"
  BY <1>1, <1>2, WokenFacts DEF TypeOK, InCall
<1>w. wrote'[p] = {} /\ \A q \in Procs \ {p} : wrote'[q] = wrote[q]
  BY <1>1, <1>2 DEF TypeOK
<1>4. Active' = Active \ {p}
  BY <1>3 DEF Active, InCall
<1>5. Cardinality(Active') = Cardinality(Active) - 1
  BY <1>1, <1>4, ActiveIsFinite, FS_RemoveElement
<1>6. OutstandingCounts'
  BY <1>2, <1>5 DEF LogInv, OutstandingCounts
<1>7. CommitAlone'
  <2>1. CASE outstanding' = 0
    <3>1. Active' = {}
      BY <1>4, <1>6, <2>1, ActiveIsFinite, FS_Subset, FS_EmptySet DEF OutstandingCounts
    <3>2. pc'[p] = "commit" /\ committing'
      BY <1>1, <1>2, <2>1 DEF TypeOK
    <3>q. QED
      BY <1>3, <3>1, <3>2 DEF CommitAlone
  <2>2. CASE outstanding' # 0
    <3>1. pc'[p] = "user" /\ UNCHANGED committing
      BY <1>1, <1>2, <2>2, WokenFacts DEF TypeOK
    <3>q. QED
      BY <1>1, <1>3, <3>1 DEF CommitAlone
  <2>q. QED
    BY <2>1, <2>2
<1>8. RoomIsReserved'
  <2>1. Reserve' \subseteq Reserve
    BY <1>w, <1>4 DEF Reserve
  <2>2. Cardinality(Reserve') <= Cardinality(Reserve) /\ Cardinality(Reserve') \in Nat
    BY <2>1, ReserveIsFinite, FS_Subset, FS_CardinalityType
  <2>3. Len(lh) + Cardinality(Reserve) <= LogSize /\ Len(lh) \in Nat /\ Cardinality(Reserve) \in Nat
    BY ReserveIsFinite DEF LogInv, RoomIsReserved, TypeOK
  <2>q. QED
    BY <1>2, <2>2, <2>3, LogSizeAssumption DEF RoomIsReserved
<1>9. WriterHolds' /\ HeadFits'
  BY <1>2, <1>3, <1>w DEF LogInv, WriterHolds, HeadFits, InCall
<1>10. CallsAreLogged'
  BY <1>2, <1>4, <1>w DEF LogInv, CallsAreLogged, Logged
<1>11. BootIsAlone'
  BY <1>1, <1>2 DEF BootIsAlone, Booting, BootPhase
<1>q. QED
  BY <1>6, <1>7, <1>8, <1>9, <1>10, <1>11 DEF LogInv

\* A step of commit or recovery that empties the header or loads it from the
\* disk: no call is under way.
LEMMA NobodyInside ==
  ASSUME LogInv, TypeOK', Len(lh') <= LogSize, Len(head') <= LogSize,
         Active = {}, Active' = {}, outstanding' = 0,
         \A q \in Procs : pc'[q] # "log_write", UNCHANGED wrote
  PROVE  OutstandingCounts' /\ RoomIsReserved' /\ WriterHolds' /\ CallsAreLogged' /\ HeadFits'
<1>1. Cardinality(Active') = 0
  BY FS_EmptySet
<1>2. Reserve' = {}
  BY DEF Reserve
<1>3. Cardinality(Reserve') = 0
  BY <1>2, FS_EmptySet
<1>4. Len(lh') \in Nat
  BY DEF TypeOK
<1>q. QED
  BY <1>1, <1>3, <1>4, LogSizeAssumption
     DEF LogInv, OutstandingCounts, RoomIsReserved, WriterHolds, CallsAreLogged, HeadFits

LEMMA EmptyActive == Active = {} => outstanding = 0 \/ ~OutstandingCounts
  BY FS_EmptySet DEF OutstandingCounts

LEMMA StepInv == LogInv /\ [Next]_vars => LogInv'
<1>1. SUFFICES ASSUME LogInv, [Next]_vars PROVE LogInv'
  OBVIOUS
<1>2. TypeOK'
  BY <1>1, TypeStep
<1>3. /\ TypeOK /\ CommitAlone /\ BootIsAlone /\ OutstandingCounts /\ HeadFits
      /\ Len(lh) \in Nat /\ Len(lh) <= LogSize
  BY <1>1, LhFits DEF LogInv
\* Steps that leave the calls, the header and log.committing alone.
<1>4. ASSUME UNCHANGED <<lh, head, outstanding, wrote, committing>>,
             \A q \in Procs : pc'[q] = pc[q] \/
               /\ pc[q] \in {"user", "begin_op", "asleep"}
               /\ pc'[q] \in {"user", "begin_op", "asleep"},
             \A q \in Procs : pc'[q] = "log_write" => buf'[q] = buf[q],
             Booting' => Booting /\ UNCHANGED pc
      PROVE  LogInv'
  <2>1. /\ \A q \in Procs : pc'[q] \in InCall <=> pc[q] \in InCall
        /\ \A q \in Procs : pc'[q] = "log_write" => pc[q] = "log_write" /\ buf'[q] = buf[q]
        /\ \A q \in Procs : pc'[q] = "commit" <=> pc[q] = "commit"
    BY <1>4 DEF InCall
  <2>2. /\ Active' = Active
        /\ OutstandingCounts' /\ RoomIsReserved' /\ WriterHolds'
        /\ CallsAreLogged' /\ HeadFits'
    BY <1>1, <1>4, <2>1, SpaceFrame
  <2>3. CommitAlone'
    BY <1>1, <1>4, <2>1, <2>2, CommitFrame
  <2>4. BootIsAlone'
    BY <1>3, <1>4 DEF BootIsAlone
  <2>q. QED
    BY <1>2, <2>2, <2>3, <2>4 DEF LogInv
<1>5. ASSUME NEW p \in Procs, EnterOp(p) PROVE LogInv'
  BY <1>3, <1>4, <1>5 DEF EnterOp, TypeOK, disk, log, loop, Booting
<1>6. ASSUME NEW p \in Procs, BeginOp(p) PROVE LogInv'
  BY <1>1, <1>2, <1>6, BeginInv
<1>7. ASSUME NEW p \in Procs, KillSleeper(p) PROVE LogInv'
  BY <1>3, <1>4, <1>7 DEF KillSleeper, TypeOK, disk, log, loop, Booting, BootIsAlone
<1>8. ASSUME NEW p \in Procs, LogAppend(p) PROVE LogInv'
  BY <1>1, <1>2, <1>8, AppendInv
<1>9. ASSUME NEW p \in Procs, EndOp(p) PROVE LogInv'
  BY <1>1, <1>2, <1>9, EndInv
<1>10. ASSUME NEW p \in Procs, StartCommit(p) \/ WriteLog(p) \/ Install(p) PROVE LogInv'
  <2>1. /\ UNCHANGED <<lh, head, outstanding, wrote, committing, pc, buf>>
        /\ phase' \in {"write_log", "write_head", "install", "clear", "finish"}
    BY <1>10 DEF StartCommit, WriteLog, Install, disk, log, procs
  <2>q. QED
    BY <1>4, <2>1 DEF Booting, BootPhase
<1>11. ASSUME NEW p \in Procs, pc[p] = "commit"
       PROVE  Active = {} /\ committing /\ outstanding = 0 /\ \A q \in Procs : q # p => pc[q] # "commit"
  BY <1>3, <1>11, EmptyActive DEF CommitAlone
<1>12. ASSUME NEW p \in Procs, WriteHead(p) \/ ClearLog(p) PROVE LogInv'
  <2>1. /\ UNCHANGED <<outstanding, committing, pc, wrote>>
        /\ phase' \in {"install", "finish"} /\ pc[p] = "commit"
        /\ Len(lh') <= LogSize /\ Len(head') <= LogSize
    BY <1>3, <1>12, LogSizeAssumption DEF WriteHead, ClearLog, log, procs
  <2>2. Active = {} /\ Active' = {} /\ outstanding' = 0 /\ \A q \in Procs : pc'[q] # "log_write"
    BY <1>11, <2>1 DEF Active, InCall
  <2>3. OutstandingCounts' /\ RoomIsReserved' /\ WriterHolds' /\ CallsAreLogged' /\ HeadFits'
    BY <1>1, <1>2, <2>1, <2>2, NobodyInside
  <2>4. CommitAlone' /\ BootIsAlone'
    BY <1>1, <2>1, <2>2, CommitFrame DEF BootIsAlone, Booting, BootPhase
  <2>q. QED
    BY <1>2, <2>3, <2>4 DEF LogInv
<1>13. ASSUME NEW p \in Procs, FinishCommit(p) PROVE LogInv'
  <2>1. /\ UNCHANGED <<lh, head, outstanding, wrote>>
        /\ phase' = "none" /\ pc[p] = "commit" /\ committing' = FALSE
        /\ pc' = [Woken EXCEPT ![p] = "user"]
    BY <1>13 DEF FinishCommit, disk
  <2>2. pc'[p] = "user" /\ \A q \in Procs \ {p} : pc'[q] = pc[q] \/ pc'[q] = "begin_op"
    BY <1>3, <2>1, WokenFacts DEF TypeOK
  <2>3. /\ Active = {} /\ Active' = {} /\ outstanding' = 0
        /\ \A q \in Procs : pc'[q] # "log_write" /\ pc'[q] # "commit"
    BY <1>11, <2>1, <2>2 DEF Active, InCall
  <2>4. OutstandingCounts' /\ RoomIsReserved' /\ WriterHolds' /\ CallsAreLogged' /\ HeadFits'
    BY <1>1, <1>2, <1>3, <2>1, <2>3, NobodyInside DEF HeadFits
  <2>5. CommitAlone' /\ BootIsAlone'
    BY <2>1, <2>3 DEF CommitAlone, BootIsAlone, Booting, BootPhase
  <2>q. QED
    BY <1>2, <2>4, <2>5 DEF LogInv
<1>14. ASSUME NEW p \in Procs, NEW b \in Blocks, NEW v \in Vals, LogWrite(p, b, v)
       PROVE  LogInv'
  <2>1. /\ pc[p] = "in_op" /\ pc' \in [Procs -> PC] /\ pc' \in {[pc EXCEPT ![p] = "panicked"], [pc EXCEPT ![p] = "log_write"]}
        /\ buf' = [buf EXCEPT ![p] = b]
        /\ Cardinality(wrote[p] \cup {b}) <= OpMax
        /\ UNCHANGED <<lh, head, outstanding, committing, wrote, phase>>
    BY <1>2, <1>14 DEF LogWrite, disk, log, loop, TypeOK
  <2>2. /\ pc'[p] \in {"panicked", "log_write"} /\ buf'[p] = b
        /\ \A q \in Procs \ {p} : pc'[q] = pc[q] /\ buf'[q] = buf[q]
    BY <1>3, <2>1 DEF TypeOK
  <2>3. Active' = Active
    BY <2>1, <2>2 DEF Active, InCall
  <2>4. Reserve' = Reserve
    BY <2>1, <2>3 DEF Reserve
  <2>5. OutstandingCounts' /\ RoomIsReserved' /\ HeadFits' /\ CallsAreLogged'
    BY <1>1, <2>1, <2>3, <2>4
       DEF LogInv, OutstandingCounts, RoomIsReserved, HeadFits, CallsAreLogged, Logged
  <2>6. WriterHolds'
    BY <1>1, <2>1, <2>2 DEF LogInv, WriterHolds
  <2>7. CommitAlone'
    BY <1>1, <2>1, <2>2, <2>3, CommitFrame
  <2>8. BootIsAlone'
    BY <1>3, <2>1 DEF BootIsAlone, Booting
  <2>q. QED
    BY <1>2, <2>5, <2>6, <2>7, <2>8 DEF LogInv
<1>15. ASSUME NEW b \in Blocks, Bread(b) \/ Evict(b) PROVE LogInv'
  BY <1>3, <1>4, <1>15 DEF Bread, Evict, disk, log, loop, procs, Booting
<1>16. ASSUME RecoverInstall PROVE LogInv'
  BY <1>3, <1>4, <1>16 DEF RecoverInstall, disk, log, procs, Booting, BootPhase
<1>17. ASSUME ReadHead \/ RecoverClear PROVE LogInv'
  <2>1. Booting /\ UNCHANGED <<outstanding, committing, pc, wrote>>
    BY <1>17 DEF ReadHead, RecoverClear, procs, Booting, BootPhase
  <2>2. Len(lh') <= LogSize /\ Len(head') <= LogSize
    BY <1>3, <1>17, LogSizeAssumption DEF ReadHead, RecoverClear, disk, HeadFits
  <2>3. \A q \in Procs : pc'[q] = "user" /\ pc[q] = "user"
    BY <1>3, <2>1 DEF BootIsAlone
  <2>4. Active = {} /\ Active' = {} /\ outstanding' = 0
    BY <1>3, <2>1, <2>3, EmptyActive DEF Active, InCall
  <2>5. OutstandingCounts' /\ RoomIsReserved' /\ WriterHolds' /\ CallsAreLogged' /\ HeadFits'
    BY <1>1, <1>2, <2>1, <2>2, <2>3, <2>4, NobodyInside
  <2>6. CommitAlone' /\ BootIsAlone'
    BY <1>1, <2>1, <2>3, <2>4, CommitFrame DEF BootIsAlone
  <2>q. QED
    BY <1>2, <2>5, <2>6 DEF LogInv
<1>18. ASSUME Crash PROVE LogInv'
  <2>1. /\ Len(lh') = 0 /\ head' = head /\ outstanding' = 0 /\ committing' = FALSE
        /\ \A q \in Procs : pc'[q] = "user" /\ wrote'[q] = {}
    BY <1>18 DEF Crash, disk
  <2>2. Active' = {} /\ Reserve' = {}
    BY <2>1 DEF Active, InCall, Reserve
  <2>3. Cardinality(Active') = 0 /\ Cardinality(Reserve') = 0
    BY <2>2, FS_EmptySet
  <2>4. OutstandingCounts' /\ RoomIsReserved' /\ HeadFits'
    BY <1>3, <2>1, <2>3, LogSizeAssumption DEF OutstandingCounts, RoomIsReserved, HeadFits
  <2>5. WriterHolds' /\ CallsAreLogged' /\ CommitAlone' /\ BootIsAlone'
    BY <2>1, <2>2 DEF WriterHolds, CallsAreLogged, CommitAlone, BootIsAlone
  <2>q. QED
    BY <1>2, <2>4, <2>5 DEF LogInv
<1>19. ASSUME UNCHANGED vars PROVE LogInv'
  BY <1>4, <1>19 DEF vars, disk, log, loop, procs, Booting
<1>q. QED
  BY <1>1, <1>5, <1>6, <1>7, <1>8, <1>9, <1>10, <1>12, <1>13, <1>14, <1>15, <1>16, <1>17,
     <1>18, <1>19 DEF Next, Commit, Recover

-----------------------------------------------------------------------------
(* Theorems *)

LEMMA Invariance == Spec => []LogInv
<1>1. Init => LogInv
  BY InvInit
<1>2. LogInv /\ [Next]_vars => LogInv'
  BY StepInv
<1>q. QED
  BY <1>1, <1>2, PTL DEF Spec

\* Every variable of log.c, of the cache and of the disk keeps its type.
THEOREM TypeCorrect == Spec => []TypeOK
<1>1. LogInv => TypeOK
  BY DEF LogInv
<1>q. QED
  BY <1>1, Invariance, PTL

\* log.outstanding counts the calls under way, and a commit is the only one
\* and has the file system to itself, for any number of processes.
THEOREM CommitExclusion == Spec => [](OutstandingCounts /\ CommitAlone)
<1>1. LogInv => OutstandingCounts /\ CommitAlone
  BY DEF LogInv
<1>q. QED
  BY <1>1, Invariance, PTL

\* log_write never stores beyond log.lh.block[], for any LOGSIZE and
\* MAXOPBLOCKS, as long as a call logs at most MAXOPBLOCKS distinct blocks.
THEOREM LogNeverOverflows == Spec => []RoomIsReserved
<1>1. LogInv => RoomIsReserved
  BY DEF LogInv
<1>q. QED
  BY <1>1, Invariance, PTL
-----------------------------------------------------------------------------
(* The data: the inductive invariant behind crash safety *)

\* commit() is under way exactly while log.committing is set, and the index of
\* a copying loop stays within the header.
PhaseFollows ==
  /\ committing <=> phase \in CommitPhase
  /\ tail <= Len(lh)
  /\ phase \notin {"write_log", "install", "recover_install"} => tail = 0

\* log_write absorbs: no block has two entries in a header.
EntriesDiffer ==
  /\ \A i, j \in 1..Len(lh) : lh[i] = lh[j] => i = j
  /\ \A i, j \in 1..Len(head) : head[i] = head[j] => i = j

\* The header on the disk is empty except between the write that commits and
\* the one that clears; from then on it is the header in memory.
HeaderFollows ==
  /\ phase \in {"none", "start", "write_log", "write_head", "finish"} => head = << >>
  /\ phase \in {"install", "clear", "recover_install", "recover_clear"} => head = lh
  /\ phase \in {"read_head", "finish"} => lh = << >>
  /\ phase = "none" /\ outstanding = 0 => lh = << >>

\* A process has a buffer locked only inside log_write (or where that
\* panicked), and that buffer holds data.
BuffersAreHeld ==
  \A p \in Procs : buf[p] # NoBlock =>
    /\ pc[p] \in {"log_write", "panicked"}
    /\ cache[buf[p]] # NoVal

\* Entry i of the header has been copied to its home block.
Installed(i) == \/ phase \in {"install", "recover_install"} /\ i <= tail
                \/ phase \in {"clear", "recover_clear"}

\* B_DIRTY pins in the cache exactly the logged blocks that are not yet
\* installed; at boot the cache has none.
DirtyIsLogged ==
  /\ \A b \in Blocks : b \in dirty <=>
       ~Booting /\ \E i \in 1..Len(lh) : lh[i] = b /\ ~Installed(i)
  /\ \A b \in dirty : cache[b] # NoVal

\* A cached block that is neither dirty nor being modified is the one on the
\* disk, so that bget loses nothing when it recycles the buffer.
CleanIsHome ==
  \A b \in Blocks : cache[b] # NoVal /\ b \notin dirty /\ ~Held(b) => cache[b] = home[b]

\* The log blocks written so far are those of the transaction, and the entries
\* installed so far are at home.
SlotsFollow ==
  \A i \in 1..Len(lh) :
    /\ \/ phase = "write_log" /\ i <= tail
       \/ phase \in {"write_head", "install", "clear"}
       => slot[i] = Contents(lh[i])
    /\ Installed(i) => home[lh[i]] = slot[i]

DataInv == /\ PhaseFollows /\ EntriesDiffer /\ HeaderFollows /\ BuffersAreHeld
           /\ DirtyIsLogged /\ CleanIsHome /\ SlotsFollow

\* While commit() or the recovery runs, no call is under way and no buffer is
\* locked.
LEMMA QuietTimes ==
  ASSUME LogInv, DataInv, committing \/ Booting
  PROVE  /\ Active = {}
         /\ \A b \in Blocks : ~Held(b)
         /\ \A p \in Procs : pc[p] \notin {"in_op", "log_write", "panicked"}
<1>1. \A p \in Procs : pc[p] \notin InCall
  BY DEF LogInv, CommitAlone, BootIsAlone, Active, InCall
<1>2. Active = {}
  BY <1>1 DEF Active
<1>3. \A p \in Procs : buf[p] = NoBlock
  BY <1>1 DEF DataInv, BuffersAreHeld, InCall
<1>q. QED
  BY <1>1, <1>2, <1>3, NoneAssumption DEF Held, InCall

\* A call runs neither during recovery nor during a commit.
LEMMA CallTimes ==
  ASSUME LogInv, DataInv, NEW p \in Procs, pc[p] \in InCall
  PROVE  phase = "none" /\ ~committing /\ outstanding # 0 /\ tail = 0
<1>1. ~committing /\ ~Booting /\ phase \in Phase /\ outstanding = Cardinality(Active)
  BY DEF LogInv, TypeOK, CommitAlone, BootIsAlone, OutstandingCounts, Active, InCall
<1>2. phase = "none"
  BY <1>1 DEF DataInv, PhaseFollows, Phase, Booting
<1>3. p \in Active
  BY DEF Active
<1>4. outstanding # 0
  BY <1>1, <1>3, ActiveIsFinite, FS_EmptySet
<1>q. QED
  BY <1>1, <1>2, <1>4 DEF DataInv, PhaseFollows

\* The process in commit() is inside one of its phases.
LEMMA CommitTimes ==
  ASSUME LogInv, DataInv, NEW p \in Procs, pc[p] = "commit"
  PROVE  committing /\ phase \in CommitPhase /\ ~Booting /\ outstanding = 0
<1>1. committing /\ phase \in CommitPhase
  BY DEF LogInv, CommitAlone, DataInv, PhaseFollows
<1>2. outstanding = 0
  BY <1>1, EmptyActive DEF LogInv, CommitAlone
<1>q. QED
  BY <1>1, <1>2 DEF Booting, BootPhase, CommitPhase

\* Types of the header and of its entries.
LEMMA HeaderTypes ==
  ASSUME LogInv
  PROVE  /\ lh \in Seq(Blocks) /\ Len(lh) \in Nat /\ Len(lh) <= LogSize
         /\ \A i \in 1..Len(lh) : lh[i] \in Blocks /\ i \in 1..LogSize /\ slot[i] \in Vals
         /\ head \in Seq(Blocks) /\ Len(head) \in Nat /\ Len(head) <= LogSize
         /\ tail \in Nat /\ outstanding \in Nat
         /\ home \in [Blocks -> Vals] /\ slot \in [1..LogSize -> Vals]
         /\ cache \in [Blocks -> Vals \cup {NoVal}] /\ dirty \subseteq Blocks
         /\ pc \in [Procs -> PC] /\ buf \in [Procs -> Blocks \cup {NoBlock}]
<1>1. TypeOK /\ Len(lh) \in Nat /\ Len(lh) <= LogSize /\ HeadFits
  BY LhFits DEF LogInv
<1>2. \A i \in 1..Len(lh) : lh[i] \in Blocks /\ i \in 1..LogSize
  BY <1>1, LogSizeAssumption DEF TypeOK
<1>3. \A i \in 1..LogSize : slot[i] \in Vals
  BY <1>1 DEF TypeOK
<1>q. QED
  BY <1>1, <1>2, <1>3 DEF TypeOK, HeadFits

\* Recording a block logs that block and no other.
LEMMA RecordedAdds ==
  ASSUME TypeOK, NEW c \in Blocks
  PROVE  \A b \in Blocks : Logged(Recorded(c), b) <=> Logged(lh, b) \/ b = c
<1>1. lh \in Seq(Blocks) /\ Len(lh) \in Nat
  BY DEF TypeOK
<1>2. CASE Logged(lh, c)
  BY <1>2 DEF Recorded
<1>3. CASE ~Logged(lh, c)
  <2>1. Recorded(c) = Append(lh, c)
    BY <1>3 DEF Recorded
  <2>2. /\ Len(Append(lh, c)) = Len(lh) + 1
        /\ Append(lh, c)[Len(lh) + 1] = c
        /\ \A i \in 1..Len(lh) : Append(lh, c)[i] = lh[i]
        /\ \A i \in 1..(Len(lh) + 1) : i \in 1..Len(lh) \/ i = Len(lh) + 1
        /\ \A i \in 1..Len(lh) : i \in 1..(Len(lh) + 1)
        /\ Len(lh) + 1 \in 1..(Len(lh) + 1)
    BY <1>1
  <2>q. QED
    BY <2>1, <2>2 DEF Logged
<1>q. QED
  BY <1>2, <1>3

\* Phases, log.committing and the loop index stay together.
LEMMA PhaseStep == LogInv /\ DataInv /\ [Next]_vars => PhaseFollows'
<1> SUFFICES ASSUME LogInv, DataInv, [Next]_vars PROVE PhaseFollows'
  OBVIOUS
<1> USE DEF vars, disk, bcache, log, loop, procs, Phase, BootPhase, CommitPhase, Booting, PhaseFollows
<1>a. /\ PhaseFollows /\ HeaderFollows /\ lh \in Seq(Blocks) /\ Len(lh) \in Nat /\ tail \in Nat
      /\ phase \in Phase
  BY HeaderTypes DEF LogInv, DataInv, TypeOK
<1>1. ASSUME NEW p \in Procs, EnterOp(p) PROVE PhaseFollows'
  BY <1>a, <1>1 DEF EnterOp
<1>2. ASSUME NEW p \in Procs, BeginOp(p) PROVE PhaseFollows'
  BY <1>a, <1>2 DEF BeginOp
<1>3. ASSUME NEW p \in Procs, KillSleeper(p) PROVE PhaseFollows'
  BY <1>a, <1>3 DEF KillSleeper
<1>4. ASSUME NEW p \in Procs, LogAppend(p) PROVE PhaseFollows'
  <2>1. tail = 0 /\ phase = "none"
    BY <1>4, CallTimes DEF LogAppend, InCall
  <2>2. buf[p] \in Blocks
    BY <1>4 DEF LogAppend, LogInv, WriterHolds
  <2>3. Len(lh') \in Nat
    BY <1>4, <2>2, RecordedFacts DEF LogAppend, LogInv
  <2>q. QED
    BY <1>a, <1>4, <2>1, <2>3 DEF LogAppend
<1>5. ASSUME NEW p \in Procs, EndOp(p) PROVE PhaseFollows'
  <2>1. tail = 0 /\ phase = "none" /\ ~committing
    BY <1>5, CallTimes DEF EndOp, InCall
  <2>q. QED
    BY <1>a, <1>5, <2>1 DEF EndOp
<1>6. ASSUME NEW p \in Procs, StartCommit(p) PROVE PhaseFollows'
  BY <1>a, <1>6 DEF StartCommit
<1>7. ASSUME NEW p \in Procs, WriteLog(p) PROVE PhaseFollows'
  BY <1>a, <1>7 DEF WriteLog
<1>8. ASSUME NEW p \in Procs, WriteHead(p) PROVE PhaseFollows'
  BY <1>a, <1>8 DEF WriteHead
<1>9. ASSUME NEW p \in Procs, Install(p) PROVE PhaseFollows'
  BY <1>a, <1>9 DEF Install
<1>10. ASSUME NEW p \in Procs, ClearLog(p) PROVE PhaseFollows'
  <2>1. tail = 0 /\ Len(<< >>) = 0
    BY <1>a, <1>10 DEF ClearLog
  <2>q. QED
    BY <1>a, <1>10, <2>1 DEF ClearLog
<1>11. ASSUME NEW p \in Procs, FinishCommit(p) PROVE PhaseFollows'
  BY <1>a, <1>11, CommitTimes DEF FinishCommit
<1>12. ASSUME NEW p \in Procs, NEW b \in Blocks, NEW v \in Vals, LogWrite(p, b, v) PROVE PhaseFollows'
  BY <1>a, <1>12 DEF LogWrite
<1>13. ASSUME NEW b \in Blocks, Bread(b) PROVE PhaseFollows'
  BY <1>a, <1>13 DEF Bread
<1>14. ASSUME NEW b \in Blocks, Evict(b) PROVE PhaseFollows'
  BY <1>a, <1>14 DEF Evict
<1>15. ASSUME ReadHead PROVE PhaseFollows'
  <2>1. tail = 0 /\ Len(head) \in Nat
    BY <1>a, <1>15, HeaderTypes DEF ReadHead
  <2>q. QED
    BY <1>a, <1>15, <2>1 DEF ReadHead
<1>16. ASSUME RecoverInstall PROVE PhaseFollows'
  BY <1>a, <1>16 DEF RecoverInstall
<1>17. ASSUME RecoverClear PROVE PhaseFollows'
  <2>1. tail = 0 /\ Len(<< >>) = 0
    BY <1>a, <1>17 DEF RecoverClear
  <2>q. QED
    BY <1>a, <1>17, <2>1 DEF RecoverClear
<1>18. ASSUME Crash PROVE PhaseFollows'
  BY <1>a, <1>18 DEF Crash
<1>19. ASSUME UNCHANGED vars PROVE PhaseFollows'
  BY <1>a, <1>19 DEF vars
<1>q. QED
  BY <1>1, <1>2, <1>3, <1>4, <1>5, <1>6, <1>7, <1>8, <1>9, <1>10, <1>11, <1>12, <1>13, <1>14, <1>15, <1>16, <1>17, <1>18, <1>19 DEF Next, Commit, Recover

\* Absorption keeps the entries of the header different.
LEMMA EntriesStep == LogInv /\ DataInv /\ [Next]_vars => EntriesDiffer'
<1> SUFFICES ASSUME LogInv, DataInv, [Next]_vars PROVE EntriesDiffer'
  OBVIOUS
<1> USE DEF vars, disk, bcache, log, loop, procs, EntriesDiffer
<1>a. EntriesDiffer /\ lh \in Seq(Blocks) /\ Len(lh) \in Nat
  BY HeaderTypes DEF LogInv, DataInv
<1>1. ASSUME NEW p \in Procs, EnterOp(p) PROVE EntriesDiffer'
  BY <1>a, <1>1 DEF EnterOp
<1>2. ASSUME NEW p \in Procs, BeginOp(p) PROVE EntriesDiffer'
  BY <1>a, <1>2 DEF BeginOp
<1>3. ASSUME NEW p \in Procs, KillSleeper(p) PROVE EntriesDiffer'
  BY <1>a, <1>3 DEF KillSleeper
<1>4. ASSUME NEW p \in Procs, LogAppend(p) PROVE EntriesDiffer'
  <2>1. CASE Logged(lh, buf[p])
    BY <1>a, <1>4, <2>1 DEF LogAppend, Recorded
  <2>2. CASE ~Logged(lh, buf[p])
    <3>1. lh' = Append(lh, buf[p]) /\ head' = head
      BY <1>4, <2>2 DEF LogAppend, Recorded
    <3>2. buf[p] \in Blocks
      BY <1>4 DEF LogAppend, LogInv, WriterHolds
    <3>3. /\ Len(lh') = Len(lh) + 1
          /\ \A i \in 1..Len(lh') : i \in 1..Len(lh) \/ i = Len(lh) + 1
          /\ \A i \in 1..Len(lh) : lh'[i] = lh[i] /\ lh'[i] # buf[p]
          /\ lh'[Len(lh) + 1] = buf[p]
      BY <1>a, <2>2, <3>1, <3>2 DEF Logged
    <3>4. \A i, j \in 1..Len(lh') : lh'[i] = lh'[j] => i = j
      BY <1>a, <3>3
    <3>q. QED
      BY <1>a, <3>1, <3>4
  <2>q. QED
    BY <2>1, <2>2
<1>5. ASSUME NEW p \in Procs, EndOp(p) PROVE EntriesDiffer'
  BY <1>a, <1>5 DEF EndOp
<1>6. ASSUME NEW p \in Procs, StartCommit(p) PROVE EntriesDiffer'
  BY <1>a, <1>6 DEF StartCommit
<1>7. ASSUME NEW p \in Procs, WriteLog(p) PROVE EntriesDiffer'
  BY <1>a, <1>7 DEF WriteLog
<1>8. ASSUME NEW p \in Procs, WriteHead(p) PROVE EntriesDiffer'
  BY <1>a, <1>8 DEF WriteHead
<1>9. ASSUME NEW p \in Procs, Install(p) PROVE EntriesDiffer'
  BY <1>a, <1>9 DEF Install
<1>10. ASSUME NEW p \in Procs, ClearLog(p) PROVE EntriesDiffer'
  BY <1>a, <1>10 DEF ClearLog
<1>11. ASSUME NEW p \in Procs, FinishCommit(p) PROVE EntriesDiffer'
  BY <1>a, <1>11 DEF FinishCommit
<1>12. ASSUME NEW p \in Procs, NEW b \in Blocks, NEW v \in Vals, LogWrite(p, b, v) PROVE EntriesDiffer'
  BY <1>a, <1>12 DEF LogWrite
<1>13. ASSUME NEW b \in Blocks, Bread(b) PROVE EntriesDiffer'
  BY <1>a, <1>13 DEF Bread
<1>14. ASSUME NEW b \in Blocks, Evict(b) PROVE EntriesDiffer'
  BY <1>a, <1>14 DEF Evict
<1>15. ASSUME ReadHead PROVE EntriesDiffer'
  BY <1>a, <1>15 DEF ReadHead
<1>16. ASSUME RecoverInstall PROVE EntriesDiffer'
  BY <1>a, <1>16 DEF RecoverInstall
<1>17. ASSUME RecoverClear PROVE EntriesDiffer'
  BY <1>a, <1>17 DEF RecoverClear
<1>18. ASSUME Crash PROVE EntriesDiffer'
  BY <1>a, <1>18 DEF Crash
<1>19. ASSUME UNCHANGED vars PROVE EntriesDiffer'
  BY <1>a, <1>19 DEF vars
<1>q. QED
  BY <1>1, <1>2, <1>3, <1>4, <1>5, <1>6, <1>7, <1>8, <1>9, <1>10, <1>11, <1>12, <1>13, <1>14, <1>15, <1>16, <1>17, <1>18, <1>19 DEF Next, Commit, Recover

\* The header on the disk keeps up with the phase.
LEMMA HeaderStep == LogInv /\ DataInv /\ [Next]_vars => HeaderFollows'
<1> SUFFICES ASSUME LogInv, DataInv, [Next]_vars PROVE HeaderFollows'
  OBVIOUS
<1> USE DEF vars, disk, bcache, log, loop, procs, Phase, BootPhase, CommitPhase, Booting, HeaderFollows
<1>a. HeaderFollows /\ outstanding \in Nat
  BY HeaderTypes DEF DataInv
<1>b. lh \in Seq(Blocks) /\ Len(lh) \in Nat
  BY HeaderTypes
<1>1. ASSUME NEW p \in Procs, EnterOp(p) PROVE HeaderFollows'
  BY <1>a, <1>1 DEF EnterOp
<1>2. ASSUME NEW p \in Procs, BeginOp(p) PROVE HeaderFollows'
  <2>1. ~Booting
    BY <1>2 DEF BeginOp, LogInv, BootIsAlone
  <2>q. QED
    BY <1>a, <1>2, <2>1 DEF BeginOp
<1>3. ASSUME NEW p \in Procs, KillSleeper(p) PROVE HeaderFollows'
  BY <1>a, <1>3 DEF KillSleeper
<1>4. ASSUME NEW p \in Procs, LogAppend(p) PROVE HeaderFollows'
  <2>1. phase = "none" /\ outstanding # 0
    BY <1>4, CallTimes DEF LogAppend, InCall
  <2>q. QED
    BY <1>a, <1>4, <2>1 DEF LogAppend
<1>5. ASSUME NEW p \in Procs, EndOp(p) PROVE HeaderFollows'
  <2>1. phase = "none" /\ outstanding # 0 /\ ~committing
    BY <1>5, CallTimes DEF EndOp, InCall
  <2>q. QED
    BY <1>a, <1>5, <2>1 DEF EndOp
<1>6. ASSUME NEW p \in Procs, StartCommit(p) PROVE HeaderFollows'
  <2>1. lh = << >> \/ Len(lh) > 0
    BY <1>b
  <2>q. QED
    BY <1>a, <1>6, <2>1 DEF StartCommit
<1>7. ASSUME NEW p \in Procs, WriteLog(p) PROVE HeaderFollows'
  BY <1>a, <1>7 DEF WriteLog
<1>8. ASSUME NEW p \in Procs, WriteHead(p) PROVE HeaderFollows'
  BY <1>a, <1>8 DEF WriteHead
<1>9. ASSUME NEW p \in Procs, Install(p) PROVE HeaderFollows'
  BY <1>a, <1>9 DEF Install
<1>10. ASSUME NEW p \in Procs, ClearLog(p) PROVE HeaderFollows'
  BY <1>a, <1>10 DEF ClearLog
<1>11. ASSUME NEW p \in Procs, FinishCommit(p) PROVE HeaderFollows'
  BY <1>a, <1>11 DEF FinishCommit
<1>12. ASSUME NEW p \in Procs, NEW b \in Blocks, NEW v \in Vals, LogWrite(p, b, v) PROVE HeaderFollows'
  BY <1>a, <1>12 DEF LogWrite
<1>13. ASSUME NEW b \in Blocks, Bread(b) PROVE HeaderFollows'
  BY <1>a, <1>13 DEF Bread
<1>14. ASSUME NEW b \in Blocks, Evict(b) PROVE HeaderFollows'
  BY <1>a, <1>14 DEF Evict
<1>15. ASSUME ReadHead PROVE HeaderFollows'
  BY <1>a, <1>15 DEF ReadHead
<1>16. ASSUME RecoverInstall PROVE HeaderFollows'
  BY <1>a, <1>16 DEF RecoverInstall
<1>17. ASSUME RecoverClear PROVE HeaderFollows'
  BY <1>a, <1>17 DEF RecoverClear
<1>18. ASSUME Crash PROVE HeaderFollows'
  BY <1>a, <1>18 DEF Crash
<1>19. ASSUME UNCHANGED vars PROVE HeaderFollows'
  BY <1>a, <1>19 DEF vars
<1>q. QED
  BY <1>1, <1>2, <1>3, <1>4, <1>5, <1>6, <1>7, <1>8, <1>9, <1>10, <1>11, <1>12, <1>13, <1>14, <1>15, <1>16, <1>17, <1>18, <1>19 DEF Next, Commit, Recover

\* A locked buffer stays with its process, and in the cache.
LEMMA BuffersStep == LogInv /\ DataInv /\ [Next]_vars => BuffersAreHeld'
<1> SUFFICES ASSUME LogInv, DataInv, [Next]_vars PROVE BuffersAreHeld'
  OBVIOUS
<1> USE DEF vars, disk, bcache, log, loop, procs, BuffersAreHeld
<1>a. /\ BuffersAreHeld
      /\ cache \in [Blocks -> Vals \cup {NoVal}] /\ pc \in [Procs -> PC]
      /\ buf \in [Procs -> Blocks \cup {NoBlock}]
  BY HeaderTypes DEF DataInv
<1>b. \A b \in Blocks : Contents(b) \in Vals
  BY ContentsType DEF LogInv
<1>c. NoVal \notin Vals /\ \A i \in 1..Len(lh) : lh[i] \in Blocks /\ slot[i] \in Vals
  BY HeaderTypes, NoneAssumption
<1>d. tail \in Nat /\ Len(lh) \in Nat
  BY HeaderTypes
<1>1. ASSUME NEW p \in Procs, EnterOp(p) PROVE BuffersAreHeld'
  BY <1>a, <1>1 DEF EnterOp
<1>2. ASSUME NEW p \in Procs, BeginOp(p) PROVE BuffersAreHeld'
  BY <1>a, <1>2 DEF BeginOp
<1>3. ASSUME NEW p \in Procs, KillSleeper(p) PROVE BuffersAreHeld'
  BY <1>a, <1>3 DEF KillSleeper
<1>4. ASSUME NEW p \in Procs, LogAppend(p) PROVE BuffersAreHeld'
  BY <1>a, <1>4 DEF LogAppend
<1>5. ASSUME NEW p \in Procs, EndOp(p) PROVE BuffersAreHeld'
  <2>1. \A q \in Procs : Woken[q] = pc[q] \/ (pc[q] = "asleep" /\ Woken[q] = "begin_op")
    BY WokenFacts DEF LogInv
  <2>2. Woken \in [Procs -> PC]
    BY WokenFacts DEF LogInv
  <2>q. QED
    BY <1>a, <1>5, <2>1, <2>2 DEF EndOp
<1>6. ASSUME NEW p \in Procs, StartCommit(p) PROVE BuffersAreHeld'
  BY <1>a, <1>6 DEF StartCommit
<1>7. ASSUME NEW p \in Procs, WriteLog(p) PROVE BuffersAreHeld'
  <2>1. CASE tail < Len(lh)
    <3>1. tail + 1 \in 1..Len(lh)
      BY <1>d, <2>1
    <3>q. QED
      BY <1>a, <1>b, <1>c, <1>d, <1>7, <2>1, <3>1 DEF WriteLog
  <2>2. CASE ~(tail < Len(lh))
    BY <1>a, <1>7, <2>2 DEF WriteLog
  <2>q. QED
    BY <2>1, <2>2
<1>8. ASSUME NEW p \in Procs, WriteHead(p) PROVE BuffersAreHeld'
  BY <1>a, <1>8 DEF WriteHead
<1>9. ASSUME NEW p \in Procs, Install(p) PROVE BuffersAreHeld'
  <2>1. CASE tail < Len(lh)
    <3>1. tail + 1 \in 1..Len(lh)
      BY <1>d, <2>1
    <3>q. QED
      BY <1>a, <1>b, <1>c, <1>d, <1>9, <2>1, <3>1 DEF Install, InstallBlock
  <2>2. CASE ~(tail < Len(lh))
    BY <1>a, <1>9, <2>2 DEF Install
  <2>q. QED
    BY <2>1, <2>2
<1>10. ASSUME NEW p \in Procs, ClearLog(p) PROVE BuffersAreHeld'
  BY <1>a, <1>10 DEF ClearLog
<1>11. ASSUME NEW p \in Procs, FinishCommit(p) PROVE BuffersAreHeld'
  <2>1. \A q \in Procs : Woken[q] = pc[q] \/ (pc[q] = "asleep" /\ Woken[q] = "begin_op")
    BY WokenFacts DEF LogInv
  <2>2. Woken \in [Procs -> PC]
    BY WokenFacts DEF LogInv
  <2>q. QED
    BY <1>a, <1>11, <2>1, <2>2 DEF FinishCommit
<1>12. ASSUME NEW p \in Procs, NEW b \in Blocks, NEW v \in Vals, LogWrite(p, b, v) PROVE BuffersAreHeld'
  BY <1>a, <1>c, <1>12 DEF LogWrite
<1>13. ASSUME NEW b \in Blocks, Bread(b) PROVE BuffersAreHeld'
  <2>1. home[b] \in Vals
    BY HeaderTypes
  <2>q. QED
    BY <1>a, <1>c, <1>13, <2>1 DEF Bread
<1>14. ASSUME NEW b \in Blocks, Evict(b) PROVE BuffersAreHeld'
  BY <1>a, <1>14 DEF Evict, Recyclable, Held
<1>15. ASSUME ReadHead PROVE BuffersAreHeld'
  BY <1>a, <1>15 DEF ReadHead
<1>16. ASSUME RecoverInstall PROVE BuffersAreHeld'
  <2>1. CASE tail < Len(lh)
    <3>1. tail + 1 \in 1..Len(lh)
      BY <1>d, <2>1
    <3>q. QED
      BY <1>a, <1>b, <1>c, <1>d, <1>16, <2>1, <3>1 DEF RecoverInstall, InstallBlock
  <2>2. CASE ~(tail < Len(lh))
    BY <1>a, <1>16, <2>2 DEF RecoverInstall
  <2>q. QED
    BY <2>1, <2>2
<1>17. ASSUME RecoverClear PROVE BuffersAreHeld'
  BY <1>a, <1>17 DEF RecoverClear
<1>18. ASSUME Crash PROVE BuffersAreHeld'
  BY <1>a, <1>18 DEF Crash
<1>19. ASSUME UNCHANGED vars PROVE BuffersAreHeld'
  BY <1>a, <1>19 DEF vars
<1>q. QED
  BY <1>1, <1>2, <1>3, <1>4, <1>5, <1>6, <1>7, <1>8, <1>9, <1>10, <1>11, <1>12, <1>13, <1>14, <1>15, <1>16, <1>17, <1>18, <1>19 DEF Next, Commit, Recover

\* A logged block is pinned from its log_write until it is installed.
LEMMA DirtyStep == LogInv /\ DataInv /\ [Next]_vars => DirtyIsLogged'
<1> SUFFICES ASSUME LogInv, DataInv, [Next]_vars PROVE DirtyIsLogged'
  OBVIOUS
<1> USE DEF vars, disk, bcache, log, loop, procs, Phase, BootPhase, CommitPhase, Booting, DirtyIsLogged, Installed
<1>a. /\ DirtyIsLogged /\ lh \in Seq(Blocks) /\ Len(lh) \in Nat /\ tail \in Nat
      /\ cache \in [Blocks -> Vals \cup {NoVal}] /\ dirty \subseteq Blocks
      /\ PhaseFollows /\ HeaderFollows /\ phase \in Phase
  BY HeaderTypes DEF DataInv, LogInv, TypeOK
<1>b. \A b \in Blocks : Contents(b) \in Vals
  BY ContentsType DEF LogInv
<1>c. NoVal \notin Vals /\ \A i \in 1..Len(lh) : lh[i] \in Blocks /\ slot[i] \in Vals
  BY HeaderTypes, NoneAssumption
<1>d. EntriesDiffer
  BY DEF DataInv
<1>1. ASSUME NEW p \in Procs, EnterOp(p) PROVE DirtyIsLogged'
  BY <1>a, <1>1 DEF EnterOp
<1>2. ASSUME NEW p \in Procs, BeginOp(p) PROVE DirtyIsLogged'
  BY <1>a, <1>2 DEF BeginOp
<1>3. ASSUME NEW p \in Procs, KillSleeper(p) PROVE DirtyIsLogged'
  BY <1>a, <1>3 DEF KillSleeper
<1>4. ASSUME NEW p \in Procs, LogAppend(p) PROVE DirtyIsLogged'
  <2>1. phase = "none" /\ tail = 0
    BY <1>4, CallTimes DEF LogAppend, InCall
  <2>2. buf[p] \in Blocks /\ cache[buf[p]] # NoVal
    BY <1>4, NoneAssumption DEF LogAppend, LogInv, WriterHolds, DataInv, BuffersAreHeld
  <2>3. \A b \in Blocks : b \in dirty <=> Logged(lh, b)
    BY <1>a, <2>1 DEF Logged
  <2>4. \A b \in Blocks : Logged(lh', b) <=> Logged(lh, b) \/ b = buf[p]
    BY <1>4, <1>a, <2>2, RecordedAdds DEF LogAppend, LogInv
  <2>5. \A b \in Blocks : b \in dirty' <=> Logged(lh', b)
    BY <1>4, <1>a, <2>3, <2>4 DEF LogAppend
  <2>q. QED
    BY <1>a, <1>4, <2>1, <2>2, <2>5 DEF LogAppend, Logged
<1>5. ASSUME NEW p \in Procs, EndOp(p) PROVE DirtyIsLogged'
  <2>1. phase = "none" /\ tail = 0 /\ ~committing
    BY <1>5, CallTimes DEF EndOp, InCall
  <2>q. QED
    BY <1>a, <1>5, <2>1 DEF EndOp
<1>6. ASSUME NEW p \in Procs, StartCommit(p) PROVE DirtyIsLogged'
  BY <1>a, <1>6 DEF StartCommit
<1>7. ASSUME NEW p \in Procs, WriteLog(p) PROVE DirtyIsLogged'
  <2>1. CASE tail < Len(lh)
    <3>1. tail + 1 \in 1..Len(lh)
      BY <1>a, <2>1
    <3>q. QED
      BY <1>a, <1>b, <1>c, <1>7, <2>1, <3>1 DEF WriteLog
  <2>2. CASE ~(tail < Len(lh))
    BY <1>a, <1>7, <2>2 DEF WriteLog
  <2>q. QED
    BY <2>1, <2>2
<1>8. ASSUME NEW p \in Procs, WriteHead(p) PROVE DirtyIsLogged'
  <2>1. tail = 0 /\ phase' = "install" /\ UNCHANGED <<tail, lh, dirty, cache>> /\ phase = "write_head"
    BY <1>a, <1>8 DEF WriteHead, PhaseFollows
  <2>q. QED
    BY <1>a, <2>1
<1>9. ASSUME NEW p \in Procs, Install(p) PROVE DirtyIsLogged'
  <2>1. CASE tail < Len(lh)
    <3>1. tail + 1 \in 1..Len(lh)
      BY <1>a, <2>1
    <3>2. /\ dirty' = dirty \ {lh[tail + 1]} /\ tail' = tail + 1
          /\ cache' = [cache EXCEPT ![lh[tail + 1]] = slot[tail + 1]]
          /\ phase = "install" /\ phase' = "install" /\ lh' = lh
      BY <1>a, <1>9, <2>1 DEF Install, InstallBlock
    <3>3. \A b \in dirty' : cache'[b] # NoVal
      BY <1>a, <1>c, <3>1, <3>2
    <3>4. ASSUME NEW b \in Blocks
          PROVE  b \in dirty' <=> \E i \in 1..Len(lh) : lh[i] = b /\ ~(i <= tail + 1)
      <4>1. b \in dirty <=> \E i \in 1..Len(lh) : lh[i] = b /\ ~(i <= tail)
        BY <1>a, <3>2
      <4>2. CASE b = lh[tail + 1]
        BY <1>a, <1>d, <3>1, <3>2, <4>2 DEF EntriesDiffer
      <4>3. CASE b # lh[tail + 1]
        <5>1. \A i \in 1..Len(lh) : lh[i] = b => (i <= tail <=> i <= tail + 1)
          BY <1>a, <4>3
        <5>q. QED
          BY <3>2, <4>1, <4>3, <5>1
      <4>q. QED
        BY <4>2, <4>3
    <3>q. QED
      BY <3>2, <3>3, <3>4
  <2>2. CASE ~(tail < Len(lh))
    BY <1>a, <1>9, <2>2 DEF Install
  <2>q. QED
    BY <2>1, <2>2
<1>10. ASSUME NEW p \in Procs, ClearLog(p) PROVE DirtyIsLogged'
  BY <1>a, <1>10 DEF ClearLog
<1>11. ASSUME NEW p \in Procs, FinishCommit(p) PROVE DirtyIsLogged'
  <2>1. /\ phase' = "none" /\ phase = "finish" /\ lh' = lh /\ Len(lh) = 0
        /\ dirty' = dirty /\ cache' = cache
    BY <1>a, <1>11 DEF FinishCommit, HeaderFollows
  <2>q. QED
    BY <1>a, <1>11, <2>1 DEF FinishCommit
<1>12. ASSUME NEW p \in Procs, NEW b \in Blocks, NEW v \in Vals, LogWrite(p, b, v) PROVE DirtyIsLogged'
  BY <1>a, <1>c, <1>12 DEF LogWrite
<1>13. ASSUME NEW b \in Blocks, Bread(b) PROVE DirtyIsLogged'
  <2>1. home[b] \in Vals
    BY HeaderTypes
  <2>q. QED
    BY <1>a, <1>c, <1>13, <2>1 DEF Bread
<1>14. ASSUME NEW b \in Blocks, Evict(b) PROVE DirtyIsLogged'
  BY <1>a, <1>14 DEF Evict, Recyclable
<1>15. ASSUME ReadHead PROVE DirtyIsLogged'
  BY <1>a, <1>15 DEF ReadHead
<1>16. ASSUME RecoverInstall PROVE DirtyIsLogged'
  <2>1. dirty = {}
    BY <1>a, <1>16 DEF RecoverInstall
  <2>q. QED
    BY <1>a, <1>16, <2>1 DEF RecoverInstall, InstallBlock
<1>17. ASSUME RecoverClear PROVE DirtyIsLogged'
  BY <1>a, <1>17 DEF RecoverClear
<1>18. ASSUME Crash PROVE DirtyIsLogged'
  BY <1>a, <1>18 DEF Crash
<1>19. ASSUME UNCHANGED vars PROVE DirtyIsLogged'
  BY <1>a, <1>19 DEF vars
<1>q. QED
  BY <1>1, <1>2, <1>3, <1>4, <1>5, <1>6, <1>7, <1>8, <1>9, <1>10, <1>11, <1>12, <1>13, <1>14, <1>15, <1>16, <1>17, <1>18, <1>19 DEF Next, Commit, Recover

\* Whoever changes a cached block holds it, dirties it or writes it home.
LEMMA CleanStep == LogInv /\ DataInv /\ [Next]_vars => CleanIsHome'
<1> SUFFICES ASSUME LogInv, DataInv, [Next]_vars PROVE CleanIsHome'
  OBVIOUS
<1> USE DEF vars, disk, bcache, log, loop, procs, CleanIsHome
<1>a. /\ CleanIsHome /\ lh \in Seq(Blocks) /\ Len(lh) \in Nat /\ tail \in Nat
      /\ cache \in [Blocks -> Vals \cup {NoVal}] /\ home \in [Blocks -> Vals]
      /\ buf \in [Procs -> Blocks \cup {NoBlock}]
      /\ \A i \in 1..Len(lh) : lh[i] \in Blocks
  BY HeaderTypes DEF DataInv
<1>1. ASSUME NEW p \in Procs, EnterOp(p) PROVE CleanIsHome'
  BY <1>a, <1>1 DEF EnterOp, Held
<1>2. ASSUME NEW p \in Procs, BeginOp(p) PROVE CleanIsHome'
  BY <1>a, <1>2 DEF BeginOp, Held
<1>3. ASSUME NEW p \in Procs, KillSleeper(p) PROVE CleanIsHome'
  BY <1>a, <1>3 DEF KillSleeper, Held
<1>4. ASSUME NEW p \in Procs, LogAppend(p) PROVE CleanIsHome'
  <2>1. ASSUME NEW b \in Blocks, b # buf[p] PROVE Held(b)' <=> Held(b)
    BY <1>a, <1>4, <2>1, NoneAssumption DEF LogAppend, Held
  <2>q. QED
    BY <1>a, <1>4, <2>1 DEF LogAppend
<1>5. ASSUME NEW p \in Procs, EndOp(p) PROVE CleanIsHome'
  BY <1>a, <1>5 DEF EndOp, Held
<1>6. ASSUME NEW p \in Procs, StartCommit(p) PROVE CleanIsHome'
  BY <1>a, <1>6 DEF StartCommit, Held
<1>7. ASSUME NEW p \in Procs, WriteLog(p) PROVE CleanIsHome'
  <2>1. CASE tail < Len(lh)
    <3>1. tail + 1 \in 1..Len(lh) /\ lh[tail + 1] \in Blocks
      BY <1>a, <2>1
    <3>2. /\ cache' = [cache EXCEPT ![lh[tail + 1]] = Contents(lh[tail + 1])]
          /\ UNCHANGED <<home, dirty, buf>>
      BY <1>a, <1>7, <2>1 DEF WriteLog
    <3>q. QED
      BY <1>a, <3>1, <3>2 DEF Held, Contents
  <2>2. CASE ~(tail < Len(lh))
    BY <1>a, <1>7, <2>2 DEF WriteLog, Held
  <2>q. QED
    BY <2>1, <2>2
<1>8. ASSUME NEW p \in Procs, WriteHead(p) PROVE CleanIsHome'
  BY <1>a, <1>8 DEF WriteHead, Held
<1>9. ASSUME NEW p \in Procs, Install(p) PROVE CleanIsHome'
  <2>1. CASE tail < Len(lh)
    <3>1. tail + 1 \in 1..Len(lh) /\ lh[tail + 1] \in Blocks
      BY <1>a, <2>1
    <3>2. InstallBlock(tail + 1) /\ UNCHANGED buf
      BY <1>a, <1>9, <2>1 DEF Install
    <3>q. QED
      BY <1>a, <3>1, <3>2 DEF Held, InstallBlock
  <2>2. CASE ~(tail < Len(lh))
    BY <1>a, <1>9, <2>2 DEF Install, Held
  <2>q. QED
    BY <2>1, <2>2
<1>10. ASSUME NEW p \in Procs, ClearLog(p) PROVE CleanIsHome'
  BY <1>a, <1>10 DEF ClearLog, Held
<1>11. ASSUME NEW p \in Procs, FinishCommit(p) PROVE CleanIsHome'
  BY <1>a, <1>11 DEF FinishCommit, Held
<1>12. ASSUME NEW p \in Procs, NEW b \in Blocks, NEW v \in Vals, LogWrite(p, b, v) PROVE CleanIsHome'
  <2>1. ASSUME NEW c \in Blocks, c # b, Held(c) PROVE Held(c)'
    <3>1. \A q \in Procs : q # p => buf'[q] = buf[q]
      BY <1>a, <1>12 DEF LogWrite
    <3>2. buf[p] = NoBlock
      BY <1>12 DEF LogWrite, DataInv, BuffersAreHeld
    <3>q. QED
      BY <2>1, <3>1, <3>2, NoneAssumption DEF Held
  <2>2. Held(b)'
    BY <1>a, <1>12 DEF LogWrite, Held
  <2>q. QED
    BY <1>a, <1>12, <2>1, <2>2 DEF LogWrite
<1>13. ASSUME NEW b \in Blocks, Bread(b) PROVE CleanIsHome'
  BY <1>a, <1>13 DEF Bread, Held
<1>14. ASSUME NEW b \in Blocks, Evict(b) PROVE CleanIsHome'
  BY <1>a, <1>14 DEF Evict, Held
<1>15. ASSUME ReadHead PROVE CleanIsHome'
  BY <1>a, <1>15 DEF ReadHead, Held
<1>16. ASSUME RecoverInstall PROVE CleanIsHome'
  <2>1. CASE tail < Len(lh)
    <3>1. tail + 1 \in 1..Len(lh) /\ lh[tail + 1] \in Blocks
      BY <1>a, <2>1
    <3>2. InstallBlock(tail + 1) /\ UNCHANGED buf
      BY <1>a, <1>16, <2>1 DEF RecoverInstall
    <3>q. QED
      BY <1>a, <3>1, <3>2 DEF Held, InstallBlock
  <2>2. CASE ~(tail < Len(lh))
    BY <1>a, <1>16, <2>2 DEF RecoverInstall, Held
  <2>q. QED
    BY <2>1, <2>2
<1>17. ASSUME RecoverClear PROVE CleanIsHome'
  BY <1>a, <1>17 DEF RecoverClear, Held
<1>18. ASSUME Crash PROVE CleanIsHome'
  BY <1>a, <1>18 DEF Crash
<1>19. ASSUME UNCHANGED vars PROVE CleanIsHome'
  BY <1>a, <1>19 DEF vars, Held
<1>q. QED
  BY <1>1, <1>2, <1>3, <1>4, <1>5, <1>6, <1>7, <1>8, <1>9, <1>10, <1>11, <1>12, <1>13, <1>14, <1>15, <1>16, <1>17, <1>18, <1>19 DEF Next, Commit, Recover

\* The log area holds the transaction from write_log to the next one.
LEMMA SlotsStep == LogInv /\ DataInv /\ [Next]_vars => SlotsFollow'
<1> SUFFICES ASSUME LogInv, DataInv, [Next]_vars PROVE SlotsFollow'
  OBVIOUS
<1> USE DEF vars, disk, bcache, log, loop, procs, Phase, BootPhase, CommitPhase, Booting, SlotsFollow, Installed
<1>a. /\ SlotsFollow /\ lh \in Seq(Blocks) /\ Len(lh) \in Nat /\ tail \in Nat
      /\ Len(lh) <= LogSize /\ \A i \in 1..Len(lh) : lh[i] \in Blocks /\ i \in 1..LogSize
      /\ home \in [Blocks -> Vals] /\ slot \in [1..LogSize -> Vals]
      /\ cache \in [Blocks -> Vals \cup {NoVal}]
      /\ \A i \in 1..LogSize : slot[i] \in Vals
      /\ phase \in Phase /\ PhaseFollows /\ EntriesDiffer
  BY HeaderTypes DEF DataInv, LogInv, TypeOK
<1>b. NoVal \notin Vals
  BY NoneAssumption
<1>1. ASSUME NEW p \in Procs, EnterOp(p) PROVE SlotsFollow'
  BY <1>a, <1>1 DEF EnterOp, Contents
<1>2. ASSUME NEW p \in Procs, BeginOp(p) PROVE SlotsFollow'
  BY <1>a, <1>2 DEF BeginOp, Contents
<1>3. ASSUME NEW p \in Procs, KillSleeper(p) PROVE SlotsFollow'
  BY <1>a, <1>3 DEF KillSleeper, Contents
<1>4. ASSUME NEW p \in Procs, LogAppend(p) PROVE SlotsFollow'
  <2>1. phase = "none" /\ tail = 0
    BY <1>4, CallTimes DEF LogAppend, InCall
  <2>q. QED
    BY <1>a, <1>4, <2>1 DEF LogAppend
<1>5. ASSUME NEW p \in Procs, EndOp(p) PROVE SlotsFollow'
  <2>1. phase = "none" /\ tail = 0 /\ ~committing
    BY <1>5, CallTimes DEF EndOp, InCall
  <2>q. QED
    BY <1>a, <1>5, <2>1 DEF EndOp
<1>6. ASSUME NEW p \in Procs, StartCommit(p) PROVE SlotsFollow'
  <2>1. tail = 0
    BY <1>a, <1>6 DEF StartCommit, PhaseFollows
  <2>q. QED
    BY <1>a, <1>6, <2>1 DEF StartCommit, Contents
<1>7. ASSUME NEW p \in Procs, WriteLog(p) PROVE SlotsFollow'
  <2>1. CASE tail < Len(lh)
    <3> DEFINE b == lh[tail + 1]
    <3>1. tail + 1 \in 1..Len(lh) /\ b \in Blocks /\ tail + 1 \in 1..LogSize
      BY <1>a, <2>1
    <3>2. /\ slot' = [slot EXCEPT ![tail + 1] = Contents(b)]
          /\ cache' = [cache EXCEPT ![b] = Contents(b)]
          /\ tail' = tail + 1
          /\ UNCHANGED <<lh, home, phase>> /\ phase = "write_log"
      BY <1>a, <1>7, <2>1 DEF WriteLog
    <3>3. \A i \in 1..Len(lh) : Contents(lh[i])' = Contents(lh[i])
      BY <1>a, <3>1, <3>2 DEF Contents
    <3>4. \A i \in 1..Len(lh) : i <= tail' => slot'[i] = Contents(lh[i])
      <4>1. \A i \in 1..Len(lh) : i <= tail' => i <= tail \/ i = tail + 1
        BY <1>a, <3>1, <3>2
      <4>2. slot'[tail + 1] = Contents(b) /\ \A i \in 1..LogSize : i # tail + 1 => slot'[i] = slot[i]
        BY <1>a, <3>1, <3>2
      <4>q. QED
        BY <1>a, <3>2, <4>1, <4>2
    <3>q. QED
      BY <1>a, <3>2, <3>3, <3>4
  <2>2. CASE ~(tail < Len(lh))
    <3>1. \A i \in 1..Len(lh) : i <= tail
      BY <1>a, <2>2
    <3>2. /\ phase = "write_log" /\ phase' = "write_head"
          /\ UNCHANGED <<home, cache, slot, lh>>
      BY <1>a, <1>7, <2>2 DEF WriteLog
    <3>q. QED
      BY <1>a, <3>1, <3>2 DEF Contents
  <2>q. QED
    BY <2>1, <2>2
<1>8. ASSUME NEW p \in Procs, WriteHead(p) PROVE SlotsFollow'
  <2>1. tail = 0
    BY <1>a, <1>8 DEF WriteHead, PhaseFollows
  <2>q. QED
    BY <1>a, <1>8, <2>1 DEF WriteHead, Contents
<1>9. ASSUME NEW p \in Procs, Install(p) PROVE SlotsFollow'
  <2>1. CASE tail < Len(lh)
    <3> DEFINE b == lh[tail + 1]
    <3>1. tail + 1 \in 1..Len(lh) /\ b \in Blocks /\ tail + 1 \in 1..LogSize
      BY <1>a, <2>1
    <3>2. /\ home' = [home EXCEPT ![b] = slot[tail + 1]]
          /\ cache' = [cache EXCEPT ![b] = slot[tail + 1]]
          /\ tail' = tail + 1
          /\ UNCHANGED <<lh, slot, phase>> /\ phase = "install"
      BY <1>a, <1>9, <2>1 DEF Install, InstallBlock
    <3>3. \A i \in 1..Len(lh) : Contents(lh[i])' = Contents(lh[i])
      <4>1. \A i \in 1..Len(lh) : lh[i] # b => Contents(lh[i])' = Contents(lh[i])
        BY <1>a, <3>1, <3>2 DEF Contents
      <4>2. slot[tail + 1] = Contents(b)
        BY <1>a, <3>1, <3>2
      <4>3. cache'[b] = slot[tail + 1] /\ slot[tail + 1] # NoVal
        BY <1>a, <1>b, <3>1, <3>2
      <4>4. \A i \in 1..Len(lh) : lh[i] = b => Contents(lh[i])' = Contents(lh[i])
        BY <3>2, <4>2, <4>3 DEF Contents
      <4>q. QED
        BY <4>1, <4>4
    <3>4. \A i \in 1..Len(lh) : i <= tail' => home'[lh[i]] = slot[i]
      <4>1. \A i \in 1..Len(lh) : i <= tail' => i <= tail \/ i = tail + 1
        BY <1>a, <3>1, <3>2
      <4>2. home'[b] = slot[tail + 1] /\ \A c \in Blocks : c # b => home'[c] = home[c]
        BY <1>a, <3>1, <3>2
      <4>3. \A i \in 1..Len(lh) : lh[i] = b => i = tail + 1
        BY <1>a, <3>1 DEF EntriesDiffer
      <4>q. QED
        BY <1>a, <3>2, <4>1, <4>2, <4>3
    <3>q. QED
      BY <1>a, <3>2, <3>3, <3>4
  <2>2. CASE ~(tail < Len(lh))
    BY <1>a, <1>9, <2>2 DEF Install, Contents
  <2>q. QED
    BY <2>1, <2>2
<1>10. ASSUME NEW p \in Procs, ClearLog(p) PROVE SlotsFollow'
  BY <1>a, <1>10 DEF ClearLog
<1>11. ASSUME NEW p \in Procs, FinishCommit(p) PROVE SlotsFollow'
  BY <1>a, <1>11 DEF FinishCommit, Contents
<1>12. ASSUME NEW p \in Procs, NEW b \in Blocks, NEW v \in Vals, LogWrite(p, b, v) PROVE SlotsFollow'
  <2>1. phase = "none" /\ tail = 0
    BY <1>12, CallTimes DEF LogWrite, InCall
  <2>q. QED
    BY <1>a, <1>12, <2>1 DEF LogWrite
<1>13. ASSUME NEW b \in Blocks, Bread(b) PROVE SlotsFollow'
  BY <1>a, <1>b, <1>13 DEF Bread, Contents
<1>14. ASSUME NEW b \in Blocks, Evict(b) PROVE SlotsFollow'
    <2>2. cache[b] = home[b]
    BY <1>14 DEF Evict, Recyclable, DataInv, CleanIsHome
  <2>3. \A i \in 1..Len(lh) : Contents(lh[i])' = Contents(lh[i])
    BY <1>a, <1>b, <1>14, <2>2 DEF Evict, Contents
  <2>q. QED
    BY <1>a, <1>14, <2>3 DEF Evict
<1>15. ASSUME ReadHead PROVE SlotsFollow'
  <2>1. tail = 0
    BY <1>a, <1>15 DEF ReadHead, PhaseFollows
  <2>q. QED
    BY <1>a, <1>15, <2>1 DEF ReadHead
<1>16. ASSUME RecoverInstall PROVE SlotsFollow'
  <2>1. CASE tail < Len(lh)
    <3> DEFINE b == lh[tail + 1]
    <3>1. tail + 1 \in 1..Len(lh) /\ b \in Blocks /\ tail + 1 \in 1..LogSize
      BY <1>a, <2>1
    <3>2. /\ home' = [home EXCEPT ![b] = slot[tail + 1]]
          /\ tail' = tail + 1
          /\ UNCHANGED <<lh, slot, phase>> /\ phase = "recover_install"
      BY <1>a, <1>16, <2>1 DEF RecoverInstall, InstallBlock
    <3>4. \A i \in 1..Len(lh) : i <= tail' => home'[lh[i]] = slot[i]
      <4>1. \A i \in 1..Len(lh) : i <= tail' => i <= tail \/ i = tail + 1
        BY <1>a, <3>1, <3>2
      <4>2. home'[b] = slot[tail + 1] /\ \A c \in Blocks : c # b => home'[c] = home[c]
        BY <1>a, <3>1, <3>2
      <4>3. \A i \in 1..Len(lh) : lh[i] = b => i = tail + 1
        BY <1>a, <3>1 DEF EntriesDiffer
      <4>q. QED
        BY <1>a, <3>2, <4>1, <4>2, <4>3
    <3>q. QED
      BY <1>a, <3>2, <3>4
  <2>2. CASE ~(tail < Len(lh))
    BY <1>a, <1>16, <2>2 DEF RecoverInstall, Contents
  <2>q. QED
    BY <2>1, <2>2
<1>17. ASSUME RecoverClear PROVE SlotsFollow'
  BY <1>a, <1>17 DEF RecoverClear
<1>18. ASSUME Crash PROVE SlotsFollow'
  BY <1>a, <1>18 DEF Crash
<1>19. ASSUME UNCHANGED vars PROVE SlotsFollow'
  BY <1>a, <1>19 DEF vars, Contents
<1>q. QED
  BY <1>1, <1>2, <1>3, <1>4, <1>5, <1>6, <1>7, <1>8, <1>9, <1>10, <1>11, <1>12, <1>13, <1>14, <1>15, <1>16, <1>17, <1>18, <1>19 DEF Next, Commit, Recover

\* At boot the cache and the log in memory are empty, and the disk is of mkfs.
LEMMA DataInit == Init => DataInv
<1> SUFFICES ASSUME Init PROVE DataInv
  OBVIOUS
<1>1. /\ phase = "read_head" /\ tail = 0 /\ ~committing /\ lh = << >> /\ head = << >>
      /\ dirty = {} /\ \A b \in Blocks : cache[b] = NoVal
      /\ \A p \in Procs : buf[p] = NoBlock
  BY DEF Init
<1>2. PhaseFollows /\ EntriesDiffer /\ HeaderFollows
  BY <1>1 DEF PhaseFollows, EntriesDiffer, HeaderFollows, CommitPhase
<1>3. BuffersAreHeld /\ DirtyIsLogged /\ CleanIsHome /\ SlotsFollow
  BY <1>1 DEF BuffersAreHeld, DirtyIsLogged, CleanIsHome, SlotsFollow, Booting, BootPhase
<1>q. QED
  BY <1>2, <1>3 DEF DataInv

LEMMA DataStep == LogInv /\ DataInv /\ [Next]_vars => DataInv'
  BY PhaseStep, EntriesStep, HeaderStep, BuffersStep, DirtyStep, CleanStep, SlotsStep
     DEF DataInv

LEMMA DataInvariance == Spec => [](LogInv /\ DataInv)
<1>1. Init => LogInv /\ DataInv
  BY InvInit, DataInit
<1>2. LogInv /\ DataInv /\ [Next]_vars => (LogInv /\ DataInv)'
  BY StepInv, DataStep
<1>q. QED
  BY <1>1, <1>2, PTL DEF Spec

-----------------------------------------------------------------------------
(* The log implements AtomicDisk *)

\* Of different entries, the last one that names b is the only one.
LEMMA LastEntry ==
  ASSUME NEW h \in Seq(Blocks), \A i, j \in 1..Len(h) : h[i] = h[j] => i = j, NEW b \in Blocks
  PROVE  \A i \in 1..Len(h) : h[i] = b =>
           i = CHOOSE k \in 1..Len(h) :
                 /\ h[k] = b
                 /\ \A j \in 1..Len(h) : h[j] = b => j <= k
<1>1. ASSUME NEW i \in 1..Len(h), h[i] = b
      PROVE  i = CHOOSE k \in 1..Len(h) :
                   /\ h[k] = b
                   /\ \A j \in 1..Len(h) : h[j] = b => j <= k
  <2>1. \A j \in 1..Len(h) : h[j] = b => j <= i
    BY <1>1
  <2>2. \A k \in 1..Len(h) : h[k] = b => k = i
    BY <1>1
  <2>q. QED
    BY <1>1, <2>1, <2>2
<1>q. QED
  BY <1>1

\* What the disk comes back with after a crash: an entry of the header on the
\* disk stands for its log block, any other block for itself.
LEMMA DurableIs ==
  ASSUME TypeOK, EntriesDiffer
  PROVE  /\ Durable = [b \in Blocks |-> Durable[b]]
         /\ \A i \in 1..Len(head) : Durable[head[i]] = slot[i]
         /\ \A b \in Blocks : ~Logged(head, b) => Durable[b] = home[b]
<1>1. head \in Seq(Blocks) /\ \A i \in 1..Len(head) : head[i] \in Blocks
  BY DEF TypeOK
<1>2. \A i, j \in 1..Len(head) : head[i] = head[j] => i = j
  BY DEF EntriesDiffer
<1>3. ASSUME NEW b \in Blocks
      PROVE  /\ \A i \in 1..Len(head) : head[i] = b => Durable[b] = slot[i]
             /\ ~Logged(head, b) => Durable[b] = home[b]
  <2>1. CASE Logged(head, b)
    <3>1. Durable[b] = slot[CHOOSE k \in 1..Len(head) :
                              /\ head[k] = b
                              /\ \A j \in 1..Len(head) : head[j] = b => j <= k]
      BY <2>1 DEF Durable
    <3>2. \A i \in 1..Len(head) : head[i] = b =>
            i = CHOOSE k \in 1..Len(head) :
                  /\ head[k] = b
                  /\ \A j \in 1..Len(head) : head[j] = b => j <= k
      BY <1>1, <1>2, LastEntry
    <3>q. QED
      BY <2>1, <3>1, <3>2
  <2>2. CASE ~Logged(head, b)
    BY <2>2 DEF Durable, Logged
  <2>q. QED
    BY <2>1, <2>2
<1>4. Durable = [b \in Blocks |-> Durable[b]]
  BY DEF Durable
<1>q. QED
  BY <1>1, <1>3, <1>4

\* The same of the next state.
LEMMA DurableNext ==
  ASSUME TypeOK', EntriesDiffer'
  PROVE  /\ Durable' = [b \in Blocks |-> Durable'[b]]
         /\ \A i \in 1..Len(head') : Durable'[head'[i]] = slot'[i]
         /\ \A b \in Blocks : ~Logged(head', b) => Durable'[b] = home'[b]
<1>1. head' \in Seq(Blocks) /\ \A i \in 1..Len(head') : head'[i] \in Blocks
  BY DEF TypeOK
<1>2. \A i, j \in 1..Len(head') : head'[i] = head'[j] => i = j
  BY DEF EntriesDiffer
<1>3. ASSUME NEW b \in Blocks
      PROVE  /\ \A i \in 1..Len(head') : head'[i] = b => Durable'[b] = slot'[i]
             /\ ~Logged(head', b) => Durable'[b] = home'[b]
  <2>1. CASE Logged(head', b)
    <3>1. Durable'[b] = slot'[CHOOSE k \in 1..Len(head') :
                              /\ head'[k] = b
                              /\ \A j \in 1..Len(head') : head'[j] = b => j <= k]
      BY <2>1 DEF Durable
    <3>2. \A i \in 1..Len(head') : head'[i] = b =>
            i = CHOOSE k \in 1..Len(head') :
                  /\ head'[k] = b
                  /\ \A j \in 1..Len(head') : head'[j] = b => j <= k
      BY <1>1, <1>2, LastEntry
    <3>q. QED
      BY <2>1, <3>1, <3>2
  <2>2. CASE ~Logged(head', b)
    BY <2>2 DEF Durable, Logged
  <2>q. QED
    BY <2>1, <2>2
<1>4. Durable' = [b \in Blocks |-> Durable'[b]]
  BY DEF Durable
<1>q. QED
  BY <1>1, <1>3, <1>4

\* A step that leaves the disk and the cache alone (and recovery, whether it
\* is under way or not) changes neither what is durable nor what is read.
LEMMA SameBlocks ==
  ASSUME UNCHANGED <<home, slot, head, cache>>, Booting' <=> Booting
  PROVE  UNCHANGED <<Durable, View>>
<1>1. home' = home /\ slot' = slot /\ head' = head
  OBVIOUS
<1>4. Durable' = Durable
  BY <1>1, SMTT(30) DEF Durable, Logged
<1>2. \A b \in Blocks : Contents(b)' = Contents(b)
  BY DEF Contents
<1>3. [b \in Blocks |-> Contents(b)]' = [b \in Blocks |-> Contents(b)]
  BY <1>2, Zenon
<1>q. QED
  BY <1>4, <1>3 DEF View

\* Two block maps that agree everywhere are equal.
LEMMA SameDurable ==
  ASSUME TypeOK, EntriesDiffer, TypeOK', EntriesDiffer',
         \A b \in Blocks : Durable'[b] = Durable[b]
  PROVE  Durable' = Durable
<1>1. Durable = [b \in Blocks |-> Durable[b]] /\ Durable' = [b \in Blocks |-> Durable'[b]]
  BY DurableIs, DurableNext
<1>q. QED
  BY <1>1

LEMMA ViewFacts ==
  /\ Booting => View = Durable
  /\ ~Booting => View = [b \in Blocks |-> Contents(b)]
  BY DEF View

\* Outside recovery, a cache that serves the same contents shows the same blocks.
LEMMA SameView ==
  ASSUME ~Booting, ~Booting', \A b \in Blocks : Contents(b)' = Contents(b)
  PROVE  View' = View
  BY DEF View

\* A step outside the calls and the disk: the abstract state does not move.
LEMMA Stutter ==
  ASSUME UNCHANGED <<home, slot, head, cache>>, Booting' <=> Booting,
         \A q \in Procs : pc'[q] \in InCall <=> pc[q] \in InCall
  PROVE  UNCHANGED <<Durable, View, Active>>
<1>1. Active' = Active
  BY DEF Active
<1>q. QED
  BY <1>1, SameBlocks

\* begin_op opens an abstract operation, or waits.
LEMMA BeginImplements ==
  ASSUME LogInv, DataInv, NEW p \in Procs, BeginOp(p)
  PROVE  Disk!Begin(p) \/ UNCHANGED <<Durable, View, Active>>
<1>1. /\ pc \in [Procs -> PC] /\ pc[p] = "begin_op"
      /\ UNCHANGED <<home, slot, head, cache, phase>>
  BY HeaderTypes DEF BeginOp, disk, bcache, loop
<1>2. CASE pc' = [pc EXCEPT ![p] = "asleep"]
  BY <1>1, <1>2, Stutter DEF InCall, Booting
<1>3. CASE pc' = [pc EXCEPT ![p] = "in_op"]
  <2>1. Active' = Active \cup {p} /\ p \notin Active
    BY <1>1, <1>3 DEF Active, InCall
  <2>2. UNCHANGED <<Durable, View>>
    BY <1>1, SameBlocks DEF Booting
  <2>q. QED
    BY <2>1, <2>2 DEF Disk!Begin
<1>q. QED
  BY <1>2, <1>3 DEF BeginOp

\* A modified buffer is an abstract write: every reader goes through the cache,
\* and nothing is durable yet.
LEMMA WriteImplements ==
  ASSUME LogInv, DataInv, NEW p \in Procs, NEW b \in Blocks, NEW v \in Vals, LogWrite(p, b, v)
  PROVE  Disk!Write(p, b, v)
<1>1. /\ pc \in [Procs -> PC] /\ cache \in [Blocks -> Vals \cup {NoVal}]
      /\ pc[p] = "in_op" /\ pc[p] \in InCall
      /\ cache' = [cache EXCEPT ![b] = v]
      /\ pc'[p] \in InCall /\ \A q \in Procs : q # p => pc'[q] = pc[q]
      /\ UNCHANGED <<home, slot, head, phase>>
  BY HeaderTypes DEF LogWrite, disk, loop, InCall
<1>2. ~Booting /\ ~Booting'
  BY <1>1, CallTimes DEF Booting, BootPhase
<1>3. p \in Active /\ Active' = Active
  BY <1>1 DEF Active
<1>4. Durable' = Durable
  BY <1>1 DEF Durable, Logged
<1>5. View' = [View EXCEPT ![b] = v]
  <2>1. \A c \in Blocks : Contents(c)' = IF c = b THEN v ELSE Contents(c)
    BY <1>1, NoneAssumption DEF Contents
  <2>2. /\ View = [c \in Blocks |-> Contents(c)]
        /\ View' = [c \in Blocks |-> Contents(c)']
    BY <1>2 DEF View
  <2>q. QED
    BY <2>1, <2>2
<1>q. QED
  BY <1>3, <1>4, <1>5 DEF Disk!Write

\* end_op closes the abstract operation.
LEMMA EndImplements ==
  ASSUME LogInv, DataInv, NEW p \in Procs, EndOp(p)
  PROVE  Disk!End(p)
<1>1. pc \in [Procs -> PC] /\ pc[p] \in InCall /\ UNCHANGED <<home, slot, head, cache>>
  BY HeaderTypes DEF EndOp, disk, bcache, InCall
<1>2. ~committing /\ ~Booting /\ phase' \in {phase, "start"}
  BY <1>1, CallTimes DEF Booting, BootPhase, EndOp
<1>3. /\ pc'[p] \notin InCall
      /\ \A q \in Procs : q # p => (pc'[q] \in InCall <=> pc[q] \in InCall)
  <2>1. /\ Woken \in [Procs -> PC]
        /\ \A q \in Procs : Woken[q] = pc[q] \/ (pc[q] = "asleep" /\ Woken[q] = "begin_op")
    BY WokenFacts DEF LogInv
  <2>2. pc' = [pc EXCEPT ![p] = "commit"] \/ pc' = [Woken EXCEPT ![p] = "user"]
    BY <1>2 DEF EndOp
  <2>q. QED
    BY <1>1, <2>1, <2>2 DEF InCall
<1>4. p \in Active /\ Active' = Active \ {p}
  BY <1>1, <1>3 DEF Active
<1>5. UNCHANGED <<Durable, View>>
  BY <1>1, <1>2, SameBlocks DEF Booting, BootPhase
<1>q. QED
  BY <1>4, <1>5 DEF Disk!End

\* write_log only copies to slots that no header on the disk names.
LEMMA WriteLogImplements ==
  ASSUME LogInv, DataInv, NEW p \in Procs, WriteLog(p)
  PROVE  UNCHANGED <<Durable, View, Active>>
<1>1. /\ head = << >> /\ UNCHANGED <<home, head, pc>> /\ ~Booting /\ ~Booting'
  BY DEF WriteLog, log, procs, DataInv, HeaderFollows, Booting, BootPhase
<1>2. UNCHANGED <<Durable, Active>>
  BY <1>1 DEF Durable, Logged, Active
<1>3. \A b \in Blocks : Contents(b)' = Contents(b)
  <2>1. CASE tail < Len(lh)
    <3>1. tail + 1 \in 1..Len(lh) /\ lh[tail + 1] \in Blocks
      BY <2>1, HeaderTypes
    <3>2. cache' = [cache EXCEPT ![lh[tail + 1]] = Contents(lh[tail + 1])]
      BY <2>1, HeaderTypes DEF WriteLog
    <3>3. Contents(lh[tail + 1]) \in Vals
      BY <3>1, ContentsType DEF LogInv
    <3>q. QED
      BY <1>1, <3>1, <3>2, <3>3, HeaderTypes, NoneAssumption DEF Contents
  <2>2. CASE ~(tail < Len(lh))
    BY <1>1, <2>2 DEF WriteLog, Contents
  <2>q. QED
    BY <2>1, <2>2
<1>q. QED
  BY <1>1, <1>2, <1>3, SameView

\* The write of the header sector is the abstract commit: at that moment the
\* slots hold the logged blocks, and the others are at home.
LEMMA CommitImplements ==
  ASSUME LogInv, DataInv, TypeOK', EntriesDiffer', NEW p \in Procs, WriteHead(p)
  PROVE  Disk!Commit
<1>1. /\ head' = lh /\ phase = "write_head" /\ phase' = "install"
      /\ UNCHANGED <<home, slot, cache, lh, tail, pc>>
      /\ ~Booting /\ ~Booting' /\ pc[p] = "commit"
  BY DEF WriteHead, bcache, log, procs, Booting, BootPhase
<1>2. Active = {} /\ Active' = {} /\ \A b \in Blocks : ~Held(b)
  BY <1>1, CommitTimes, QuietTimes DEF Active
<1>3. View' = View
  BY <1>1, SameView DEF Contents
<1>4. \A b \in Blocks : Durable'[b] = Contents(b)
  <2>1. ASSUME NEW i \in 1..Len(lh) PROVE Durable'[lh[i]] = Contents(lh[i])
    <3>1. slot[i] = Contents(lh[i])
      BY <1>1 DEF DataInv, SlotsFollow
    <3>q. QED
      BY <1>1, <3>1, DurableNext
  <2>2. ASSUME NEW b \in Blocks, ~Logged(lh, b) PROVE Durable'[b] = Contents(b)
    <3>1. Durable'[b] = home[b]
      BY <1>1, <2>2, DurableNext DEF Logged
    <3>2. b \notin dirty
      BY <2>2 DEF DataInv, DirtyIsLogged, Logged
    <3>q. QED
      BY <1>2, <3>1, <3>2 DEF DataInv, CleanIsHome, Contents
  <2>q. QED
    BY <2>1, <2>2 DEF Logged
<1>5. Durable' = View
  BY <1>1, <1>4, DurableNext DEF View
<1>q. QED
  BY <1>2, <1>3, <1>5 DEF Disk!Commit

\* Copying entry i of a header that is on the disk changes nothing of what a
\* crash would leave: recovery would copy it again.
LEMMA CopyKeepsDurable ==
  ASSUME TypeOK, EntriesDiffer, TypeOK', EntriesDiffer', head = lh,
         NEW i \in 1..Len(lh), InstallBlock(i), UNCHANGED <<slot, head>>
  PROVE  Durable' = Durable
<1>1. /\ lh[i] \in Blocks /\ home \in [Blocks -> Vals]
      /\ home' = [home EXCEPT ![lh[i]] = slot[i]] /\ head' = lh
  BY DEF TypeOK, InstallBlock
<1>2. ASSUME NEW j \in 1..Len(lh) PROVE Durable'[lh[j]] = Durable[lh[j]]
  BY <1>1, DurableIs, DurableNext
<1>3. ASSUME NEW b \in Blocks, ~Logged(lh, b) PROVE Durable'[b] = Durable[b]
  <2>1. b # lh[i]
    BY <1>3 DEF Logged
  <2>2. Durable[b] = home[b]
    BY <1>3, DurableIs
  <2>3. ~Logged(head', b)
    BY <1>1, <1>3
  <2>4. Durable'[b] = home'[b]
    BY <2>3, DurableNext
  <2>q. QED
    BY <1>1, <2>1, <2>2, <2>4
<1>4. \A b \in Blocks : Durable'[b] = Durable[b]
  BY <1>2, <1>3 DEF Logged
<1>q. QED
  BY <1>4, SameDurable

\* install_trans after a commit: readers go on reading from the cache.
LEMMA InstallImplements ==
  ASSUME LogInv, DataInv, TypeOK', EntriesDiffer', NEW p \in Procs, Install(p)
  PROVE  UNCHANGED <<Durable, View, Active>>
<1>1. /\ phase = "install" /\ head = lh /\ UNCHANGED <<slot, head, lh, pc>>
      /\ ~Booting /\ ~Booting' /\ TypeOK /\ EntriesDiffer
  BY DEF Install, log, procs, DataInv, LogInv, HeaderFollows, Booting, BootPhase
<1>2. Active' = Active
  BY <1>1 DEF Active
<1>3. CASE tail < Len(lh)
  <2>1. tail + 1 \in 1..Len(lh) /\ lh[tail + 1] \in Blocks
    BY <1>3, HeaderTypes
  <2>2. InstallBlock(tail + 1)
    BY <1>3, HeaderTypes DEF Install
  <2>3. Durable' = Durable
    BY <1>1, <2>1, <2>2, CopyKeepsDurable
  <2>4. slot[tail + 1] = Contents(lh[tail + 1]) /\ slot[tail + 1] # NoVal
    BY <1>1, <2>1, HeaderTypes, NoneAssumption DEF DataInv, SlotsFollow
  <2>5. \A b \in Blocks : Contents(b)' = Contents(b)
    BY <2>1, <2>2, <2>4, HeaderTypes DEF Contents, InstallBlock
  <2>q. QED
    BY <1>1, <1>2, <2>3, <2>5, SameView
<1>4. CASE ~(tail < Len(lh))
  BY <1>1, <1>2, <1>4, SameBlocks DEF Install, bcache
<1>q. QED
  BY <1>3, <1>4

\* Once every entry is at home, the header is no longer needed.
LEMMA ClearKeepsDurable ==
  ASSUME TypeOK, EntriesDiffer, TypeOK', EntriesDiffer', head = lh, head' = << >>,
         UNCHANGED home, \A i \in 1..Len(lh) : home[lh[i]] = slot[i]
  PROVE  Durable' = Durable /\ \A b \in Blocks : Durable[b] = home[b]
<1>1. \A b \in Blocks : ~Logged(head', b)
  BY DEF Logged
<1>2. \A b \in Blocks : Durable'[b] = home[b]
  BY <1>1, DurableNext
<1>3. \A b \in Blocks : Durable[b] = home[b]
  BY DurableIs DEF Logged
<1>q. QED
  BY <1>2, <1>3, SameDurable

LEMMA ClearImplements ==
  ASSUME LogInv, DataInv, TypeOK', EntriesDiffer', NEW p \in Procs, ClearLog(p)
  PROVE  UNCHANGED <<Durable, View, Active>>
<1>1. /\ phase = "clear" /\ head = lh /\ head' = << >> /\ UNCHANGED <<home, cache, pc>>
      /\ ~Booting /\ ~Booting' /\ TypeOK /\ EntriesDiffer
  BY DEF ClearLog, bcache, procs, DataInv, LogInv, HeaderFollows, Booting, BootPhase
<1>2. \A i \in 1..Len(lh) : home[lh[i]] = slot[i]
  BY <1>1 DEF DataInv, SlotsFollow, Installed
<1>3. Durable' = Durable
  BY <1>1, <1>2, ClearKeepsDurable
<1>q. QED
  BY <1>1, <1>3, SameView DEF Contents, Active

\* Recovery: the durable blocks stay what they were, and are what the first
\* process will read.
LEMMA RecoverImplements ==
  ASSUME LogInv, DataInv, TypeOK', EntriesDiffer', Recover
  PROVE  UNCHANGED <<Durable, View, Active>>
<1>1. TypeOK /\ EntriesDiffer /\ UNCHANGED pc
  BY DEF DataInv, LogInv, Recover, ReadHead, RecoverInstall, RecoverClear, procs
<1>2. Active' = Active
  BY <1>1 DEF Active
<1>3. CASE ReadHead
  BY <1>2, <1>3, SameBlocks DEF ReadHead, disk, bcache, Booting, BootPhase
<1>4. CASE RecoverInstall
  <2>1. head = lh /\ Booting /\ UNCHANGED <<slot, head>>
    BY <1>4 DEF RecoverInstall, log, DataInv, HeaderFollows, Booting, BootPhase
  <2>2. Booting'
    BY <1>4 DEF RecoverInstall, Booting, BootPhase
  <2>3. CASE tail < Len(lh)
    <3>1. tail + 1 \in 1..Len(lh)
      BY <2>3, HeaderTypes
    <3>2. InstallBlock(tail + 1)
      BY <1>4, <2>3, HeaderTypes DEF RecoverInstall
    <3>3. Durable' = Durable
      BY <1>1, <2>1, <3>1, <3>2, CopyKeepsDurable
    <3>q. QED
      BY <1>2, <2>1, <2>2, <3>3 DEF View
  <2>4. CASE ~(tail < Len(lh))
    BY <1>2, <1>4, <2>1, <2>2, <2>4, SameBlocks DEF RecoverInstall, bcache
  <2>q. QED
    BY <2>3, <2>4
<1>5. CASE RecoverClear
  <2>1. /\ phase = "recover_clear" /\ head = lh /\ head' = << >> /\ UNCHANGED <<home, cache, dirty>>
        /\ Booting /\ ~Booting'
    BY <1>5 DEF RecoverClear, bcache, DataInv, HeaderFollows, Booting, BootPhase
  <2>2. \A i \in 1..Len(lh) : home[lh[i]] = slot[i]
    BY <2>1 DEF DataInv, SlotsFollow, Installed
  <2>3. Durable' = Durable /\ \A b \in Blocks : Durable[b] = home[b]
    BY <1>1, <2>1, <2>2, ClearKeepsDurable
  <2>4. \A b \in Blocks : ~Held(b) /\ b \notin dirty
    BY <2>1, QuietTimes DEF DataInv, DirtyIsLogged
  <2>5. \A b \in Blocks : Contents(b) = home[b] /\ Contents(b)' = home[b]
    BY <2>1, <2>4 DEF DataInv, CleanIsHome, Contents
  <2>6. View' = [b \in Blocks |-> home[b]] /\ View = Durable
    BY <2>1, <2>5 DEF View
  <2>7. Durable = [b \in Blocks |-> Durable[b]]
    BY <1>1, DurableIs
  <2>q. QED
    BY <1>2, <2>3, <2>6, <2>7
<1>q. QED
  BY <1>3, <1>4, <1>5 DEF Recover

\* A crash drops what is not durable, and every call.
LEMMA CrashImplements == Crash => Disk!Crash
<1> SUFFICES ASSUME Crash PROVE Disk!Crash
  OBVIOUS
<1>1. UNCHANGED <<home, slot, head>> /\ Booting' /\ \A q \in Procs : pc'[q] = "user"
  BY DEF Crash, disk, Booting, BootPhase
<1>2. Durable' = Durable
  BY <1>1 DEF Durable, Logged
<1>3. View' = Durable /\ Active' = {}
  BY <1>1, <1>2 DEF View, Active, InCall
<1>q. QED
  BY <1>2, <1>3 DEF Disk!Crash

\* Filling a buffer from the disk, or recycling a clean one, shows no change.
LEMMA CacheImplements ==
  ASSUME LogInv, DataInv, NEW b \in Blocks, Bread(b) \/ Evict(b)
  PROVE  UNCHANGED <<Durable, View, Active>>
<1>1. UNCHANGED <<home, slot, head, phase, pc>>
  BY DEF Bread, Evict, disk, loop, procs
<1>2. UNCHANGED <<Durable, Active>>
  BY <1>1 DEF Durable, Logged, Active
<1>3. cache \in [Blocks -> Vals \cup {NoVal}] /\ home[b] \in Vals /\ NoVal \notin Vals
  BY HeaderTypes, NoneAssumption
<1>4. \A c \in Blocks : Contents(c)' = Contents(c)
  <2>1. CASE Bread(b)
    BY <1>1, <1>3, <2>1 DEF Bread, Contents
  <2>2. CASE Evict(b)
    <3>1. cache[b] = home[b]
      BY <2>2 DEF Evict, Recyclable, DataInv, CleanIsHome
    <3>q. QED
      BY <1>1, <1>3, <2>2, <3>1 DEF Evict, Contents
  <2>q. QED
    BY <2>1, <2>2
<1>5. CASE Booting
  BY <1>1, <1>2, <1>5 DEF View, Booting
<1>6. CASE ~Booting
  <2>1. ~Booting'
    BY <1>1, <1>6 DEF Booting
  <2>q. QED
    BY <1>2, <1>4, <1>6, <2>1, SameView
<1>q. QED
  BY <1>5, <1>6

\* Every step of the log is a step of the abstract disk, or none.
LEMMA StepImplements ==
  LogInv /\ DataInv /\ [Next]_vars /\ (LogInv /\ DataInv)' => [Disk!Next]_(Disk!vars)
<1> SUFFICES ASSUME LogInv, DataInv, [Next]_vars, (LogInv /\ DataInv)'
             PROVE  Disk!Next \/ UNCHANGED <<Durable, View, Active>>
  BY DEF Disk!vars
<1>1. TypeOK' /\ EntriesDiffer'
  BY DEF LogInv, DataInv
<1>2. ASSUME NEW p \in Procs, EnterOp(p) \/ KillSleeper(p) \/ LogAppend(p) \/ StartCommit(p)
                              \/ FinishCommit(p)
      PROVE  UNCHANGED <<Durable, View, Active>>
  <2>1. UNCHANGED <<home, slot, head, cache>>
    BY <1>2 DEF EnterOp, KillSleeper, LogAppend, StartCommit, FinishCommit, disk, bcache
  <2>2. Booting' <=> Booting
    BY <1>2 DEF EnterOp, KillSleeper, LogAppend, StartCommit, FinishCommit, loop,
                Booting, BootPhase
  <2>3. \A q \in Procs : pc'[q] \in InCall <=> pc[q] \in InCall
    <3>1. /\ pc \in [Procs -> PC] /\ Woken \in [Procs -> PC]
          /\ \A q \in Procs : Woken[q] = pc[q] \/ (pc[q] = "asleep" /\ Woken[q] = "begin_op")
      BY HeaderTypes, WokenFacts DEF LogInv
    <3>2. CASE FinishCommit(p)
      <4>1. pc[p] = "commit" /\ pc' = [Woken EXCEPT ![p] = "user"]
        BY <3>2 DEF FinishCommit
      <4>q. QED
        BY <3>1, <4>1 DEF InCall
    <3>q. QED
      BY <1>2, <3>1, <3>2 DEF EnterOp, KillSleeper, LogAppend, StartCommit, procs, InCall
  <2>q. QED
    BY <2>1, <2>2, <2>3, Stutter
<1>3. ASSUME NEW p \in Procs, BeginOp(p) PROVE Disk!Next \/ UNCHANGED <<Durable, View, Active>>
  BY <1>3, BeginImplements DEF Disk!Next
<1>4. ASSUME NEW p \in Procs, EndOp(p) PROVE Disk!Next
  BY <1>4, EndImplements DEF Disk!Next
<1>5. ASSUME NEW p \in Procs, NEW b \in Blocks, NEW v \in Vals, LogWrite(p, b, v)
      PROVE  Disk!Next
  BY <1>5, WriteImplements DEF Disk!Next
<1>6. ASSUME NEW p \in Procs, WriteHead(p) PROVE Disk!Next
  BY <1>1, <1>6, CommitImplements DEF Disk!Next
<1>7. ASSUME NEW p \in Procs, WriteLog(p) \/ Install(p) \/ ClearLog(p)
      PROVE  UNCHANGED <<Durable, View, Active>>
  BY <1>1, <1>7, WriteLogImplements, InstallImplements, ClearImplements
<1>8. ASSUME NEW b \in Blocks, Bread(b) \/ Evict(b) PROVE UNCHANGED <<Durable, View, Active>>
  BY <1>8, CacheImplements
<1>9. ASSUME Recover PROVE UNCHANGED <<Durable, View, Active>>
  BY <1>1, <1>9, RecoverImplements
<1>10. ASSUME Crash PROVE Disk!Next
  BY <1>10, CrashImplements DEF Disk!Next
<1>11. ASSUME UNCHANGED vars PROVE UNCHANGED <<Durable, View, Active>>
  BY <1>11, Stutter DEF vars, disk, bcache, loop, procs, Booting
<1>q. QED
  BY <1>2, <1>3, <1>4, <1>5, <1>6, <1>7, <1>8, <1>9, <1>10, <1>11 DEF Next, Commit

\* At boot what is read is what is durable, and no call is under way.
LEMMA InitImplements == Init => Disk!Init
<1> SUFFICES ASSUME Init PROVE Disk!Init
  OBVIOUS
<1>1. Booting /\ head = << >> /\ home \in [Blocks -> Vals] /\ \A p \in Procs : pc[p] = "user"
  BY DEF Init, Booting, BootPhase
<1>2. Durable = [b \in Blocks |-> home[b]]
  BY <1>1 DEF Durable, Logged
<1>3. Active = {} /\ View = Durable
  BY <1>1 DEF Active, InCall, View
<1>q. QED
  BY <1>1, <1>2, <1>3 DEF Disk!Init

\* When no call is under way and none is being committed, nothing is lost.
LEMMA QuiescentDurable == LogInv /\ DataInv => QuiescentIsDurable
<1> SUFFICES ASSUME LogInv, DataInv, outstanding = 0, ~committing PROVE View = Durable
  BY DEF QuiescentIsDurable
<1>1. CASE Booting
  BY <1>1, ViewFacts
<1>2. CASE ~Booting
  <2>1. phase = "none" /\ head = << >> /\ lh = << >>
    BY <1>2 DEF LogInv, TypeOK, DataInv, PhaseFollows, HeaderFollows, Phase, Booting
  <2>2. Active = {}
    BY ActiveIsFinite, FS_EmptySet DEF LogInv, OutstandingCounts
  <2>3. \A b \in Blocks : ~Held(b)
    BY <2>2, NoneAssumption DEF DataInv, BuffersAreHeld, Active, InCall, Held
  <2>4. \A b \in Blocks : b \notin dirty
    BY <2>1 DEF DataInv, DirtyIsLogged
  <2>5. \A b \in Blocks : Contents(b) = home[b]
    BY <2>3, <2>4 DEF DataInv, CleanIsHome, Contents
  <2>6. View = [b \in Blocks |-> home[b]]
    BY <1>2, <2>5 DEF View
  <2>7. Durable = [b \in Blocks |-> home[b]]
    BY <2>1 DEF Durable, Logged
  <2>q. QED
    BY <2>6, <2>7
<1>q. QED
  BY <1>1, <1>2

\* Crash safety: for any number of processes and blocks and any size of the
\* log, whatever is interleaved and wherever the machine stops, a file-system
\* call survives with all of its writes or with none, and once the last
\* end_op has returned nothing can be lost.
THEOREM CrashSafety == Spec => ImplementsAtomicDisk
<1>1. Init => Disk!Init
  BY InitImplements
<1>2. LogInv /\ DataInv /\ [Next]_vars /\ (LogInv /\ DataInv)' => [Disk!Next]_(Disk!vars)
  BY StepImplements
<1>3. LogInv /\ DataInv => QuiescentIsDurable
  BY QuiescentDurable
<1>q. QED
  BY <1>1, <1>2, <1>3, DataInvariance, PTL DEF Spec, ImplementsAtomicDisk, Disk!Spec
=============================================================================
