------------------------------ MODULE PipeProofs ------------------------------
(***************************************************************************)
(* Types and safety of the pipe, for any readers and writers, any size of  *)
(* the ring and any wrap of the counters that it divides; and that the     *)
(* pipe implements a bounded queue of bytes.                               *)
(***************************************************************************)
EXTENDS Pipe, SequenceTheorems, TLAPS

InLock == {"write", "write_full", "read", "read_empty", "copy"}
OfWrite == {"write", "write_full", "write_asleep"}
OfRead == {"read", "read_empty", "read_asleep", "copy"}

\* p->lock is held by the process that is between acquire and release.
LockIsHeld == \A p \in Procs : pc[p] \in InLock <=> lock = p

\* Who is in a call has its end open, an end that is open somewhere has not
\* been closed, and only those that had an end at first can have it.
EndsAreHeld ==
  /\ \A p \in Procs : /\ pc[p] \in OfWrite => "w" \in fds[p]
                      /\ pc[p] \in OfRead => "r" \in fds[p]
                      /\ "w" \in fds[p] => writeopen /\ p \in Writers
                      /\ "r" \in fds[p] => readopen
  /\ freed = (~readopen /\ ~writeopen)

\* What a process has found out and will act on still holds.
TestsHold ==
  \A p \in Procs :
    /\ pc[p] = "write_full" => Full /\ readopen
    /\ pc[p] = "read_empty" => Empty /\ writeopen
    /\ pc[p] = "copy" /\ i[p] = 0 /\ Empty => ~writeopen \/ n[p] = 0

WriterAt(step) == \E w \in Procs : pc[w] = step
SomeWriterKilled == \E w \in Writers : killed[w]

\* A sleeper has a reason, or somebody who holds the lock will wake it.
SleepersWait ==
  \A p \in Procs : asleep[p] =>
    /\ pc[p] \in {"write_asleep", "read_asleep"}
    /\ pc[p] = "write_asleep" => readopen /\ (Full \/ WriterAt("copy"))
    /\ pc[p] = "read_asleep" => /\ writeopen
                                /\ Empty \/ SomeWriterKilled \/ WriterAt("write")
                                /\ ~WriterAt("write_full")

PipeInv == TypeOK /\ LockIsHeld /\ EndsAreHeld /\ TestsHold /\ SleepersWait

-----------------------------------------------------------------------------
LEMMA ModInRange == ASSUME NEW a \in Int, NEW b \in Nat \ {0} PROVE a % b \in 0..(b - 1)
  BY SMT

\* TypeOK in the parts that one prover each can handle.
RingType ==
  /\ data \in [0..PipeSize-1 -> Bytes] /\ addr \in Bytes
  /\ nread \in 0..Wrap-1 /\ nwrite \in 0..Wrap-1
CallType ==
  /\ lock \in Procs \cup {NoProc} /\ pc \in [Procs -> PC]
  /\ i \in [Procs -> Nat] /\ n \in [Procs -> Sizes \cup {0}] /\ \A p \in Procs : i[p] <= n[p]
FlagType ==
  /\ readopen \in BOOLEAN /\ writeopen \in BOOLEAN /\ freed \in BOOLEAN
  /\ fds \in [Procs -> SUBSET {"r", "w"}]
  /\ asleep \in [Procs -> BOOLEAN] /\ killed \in [Procs -> BOOLEAN]

LEMMA InitTypes == Init => TypeOK
<1>1. Init => RingType
  BY RingAssumption DEF Init, RingType
<1>2. Init => CallType
  BY DEF Init, CallType, PC
<1>3. Init => FlagType
  BY Zenon DEF Init, FlagType
<1>q. QED
  BY <1>1, <1>2, <1>3 DEF TypeOK, RingType, CallType, FlagType

\* The counters stay below Wrap, so the ring is indexed inside.
LEMMA RingStep == RingType /\ [Next]_vars => RingType'
<1> SUFFICES ASSUME RingType, [Next]_vars PROVE RingType'
  OBVIOUS
<1> USE DEF pipe, ends, RingType
<1>1. ASSUME NEW p \in Procs, NEW k \in Sizes, StartWrite(p, k) \/ StartRead(p, k) PROVE RingType'
  BY <1>1 DEF StartWrite, StartRead, Start, Goto
<1>2. ASSUME NEW p \in Procs, NEW b \in Bytes, WriteByte(p, b) PROVE RingType'
  <2>1. nwrite' \in 0..Wrap-1
    <3>1. nwrite' = (nwrite + 1) % Wrap
      BY <1>2 DEF WriteByte
    <3>2. nwrite + 1 \in Int /\ Wrap \in Nat \ {0}
      BY RingAssumption
    <3>q. QED
      BY <3>1, <3>2, ModInRange
  <2>2. data' \in [0..PipeSize-1 -> Bytes]
    BY <1>2 DEF WriteByte
  <2>q. QED
    BY <1>2, <2>1, <2>2 DEF WriteByte
<1>3. ASSUME NEW p \in Procs, WriteFail(p) \/ ReadFail(p) PROVE RingType'
  BY <1>3 DEF WriteFail, ReadFail, Return, Goto
<1>4. ASSUME NEW p \in Procs, WriteFull(p) PROVE RingType'
  BY <1>4 DEF WriteFull, WakeReaders, Goto
<1>5. ASSUME NEW p \in Procs, ReadEmpty(p) \/ ReadCopy(p) PROVE RingType'
  BY <1>5 DEF ReadEmpty, ReadCopy, Goto
<1>6. ASSUME NEW p \in Procs, WriteSleep(p) \/ ReadSleep(p) PROVE RingType'
  BY <1>6 DEF WriteSleep, ReadSleep, FallAsleep, Goto
<1>7. ASSUME NEW p \in Procs, WriteResume(p) \/ ReadResume(p) PROVE RingType'
  BY <1>7 DEF WriteResume, ReadResume, Resume, Goto
<1>8. ASSUME NEW p \in Procs, ReadByte(p) PROVE RingType'
  BY <1>8, RingAssumption, ModInRange DEF ReadByte
<1>9. ASSUME NEW p \in Procs, WriteDone(p) PROVE RingType'
  BY <1>9 DEF WriteDone, WakeReaders, Return, Goto
<1>10. ASSUME NEW p \in Procs, ReadDone(p) PROVE RingType'
  BY <1>10 DEF ReadDone, WakeWriters, Return, Goto
<1>11. ASSUME NEW p \in Procs, NEW end \in {"r", "w"}, Close(p, end) PROVE RingType'
  BY <1>11 DEF Close, PipeClose, LastToClose, WakeReaders, WakeWriters
<1>12. ASSUME NEW p \in Killable, Kill(p) PROVE RingType'
  BY <1>12 DEF Kill
<1>13. ASSUME UNCHANGED vars PROVE RingType'
  BY <1>13 DEF vars
<1>q. QED
  BY <1>1, <1>2, <1>3, <1>4, <1>5, <1>6, <1>7, <1>8, <1>9, <1>10, <1>11, <1>12, <1>13 DEF Next, Writing, Reading

\* A call moves no more bytes than it was asked to.
LEMMA CallStep == CallType /\ [Next]_vars => CallType'
<1> SUFFICES ASSUME CallType, [Next]_vars PROVE CallType'
  OBVIOUS
<1> USE CallsAssumption DEF pipe, ends, CallType, PC
<1>1. ASSUME NEW p \in Procs, NEW k \in Sizes, StartWrite(p, k) \/ StartRead(p, k) PROVE CallType'
  BY <1>1 DEF StartWrite, StartRead, Start, Goto
<1>2. ASSUME NEW p \in Procs, NEW b \in Bytes, WriteByte(p, b) PROVE CallType'
  <2>1. i[p] + 1 <= n[p] /\ i[p] + 1 \in Nat
    <3>1. n[p] \in Sizes \cup {0} /\ i[p] \in Nat
      OBVIOUS
    <3>2. Sizes \cup {0} \subseteq Nat
      BY CallsAssumption
    <3>3. n[p] \in Nat
      BY <3>1, <3>2
    <3>4. i[p] < n[p]
      BY <1>2 DEF WriteByte
    <3>q. QED
      BY <3>1, <3>3, <3>4
  <2>2. i' = [i EXCEPT ![p] = i[p] + 1] /\ UNCHANGED <<lock, pc, n>>
    BY <1>2 DEF WriteByte
  <2>q. QED
    BY <2>1, <2>2
<1>3. ASSUME NEW p \in Procs, WriteFail(p) \/ ReadFail(p) PROVE CallType'
  BY <1>3 DEF WriteFail, ReadFail, Return, Goto
<1>4. ASSUME NEW p \in Procs, WriteFull(p) PROVE CallType'
  BY <1>4 DEF WriteFull, WakeReaders, Goto
<1>5. ASSUME NEW p \in Procs, ReadEmpty(p) \/ ReadCopy(p) PROVE CallType'
  BY <1>5 DEF ReadEmpty, ReadCopy, Goto
<1>6. ASSUME NEW p \in Procs, WriteSleep(p) \/ ReadSleep(p) PROVE CallType'
  BY <1>6 DEF WriteSleep, ReadSleep, FallAsleep, Goto
<1>7. ASSUME NEW p \in Procs, WriteResume(p) \/ ReadResume(p) PROVE CallType'
  BY <1>7 DEF WriteResume, ReadResume, Resume, Goto
<1>8. ASSUME NEW p \in Procs, ReadByte(p) PROVE CallType'
  <2>1. i[p] + 1 <= n[p] /\ i[p] + 1 \in Nat
    <3>1. n[p] \in Sizes \cup {0} /\ i[p] \in Nat
      OBVIOUS
    <3>2. Sizes \cup {0} \subseteq Nat
      BY CallsAssumption
    <3>3. n[p] \in Nat
      BY <3>1, <3>2
    <3>4. i[p] < n[p]
      BY <1>8 DEF ReadByte
    <3>q. QED
      BY <3>1, <3>3, <3>4
  <2>2. i' = [i EXCEPT ![p] = i[p] + 1] /\ UNCHANGED <<lock, pc, n>>
    BY <1>8 DEF ReadByte
  <2>q. QED
    BY <2>1, <2>2
<1>9. ASSUME NEW p \in Procs, WriteDone(p) PROVE CallType'
  BY <1>9 DEF WriteDone, WakeReaders, Return, Goto
<1>10. ASSUME NEW p \in Procs, ReadDone(p) PROVE CallType'
  BY <1>10 DEF ReadDone, WakeWriters, Return, Goto
<1>11. ASSUME NEW p \in Procs, NEW end \in {"r", "w"}, Close(p, end) PROVE CallType'
  BY <1>11 DEF Close, PipeClose, LastToClose, WakeReaders, WakeWriters
<1>12. ASSUME NEW p \in Killable, Kill(p) PROVE CallType'
  BY <1>12 DEF Kill
<1>13. ASSUME UNCHANGED vars PROVE CallType'
  BY <1>13 DEF vars
<1>q. QED
  BY <1>1, <1>2, <1>3, <1>4, <1>5, <1>6, <1>7, <1>8, <1>9, <1>10, <1>11, <1>12, <1>13 DEF Next, Writing, Reading

LEMMA FlagStep == FlagType /\ [Next]_vars => FlagType'
<1> SUFFICES ASSUME FlagType, [Next]_vars PROVE FlagType'
  OBVIOUS
<1> USE DEF pipe, ends, FlagType
<1>1. ASSUME NEW p \in Procs, NEW k \in Sizes, StartWrite(p, k) \/ StartRead(p, k) PROVE FlagType'
  BY <1>1, Zenon DEF StartWrite, StartRead, Start, Goto
<1>2. ASSUME NEW p \in Procs, NEW b \in Bytes, WriteByte(p, b) PROVE FlagType'
  BY <1>2, Zenon DEF WriteByte
<1>3. ASSUME NEW p \in Procs, WriteFail(p) \/ ReadFail(p) PROVE FlagType'
  BY <1>3, Zenon DEF WriteFail, ReadFail, Return, Goto
<1>4. ASSUME NEW p \in Procs, WriteFull(p) PROVE FlagType'
  BY <1>4, Zenon DEF WriteFull, WakeReaders, Goto
<1>5. ASSUME NEW p \in Procs, ReadEmpty(p) \/ ReadCopy(p) PROVE FlagType'
  BY <1>5, Zenon DEF ReadEmpty, ReadCopy, Goto
<1>6. ASSUME NEW p \in Procs, WriteSleep(p) \/ ReadSleep(p) PROVE FlagType'
  BY <1>6, Zenon DEF WriteSleep, ReadSleep, FallAsleep, Goto
<1>7. ASSUME NEW p \in Procs, WriteResume(p) \/ ReadResume(p) PROVE FlagType'
  BY <1>7, Zenon DEF WriteResume, ReadResume, Resume, Goto
<1>8. ASSUME NEW p \in Procs, ReadByte(p) PROVE FlagType'
  BY <1>8, Zenon DEF ReadByte
<1>9. ASSUME NEW p \in Procs, WriteDone(p) PROVE FlagType'
  BY <1>9, Zenon DEF WriteDone, WakeReaders, Return, Goto
<1>10. ASSUME NEW p \in Procs, ReadDone(p) PROVE FlagType'
  BY <1>10, Zenon DEF ReadDone, WakeWriters, Return, Goto
<1>11. ASSUME NEW p \in Procs, NEW end \in {"r", "w"}, Close(p, end) PROVE FlagType'
  BY <1>11, Zenon DEF Close, PipeClose, LastToClose, WakeReaders, WakeWriters
<1>12. ASSUME NEW p \in Killable, Kill(p) PROVE FlagType'
  BY <1>12, CallsAssumption, Zenon DEF Kill
<1>13. ASSUME UNCHANGED vars PROVE FlagType'
  BY <1>13, Zenon DEF vars
<1>q. QED
  BY <1>1, <1>2, <1>3, <1>4, <1>5, <1>6, <1>7, <1>8, <1>9, <1>10, <1>11, <1>12, <1>13 DEF Next, Writing, Reading

-----------------------------------------------------------------------------

\* acquire waits for a free lock; release, and sleep, free it.
LEMMA LockStep == CallType /\ LockIsHeld /\ [Next]_vars => LockIsHeld'
<1> SUFFICES ASSUME CallType, LockIsHeld, [Next]_vars PROVE LockIsHeld'
  OBVIOUS
<1> USE NoProcAssumption DEF pipe, ends, CallType, LockIsHeld, InLock
<1>1. ASSUME NEW p \in Procs, NEW k \in Sizes, StartWrite(p, k) \/ StartRead(p, k) PROVE LockIsHeld'
  BY <1>1 DEF StartWrite, StartRead, Start, Goto
<1>2. ASSUME NEW p \in Procs, NEW b \in Bytes, WriteByte(p, b) PROVE LockIsHeld'
  BY <1>2 DEF WriteByte
<1>3. ASSUME NEW p \in Procs, WriteFail(p) \/ ReadFail(p) PROVE LockIsHeld'
  BY <1>3 DEF WriteFail, ReadFail, Return, Goto
<1>4. ASSUME NEW p \in Procs, WriteFull(p) PROVE LockIsHeld'
  BY <1>4 DEF WriteFull, WakeReaders, Goto
<1>5. ASSUME NEW p \in Procs, ReadEmpty(p) \/ ReadCopy(p) PROVE LockIsHeld'
  BY <1>5 DEF ReadEmpty, ReadCopy, Goto
<1>6. ASSUME NEW p \in Procs, WriteSleep(p) \/ ReadSleep(p) PROVE LockIsHeld'
  BY <1>6 DEF WriteSleep, ReadSleep, FallAsleep, Goto
<1>7. ASSUME NEW p \in Procs, WriteResume(p) \/ ReadResume(p) PROVE LockIsHeld'
  BY <1>7 DEF WriteResume, ReadResume, Resume, Goto
<1>8. ASSUME NEW p \in Procs, ReadByte(p) PROVE LockIsHeld'
  BY <1>8 DEF ReadByte
<1>9. ASSUME NEW p \in Procs, WriteDone(p) PROVE LockIsHeld'
  BY <1>9 DEF WriteDone, WakeReaders, Return, Goto
<1>10. ASSUME NEW p \in Procs, ReadDone(p) PROVE LockIsHeld'
  BY <1>10 DEF ReadDone, WakeWriters, Return, Goto
<1>11. ASSUME NEW p \in Procs, NEW end \in {"r", "w"}, Close(p, end) PROVE LockIsHeld'
  BY <1>11 DEF Close, PipeClose, LastToClose, WakeReaders, WakeWriters
<1>12. ASSUME NEW p \in Killable, Kill(p) PROVE LockIsHeld'
  BY <1>12 DEF Kill
<1>13. ASSUME UNCHANGED vars PROVE LockIsHeld'
  BY <1>13 DEF vars
<1>q. QED
  BY <1>1, <1>2, <1>3, <1>4, <1>5, <1>6, <1>7, <1>8, <1>9, <1>10, <1>11, <1>12, <1>13 DEF Next, Writing, Reading

\* An end is closed by its last owner, who is in no call then.
LEMMA EndsStep == CallType /\ FlagType /\ EndsAreHeld /\ [Next]_vars => EndsAreHeld'
<1> SUFFICES ASSUME CallType, FlagType, EndsAreHeld, [Next]_vars PROVE EndsAreHeld'
  OBVIOUS
<1> USE DEF pipe, ends, CallType, FlagType, EndsAreHeld, OfWrite, OfRead
<1>1. ASSUME NEW p \in Procs, NEW k \in Sizes, StartWrite(p, k) \/ StartRead(p, k) PROVE EndsAreHeld'
  BY <1>1 DEF StartWrite, StartRead, Start, Goto
<1>2. ASSUME NEW p \in Procs, NEW b \in Bytes, WriteByte(p, b) PROVE EndsAreHeld'
  BY <1>2 DEF WriteByte
<1>3. ASSUME NEW p \in Procs, WriteFail(p) \/ ReadFail(p) PROVE EndsAreHeld'
  BY <1>3 DEF WriteFail, ReadFail, Return, Goto
<1>4. ASSUME NEW p \in Procs, WriteFull(p) PROVE EndsAreHeld'
  BY <1>4 DEF WriteFull, WakeReaders, Goto
<1>5. ASSUME NEW p \in Procs, ReadEmpty(p) \/ ReadCopy(p) PROVE EndsAreHeld'
  BY <1>5 DEF ReadEmpty, ReadCopy, Goto
<1>6. ASSUME NEW p \in Procs, WriteSleep(p) \/ ReadSleep(p) PROVE EndsAreHeld'
  BY <1>6 DEF WriteSleep, ReadSleep, FallAsleep, Goto
<1>7. ASSUME NEW p \in Procs, WriteResume(p) \/ ReadResume(p) PROVE EndsAreHeld'
  BY <1>7 DEF WriteResume, ReadResume, Resume, Goto
<1>8. ASSUME NEW p \in Procs, ReadByte(p) PROVE EndsAreHeld'
  BY <1>8 DEF ReadByte
<1>9. ASSUME NEW p \in Procs, WriteDone(p) PROVE EndsAreHeld'
  BY <1>9 DEF WriteDone, WakeReaders, Return, Goto
<1>10. ASSUME NEW p \in Procs, ReadDone(p) PROVE EndsAreHeld'
  BY <1>10 DEF ReadDone, WakeWriters, Return, Goto
<1>11. ASSUME NEW p \in Procs, NEW end \in {"r", "w"}, Close(p, end) PROVE EndsAreHeld'
  BY <1>11 DEF Close, PipeClose, LastToClose, WakeReaders, WakeWriters
<1>12. ASSUME NEW p \in Killable, Kill(p) PROVE EndsAreHeld'
  BY <1>12 DEF Kill
<1>13. ASSUME UNCHANGED vars PROVE EndsAreHeld'
  BY <1>13 DEF vars
<1>q. QED
  BY <1>1, <1>2, <1>3, <1>4, <1>5, <1>6, <1>7, <1>8, <1>9, <1>10, <1>11, <1>12, <1>13 DEF Next, Writing, Reading

\* Nobody else moves a byte or closes an end between the test of the ring and
\* what the process does next, because it holds p->lock.
LEMMA TestsStep == CallType /\ FlagType /\ LockIsHeld /\ TestsHold /\ [Next]_vars => TestsHold'
<1> SUFFICES ASSUME CallType, FlagType, LockIsHeld, TestsHold, [Next]_vars PROVE TestsHold'
  OBVIOUS
<1> USE NoProcAssumption DEF pipe, ends, CallType, FlagType, LockIsHeld, InLock, TestsHold, Full, Empty
<1>1. ASSUME NEW p \in Procs, NEW k \in Sizes, StartWrite(p, k) \/ StartRead(p, k) PROVE TestsHold'
  BY <1>1 DEF StartWrite, StartRead, Start, Goto
<1>2. ASSUME NEW p \in Procs, NEW b \in Bytes, WriteByte(p, b) PROVE TestsHold'
  BY <1>2 DEF WriteByte
<1>3. ASSUME NEW p \in Procs, WriteFail(p) \/ ReadFail(p) PROVE TestsHold'
  BY <1>3 DEF WriteFail, ReadFail, Return, Goto
<1>4. ASSUME NEW p \in Procs, WriteFull(p) PROVE TestsHold'
  BY <1>4 DEF WriteFull, WakeReaders, Goto
<1>5. ASSUME NEW p \in Procs, ReadEmpty(p) \/ ReadCopy(p) PROVE TestsHold'
  BY <1>5 DEF ReadEmpty, ReadCopy, Goto
<1>6. ASSUME NEW p \in Procs, WriteSleep(p) \/ ReadSleep(p) PROVE TestsHold'
  BY <1>6 DEF WriteSleep, ReadSleep, FallAsleep, Goto
<1>7. ASSUME NEW p \in Procs, WriteResume(p) \/ ReadResume(p) PROVE TestsHold'
  BY <1>7 DEF WriteResume, ReadResume, Resume, Goto
<1>8. ASSUME NEW p \in Procs, ReadByte(p) PROVE TestsHold'
  BY <1>8 DEF ReadByte
<1>9. ASSUME NEW p \in Procs, WriteDone(p) PROVE TestsHold'
  BY <1>9 DEF WriteDone, WakeReaders, Return, Goto
<1>10. ASSUME NEW p \in Procs, ReadDone(p) PROVE TestsHold'
  BY <1>10 DEF ReadDone, WakeWriters, Return, Goto
<1>11. ASSUME NEW p \in Procs, NEW end \in {"r", "w"}, Close(p, end) PROVE TestsHold'
  BY <1>11 DEF Close, PipeClose, LastToClose, WakeReaders, WakeWriters
<1>12. ASSUME NEW p \in Killable, Kill(p) PROVE TestsHold'
  BY <1>12 DEF Kill
<1>13. ASSUME UNCHANGED vars PROVE TestsHold'
  BY <1>13 DEF vars
<1>q. QED
  BY <1>1, <1>2, <1>3, <1>4, <1>5, <1>6, <1>7, <1>8, <1>9, <1>10, <1>11, <1>12, <1>13 DEF Next, Writing, Reading

\* Who makes the reason of a sleeper go away wakes it before it releases the lock,
\* a killed writer excepted.
LEMMA SleepersStep ==
  CallType /\ FlagType /\ LockIsHeld /\ EndsAreHeld /\ TestsHold /\ SleepersWait /\ [Next]_vars
    => SleepersWait'
<1> SUFFICES ASSUME CallType, FlagType, LockIsHeld, EndsAreHeld, TestsHold, SleepersWait, [Next]_vars PROVE SleepersWait'
  OBVIOUS
<1> USE NoProcAssumption DEF pipe, ends, CallType, FlagType, LockIsHeld, InLock, EndsAreHeld, OfWrite, OfRead,
        TestsHold, Full, Empty, SleepersWait, WriterAt, SomeWriterKilled
<1>1. ASSUME NEW p \in Procs, NEW k \in Sizes, StartWrite(p, k) \/ StartRead(p, k) PROVE SleepersWait'
  BY <1>1 DEF StartWrite, StartRead, Start, Goto
<1>2. ASSUME NEW p \in Procs, NEW b \in Bytes, WriteByte(p, b) PROVE SleepersWait'
  BY <1>2 DEF WriteByte
<1>3. ASSUME NEW p \in Procs, WriteFail(p) \/ ReadFail(p) PROVE SleepersWait'
  BY <1>3 DEF WriteFail, ReadFail, Return, Goto
<1>4. ASSUME NEW p \in Procs, WriteFull(p) PROVE SleepersWait'
  BY <1>4 DEF WriteFull, WakeReaders, Goto
<1>5. ASSUME NEW p \in Procs, ReadEmpty(p) \/ ReadCopy(p) PROVE SleepersWait'
  BY <1>5 DEF ReadEmpty, ReadCopy, Goto
<1>6. ASSUME NEW p \in Procs, WriteSleep(p) \/ ReadSleep(p) PROVE SleepersWait'
  BY <1>6 DEF WriteSleep, ReadSleep, FallAsleep, Goto
<1>7. ASSUME NEW p \in Procs, WriteResume(p) \/ ReadResume(p) PROVE SleepersWait'
  BY <1>7 DEF WriteResume, ReadResume, Resume, Goto
<1>8. ASSUME NEW p \in Procs, ReadByte(p) PROVE SleepersWait'
  BY <1>8 DEF ReadByte
<1>9. ASSUME NEW p \in Procs, WriteDone(p) PROVE SleepersWait'
  BY <1>9 DEF WriteDone, WakeReaders, Return, Goto
<1>10. ASSUME NEW p \in Procs, ReadDone(p) PROVE SleepersWait'
  BY <1>10 DEF ReadDone, WakeWriters, Return, Goto
<1>11. ASSUME NEW p \in Procs, NEW end \in {"r", "w"}, Close(p, end) PROVE SleepersWait'
  BY <1>11 DEF Close, PipeClose, LastToClose, WakeReaders, WakeWriters
<1>12. ASSUME NEW p \in Killable, Kill(p) PROVE SleepersWait'
  BY <1>12 DEF Kill
<1>13. ASSUME UNCHANGED vars PROVE SleepersWait'
  BY <1>13 DEF vars
<1>q. QED
  BY <1>1, <1>2, <1>3, <1>4, <1>5, <1>6, <1>7, <1>8, <1>9, <1>10, <1>11, <1>12, <1>13 DEF Next, Writing, Reading

-----------------------------------------------------------------------------

LEMMA TypesInParts == TypeOK <=> RingType /\ CallType /\ FlagType
  BY DEF TypeOK, RingType, CallType, FlagType

\* PipeInv holds at first and is preserved by every step.
LEMMA InitInv == Init => PipeInv
<1> SUFFICES ASSUME Init PROVE PipeInv
  OBVIOUS
<1>1. TypeOK
  BY InitTypes
<1>2. LockIsHeld
  BY NoProcAssumption DEF Init, LockIsHeld, InLock
<1>3. EndsAreHeld
  BY DEF Init, EndsAreHeld, OfWrite, OfRead
<1>4. TestsHold
  BY DEF Init, TestsHold
<1>5. SleepersWait
  BY DEF Init, SleepersWait
<1>q. QED
  BY <1>1, <1>2, <1>3, <1>4, <1>5 DEF PipeInv

LEMMA StepInv == PipeInv /\ [Next]_vars => PipeInv'
<1> SUFFICES ASSUME PipeInv, [Next]_vars PROVE PipeInv'
  OBVIOUS
<1>1. RingType /\ CallType /\ FlagType
  BY TypesInParts DEF PipeInv
<1>2. RingType' /\ CallType' /\ FlagType'
  BY <1>1, RingStep, CallStep, FlagStep
<1>3. TypeOK'
  BY <1>2 DEF TypeOK, RingType, CallType, FlagType
<1>4. LockIsHeld' /\ EndsAreHeld' /\ TestsHold' /\ SleepersWait'
  BY <1>1, LockStep, EndsStep, TestsStep, SleepersStep DEF PipeInv
<1>q. QED
  BY <1>3, <1>4 DEF PipeInv

\* What the inductive invariant says of the moments when p->lock is free.
LEMMA InvIsSafe == PipeInv => PipeIsSafe
<1> SUFFICES ASSUME PipeInv PROVE PipeIsSafe
  OBVIOUS
<1>1. EofIsTheEnd
  BY DEF PipeInv, TestsHold, EofIsTheEnd
<1>2. UsersHoldPipe
  <2>1. CallType
    BY TypesInParts DEF PipeInv
  <2>2. ASSUME freed, NEW p \in Procs PROVE pc[p] = "idle"
    BY <2>1, <2>2 DEF CallType, PC, PipeInv, EndsAreHeld, OfWrite, OfRead
  <2>q. QED
    BY <2>2 DEF UsersHoldPipe
<1>3. NoLostWakeup
  <2>1. ASSUME lock = NoProc, NEW p \in Procs PROVE pc[p] \notin InLock
    BY <2>1, NoProcAssumption DEF PipeInv, LockIsHeld
  <2>2. ASSUME lock = NoProc PROVE ~WriterAt("copy") /\ ~WriterAt("write")
    BY <2>1, <2>2 DEF WriterAt, InLock
  <2>q. QED
    BY <2>2 DEF PipeInv, SleepersWait, SomeWriterKilled, NoLostWakeup
<1>q. QED
  BY <1>1, <1>2, <1>3 DEF PipeIsSafe

-----------------------------------------------------------------------------
\* The indexes into the ring, the counts of the calls and the flags keep their types.
THEOREM TypesAreKept == Spec => []TypeOK
<1>1. PipeInv => TypeOK
  BY DEF PipeInv
<1>q. QED
  BY InitInv, StepInv, <1>1, PTL DEF Spec

\* For any number of readers and writers: the end of file is reported only when
\* it is the end, no process is left in a pipe that has been freed, and a process
\* sleeps on a pipe only while it has a reason to.
THEOREM PipesAreSafe == Spec => []PipeIsSafe
  BY InitInv, StepInv, InvIsSafe, PTL DEF Spec

-----------------------------------------------------------------------------
(* Arithmetic modulo b. *)

LEMMA DivMod ==
  ASSUME NEW a \in Int, NEW b \in Nat \ {0}
  PROVE  /\ a \div b \in Int /\ a % b \in 0..(b - 1)
         /\ a = b * (a \div b) + (a % b)
  BY SMT

LEMMA RestIsUnique ==
  ASSUME NEW b \in Nat \ {0}, NEW c \in Int, NEW r \in 0..(b - 1)
  PROVE  (b * c + r) % b = r
  BY SMT

LEMMA ModBelow == ASSUME NEW b \in Nat \ {0}, NEW a \in 0..(b - 1) PROVE a % b = a
  BY SMT
LEMMA ModOnce == ASSUME NEW b \in Nat \ {0}, NEW a \in b..(2 * b - 1) PROVE a % b = a - b
  BY SMT
LEMMA ModNegative == ASSUME NEW b \in Nat \ {0}, NEW a \in (-b)..(-1) PROVE a % b = a + b
  BY SMT

LEMMA ModShift ==
  ASSUME NEW a \in Int, NEW b \in Nat \ {0}, NEW k \in Int
  PROVE  (a + b * k) % b = a % b
<1>1. a + b * k = b * ((a \div b) + k) + (a % b)
  BY DivMod
<1>2. a % b \in 0..(b - 1) /\ (a \div b) + k \in Int
  BY DivMod
<1>q. QED
  BY <1>1, <1>2, RestIsUnique

\* Less than b apart, so in different places.
LEMMA ModDiffers ==
  ASSUME NEW b \in Nat \ {0}, NEW x \in Int, NEW y \in Int, x < y, y < x + b
  PROVE  x % b # y % b
<1>1. SUFFICES ASSUME x % b = y % b PROVE FALSE
  OBVIOUS
<1> DEFINE d == (y \div b) - (x \div b)
<1>2. d \in Int /\ y - x = b * d
  BY <1>1, DivMod
<1>3. 0 < b * d /\ b * d < b
  BY <1>2
<1>4. \A c \in Int : 0 < b * c => b * c >= b
  BY SMT
<1>q. QED
  BY <1>2, <1>3, <1>4

\* The counters overflow without a jump in the ring.
LEMMA WrapKeepsSlot == ASSUME NEW x \in Int PROVE (x % Wrap) % PipeSize = x % PipeSize
<1>1. PipeSize \in Nat \ {0} /\ Wrap \in Nat \ {0} /\ Wrap \in Int
  BY RingAssumption
<1>2. PICK m \in Int : Wrap = PipeSize * m
  <2>1. /\ Wrap \div PipeSize \in Int
        /\ Wrap = PipeSize * (Wrap \div PipeSize) + (Wrap % PipeSize)
    BY <1>1, DivMod
  <2>2. Wrap % PipeSize = 0
    BY RingAssumption
  <2>3. Wrap = PipeSize * (Wrap \div PipeSize)
    BY <1>1, <2>1, <2>2
  <2>q. QED
    BY <2>1, <2>3
<1>3. PICK c \in Int : x = Wrap * c + (x % Wrap)
  BY <1>1, DivMod
<1>4. PICK y \in Int : y = x % Wrap
  BY <1>1, DivMod
<1>5. x = y + PipeSize * (m * c) /\ m * c \in Int
  BY <1>1, <1>2, <1>3, <1>4
<1>6. (y + PipeSize * (m * c)) % PipeSize = y % PipeSize
  BY <1>1, <1>5, ModShift
<1>q. QED
  BY <1>4, <1>5, <1>6

-----------------------------------------------------------------------------
(* The ring as a sequence. *)

LEMMA RingSizes == PipeSize \in Nat \ {0} /\ Wrap \in Nat \ {0} /\ PipeSize < Wrap
  BY RingAssumption

LEMMA RingBounds ==
  ASSUME RingType
  PROVE  /\ PipeSize \in Nat \ {0} /\ Wrap \in Nat \ {0} /\ PipeSize < Wrap
         /\ nread \in 0..Wrap-1 /\ nwrite \in 0..Wrap-1
  BY RingAssumption DEF RingType

\* From one counter to the other.
LEMMA Distance ==
  ASSUME NEW r \in 0..Wrap-1, NEW w \in 0..Wrap-1
  PROVE  /\ (w - r) % Wrap \in 0..Wrap-1
         /\ (w - r) % Wrap = IF r <= w THEN w - r ELSE w - r + Wrap
<1>1. CASE r <= w
  <2>1. w - r \in 0..(Wrap - 1)
    BY <1>1, RingSizes
  <2>q. QED
    BY <1>1, <2>1, RingSizes, ModBelow
<1>2. CASE w < r
  <2>1. w - r \in (-Wrap)..(-1)
    BY <1>2, RingSizes
  <2>q. QED
    BY <1>2, <2>1, RingSizes, ModNegative
<1>q. QED
  BY <1>1, <1>2, RingSizes

LEMMA CountValue ==
  ASSUME RingType
  PROVE  /\ Count \in 0..Wrap-1
         /\ Count = IF nread <= nwrite THEN nwrite - nread ELSE nwrite - nread + Wrap
  BY RingBounds, Distance DEF Count

LEMMA FullValue == ASSUME RingType PROVE Full <=> Count = PipeSize
<1>1. CASE nread + PipeSize < Wrap
  <2>1. nread + PipeSize \in 0..(Wrap - 1)
    BY <1>1, RingBounds
  <2>2. (nread + PipeSize) % Wrap = nread + PipeSize
    BY <2>1, RingBounds, ModBelow
  <2>q. QED
    BY <2>1, <2>2, RingBounds, CountValue DEF Full
<1>2. CASE nread + PipeSize >= Wrap
  <2>1. nread + PipeSize \in Wrap..(2 * Wrap - 1)
    BY <1>2, RingBounds
  <2>2. (nread + PipeSize) % Wrap = nread + PipeSize - Wrap
    BY <2>1, RingBounds, ModOnce
  <2>q. QED
    BY <2>1, <2>2, RingBounds, CountValue DEF Full
<1>q. QED
  BY <1>1, <1>2, RingBounds

LEMMA SlotValue ==
  ASSUME RingType, NEW k \in Nat
  PROVE  Slot(k) = (nread + k - 1) % PipeSize /\ Slot(k) \in 0..PipeSize-1
<1>1. nread + k - 1 \in Int
  BY RingBounds
<1>q. QED
  BY <1>1, WrapKeepsSlot, RingBounds, ModInRange DEF Slot

\* The slot after the last byte is the one the next byte goes to.
LEMMA LastSlot == ASSUME RingType PROVE Slot(Count + 1) = nwrite % PipeSize
<1>1. Slot(Count + 1) = (nread + Count) % PipeSize
  <2>1. Count + 1 \in Nat /\ nread + (Count + 1) - 1 = nread + Count
    BY CountValue, RingBounds
  <2>q. QED
    BY <2>1, SlotValue
<1>2. CASE nread <= nwrite
  BY <1>1, <1>2, CountValue, RingBounds
<1>3. CASE nwrite < nread
  <2>1. nread + Count = nwrite + Wrap
    BY <1>3, CountValue, RingBounds
  <2>2. (nwrite + Wrap) % Wrap = nwrite
    BY RingBounds, ModOnce
  <2>3. ((nwrite + Wrap) % Wrap) % PipeSize = (nwrite + Wrap) % PipeSize
    BY RingBounds, WrapKeepsSlot
  <2>q. QED
    BY <1>1, <2>1, <2>2, <2>3
<1>q. QED
  BY <1>2, <1>3, RingBounds

LEMMA FunctionIsSeq ==
  ASSUME NEW c \in Nat, NEW f \in [1..c -> Bytes]
  PROVE  f \in Seq(Bytes) /\ Len(f) = c
  BY SMT

LEMMA SeqIsFunction == ASSUME NEW s \in Seq(Bytes) PROVE s = [k \in 1..Len(s) |-> s[k]]
<1>1. s \in [1..Len(s) -> Bytes]
  BY LenProperties
<1>q. QED
  BY <1>1

LEMMA QueueIsSeq ==
  ASSUME RingType
  PROVE  /\ Queue \in Seq(Bytes) /\ Len(Queue) = Count
         /\ \A k \in 1..Count : Queue[k] = data[Slot(k)]
<1>1. Count \in Nat
  BY CountValue, RingBounds
<1>2. \A k \in 1..Count : data[Slot(k)] \in Bytes
  <2>1. TAKE k \in 1..Count
  <2>2. Slot(k) \in 0..PipeSize-1
    BY <1>1, SlotValue
  <2>q. QED
    BY <2>2 DEF RingType
<1>3. Queue \in [1..Count -> Bytes]
  BY <1>2 DEF Queue
<1>q. QED
  BY <1>1, <1>3, FunctionIsSeq DEF Queue

-----------------------------------------------------------------------------
(* The steps. *)

\* At most PipeSize bytes are under way.
CountFits == Count <= PipeSize

\* counter++ of a uint
LEMMA NextCounter ==
  ASSUME NEW c \in 0..Wrap-1, Wrap \in Nat \ {0}
  PROVE  (c + 1) % Wrap = IF c + 1 < Wrap THEN c + 1 ELSE 0
<1>1. CASE c + 1 < Wrap
  <2>1. c + 1 \in 0..(Wrap - 1)
    BY <1>1
  <2>q. QED
    BY <1>1, <2>1, ModBelow
<1>2. CASE c + 1 = Wrap
  <2>1. c + 1 \in Wrap..(2 * Wrap - 1)
    BY <1>2
  <2>q. QED
    BY <1>2, <2>1, ModOnce
<1>q. QED
  BY <1>1, <1>2

\* A written byte is appended: it overwrites no byte under way.
LEMMA WritePuts ==
  ASSUME RingType, RingType', CountFits, NEW p \in Procs, NEW b \in Bytes, WriteByte(p, b)
  PROVE  CountFits' /\ F!Put(b)
<1>1. /\ ~Full /\ nwrite' = (nwrite + 1) % Wrap
      /\ data' = [data EXCEPT ![nwrite % PipeSize] = b]
      /\ nread' = nread /\ addr' = addr
  BY DEF WriteByte
<1>2. Count \in Nat /\ Count < PipeSize
  BY <1>1, FullValue, CountValue, RingBounds DEF CountFits
<1>3. Count' = Count + 1
  <2>1. nwrite' = IF nwrite + 1 < Wrap THEN nwrite + 1 ELSE 0
    BY <1>1, NextCounter, RingBounds
  <2>2. Count' = IF nread <= nwrite' THEN nwrite' - nread ELSE nwrite' - nread + Wrap
    BY <1>1, Distance DEF Count, RingType
  <2>q. QED
    BY <1>2, <2>1, <2>2, CountValue, RingBounds<1>4. CountFits'
  BY <1>2, <1>3, RingBounds DEF CountFits
<1>5. \A k \in 1..Count' : Slot(k)' = Slot(k)
  BY <1>1 DEF Slot
<1>6. /\ Slot(Count + 1) = nwrite % PipeSize
      /\ \A k \in 1..Count : Slot(k) \in 0..PipeSize-1 /\ Slot(k) # nwrite % PipeSize
  <2>1. Slot(Count + 1) = nwrite % PipeSize
    BY LastSlot
  <2>2. ASSUME NEW k \in 1..Count
        PROVE  Slot(k) \in 0..PipeSize-1 /\ Slot(k) # nwrite % PipeSize
    <3>1. /\ k \in Nat /\ Count + 1 \in Nat
          /\ nread + k - 1 \in Int /\ nread + (Count + 1) - 1 \in Int
          /\ nread + k - 1 < nread + (Count + 1) - 1
          /\ nread + (Count + 1) - 1 < nread + k - 1 + PipeSize
      BY <1>2, RingBounds
    <3>2. (nread + k - 1) % PipeSize # (nread + (Count + 1) - 1) % PipeSize
      BY <3>1, RingBounds, ModDiffers
    <3>3. /\ Slot(k) = (nread + k - 1) % PipeSize /\ Slot(k) \in 0..PipeSize-1
          /\ Slot(Count + 1) = (nread + (Count + 1) - 1) % PipeSize
      BY <3>1, SlotValue
    <3>q. QED
      BY <2>1, <3>2, <3>3
  <2>q. QED
    BY <2>1, <2>2
<1>7. Queue' = Append(Queue, b)
  <2>1. Queue' = [k \in 1..Count + 1 |-> data'[Slot(k)]]
    BY <1>3, <1>5 DEF Queue
  <2>2. nwrite % PipeSize \in 0..PipeSize-1
    <3>1. nwrite \in Int /\ PipeSize \in Nat \ {0}
      BY RingBounds
    <3>q. QED
      BY <3>1, ModInRange
  <2>3. \A k \in 1..Count : data'[Slot(k)] = data[Slot(k)]
    BY <1>1, <1>6 DEF RingType
  <2>4. data'[Slot(Count + 1)] = b
    BY <1>1, <1>6, <2>2 DEF RingType
  <2>5. \A k \in 1..Count + 1 : data'[Slot(k)] = Append(Queue, b)[k]
    BY <1>2, <2>3, <2>4, QueueIsSeq, AppendProperties
  <2>6. /\ Append(Queue, b) \in Seq(Bytes) /\ Len(Append(Queue, b)) = Count + 1
    BY QueueIsSeq, AppendProperties
  <2>7. Append(Queue, b) = [k \in 1..Count + 1 |-> Append(Queue, b)[k]]
    <3>1. Append(Queue, b) = [k \in 1..Len(Append(Queue, b)) |-> Append(Queue, b)[k]]
      BY <2>6, SeqIsFunction
    <3>q. QED
      BY <2>6, <3>1, Zenon
  <2>q. QED
    BY <2>1, <2>5, <2>7
<1>q. QED
  BY <1>1, <1>2, <1>4, <1>7, QueueIsSeq DEF F!Put

\* A byte is read from the front: the rest of the ring is the rest of the queue.
LEMMA ReadGets ==
  ASSUME RingType, RingType', CountFits, NEW p \in Procs, ReadByte(p)
  PROVE  CountFits' /\ F!Get
<1>1. /\ ~Empty /\ nread' = (nread + 1) % Wrap /\ addr' = data[nread % PipeSize]
      /\ nwrite' = nwrite /\ data' = data
  BY DEF ReadByte
<1>2. Count \in Nat \ {0}
  BY <1>1, CountValue, RingBounds DEF Empty
<1>3. nread' = IF nread + 1 < Wrap THEN nread + 1 ELSE 0
  BY <1>1, NextCounter, RingBounds
<1>4. Count' = Count - 1
  <2>1. Count' = IF nread' <= nwrite THEN nwrite - nread' ELSE nwrite - nread' + Wrap
    BY <1>1, Distance DEF Count, RingType
  <2>q. QED
    BY <1>2, <1>3, <2>1, CountValue, RingBounds
<1>5. CountFits'
  BY <1>2, <1>4, RingBounds DEF CountFits
<1>6. ASSUME NEW k \in Nat PROVE Slot(k)' = Slot(k + 1)
  <2>1. Slot(k + 1) = ((nread + k) % Wrap) % PipeSize
    <3>1. nread + (k + 1) - 1 = nread + k
      BY RingBounds
    <3>q. QED
      BY <3>1 DEF Slot
  <2>2. Slot(k)' = ((nread' + k - 1) % Wrap) % PipeSize
    BY DEF Slot
  <2>3. CASE nread' = nread + 1
    <3>1. nread' + k - 1 = nread + k
      BY <2>3, RingBounds
    <3>q. QED
      BY <2>1, <2>2, <3>1
  <2>4. CASE nread' = nread + 1 - Wrap
    <3>1. nread' + k - 1 = (nread + k) + Wrap * (-1) /\ nread + k \in Int
      BY <2>4, RingBounds
    <3>2. ((nread + k) + Wrap * (-1)) % Wrap = (nread + k) % Wrap
      BY <3>1, RingBounds, ModShift
    <3>q. QED
      BY <2>1, <2>2, <3>1, <3>2
  <2>q. QED
    BY <1>3, <2>3, <2>4, RingBounds
<1>7. addr' = Head(Queue) /\ Queue # <<>>
  <2>1. Slot(1) = nread % PipeSize
    <3>1. nread + 1 - 1 = nread
      BY RingBounds
    <3>q. QED
      BY <3>1, SlotValue
  <2>2. Queue[1] = data[nread % PipeSize]
    BY <1>2, <2>1, QueueIsSeq
  <2>q. QED
    BY <1>1, <1>2, <2>2, QueueIsSeq
<1>8. Queue' = Tail(Queue)
  <2>1. Queue' = [k \in 1..Count - 1 |-> data[Slot(k + 1)]]
    BY <1>1, <1>2, <1>4, <1>6 DEF Queue
  <2>2. /\ Tail(Queue) \in Seq(Bytes) /\ Len(Tail(Queue)) = Count - 1
        /\ \A k \in 1..Count - 1 : Tail(Queue)[k] = Queue[k + 1]
    BY <1>7, QueueIsSeq, HeadTailProperties
  <2>3. \A k \in 1..Count - 1 : Tail(Queue)[k] = data[Slot(k + 1)]
    BY <1>2, <2>2, QueueIsSeq
  <2>4. Tail(Queue) = [k \in 1..Count - 1 |-> Tail(Queue)[k]]
    <3>1. Tail(Queue) = [k \in 1..Len(Tail(Queue)) |-> Tail(Queue)[k]]
      BY <2>2, SeqIsFunction
    <3>q. QED
      BY <2>2, <3>1, Zenon
  <2>q. QED
    BY <2>1, <2>3, <2>4
<1>q. QED
  BY <1>5, <1>7, <1>8 DEF F!Get

\* The other steps do not touch the ring.
LEMMA OthersKeepRing ==
  ASSUME [Next]_vars, \A p \in Procs : ~ReadByte(p) /\ \A b \in Bytes : ~WriteByte(p, b)
  PROVE  UNCHANGED <<pipe, addr>>
  BY DEF Next, Writing, Reading, vars, StartWrite, StartRead, Start, WriteFail, ReadFail, Return,
         WriteFull, ReadEmpty, ReadCopy, WriteSleep, ReadSleep, FallAsleep, WriteResume, ReadResume,
         Resume, WriteDone, ReadDone, Close, Kill

-----------------------------------------------------------------------------
LEMMA InitFifo == Init => CountFits /\ F!Init
<1> SUFFICES ASSUME Init PROVE CountFits /\ F!Init
  OBVIOUS
<1>1. RingType
  BY InitTypes DEF TypeOK, RingType
<1>2. Count = 0 /\ addr \in Bytes
  BY <1>1, CountValue, RingBounds DEF Init
<1>3. Queue = <<>>
  BY <1>1, <1>2, QueueIsSeq
<1>q. QED
  BY <1>2, <1>3, RingSizes DEF CountFits, F!Init

LEMMA StepFifo ==
  RingType /\ RingType' /\ CountFits /\ [Next]_vars => CountFits' /\ [F!Next]_<<Queue, addr>>
<1> SUFFICES ASSUME RingType, RingType', CountFits, [Next]_vars
             PROVE  CountFits' /\ [F!Next]_<<Queue, addr>>
  OBVIOUS
<1>1. ASSUME NEW p \in Procs, NEW b \in Bytes, WriteByte(p, b)
      PROVE  CountFits' /\ [F!Next]_<<Queue, addr>>
  BY <1>1, WritePuts DEF F!Next
<1>2. ASSUME NEW p \in Procs, ReadByte(p) PROVE CountFits' /\ [F!Next]_<<Queue, addr>>
  BY <1>2, ReadGets DEF F!Next
<1>3. ASSUME \A p \in Procs : ~ReadByte(p) /\ \A b \in Bytes : ~WriteByte(p, b)
      PROVE  CountFits' /\ [F!Next]_<<Queue, addr>>
  <2>1. UNCHANGED <<pipe, addr>>
    BY <1>3, OthersKeepRing
  <2>2. Count' = Count /\ Queue' = Queue
    BY <2>1 DEF pipe, Count, Queue, Slot
  <2>q. QED
    BY <2>1, <2>2 DEF CountFits
<1>q. QED
  BY <1>1, <1>2, <1>3

\* For any number of readers and writers, any size of the ring that divides the
\* range of the counters, and any bytes: they come out once and in order, and the
\* ring never holds more than it has room for.
THEOREM PipeIsFifo == Spec => ImplementsFifo
<1>1. TypeOK => RingType
  BY DEF TypeOK, RingType
<1>q. QED
  BY <1>1, TypesAreKept, InitFifo, StepFifo, PTL DEF Spec, F!Spec, ImplementsFifo
=============================================================================
