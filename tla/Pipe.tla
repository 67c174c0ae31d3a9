-------------------------------- MODULE Pipe --------------------------------
(***************************************************************************)
(* A pipe (pipe.c): a ring of bytes between processes that hold its write  *)
(* end and processes that hold its read end, with kill() and the closing   *)
(* of an end (file.c: the last close of an end runs pipeclose).            *)
(*                                                                         *)
(* p->lock is explicit and bytes move one at a time under it; a process    *)
(* that found the ring full or empty is killed or put to sleep in a later  *)
(* step, because kill() does not take p->lock.                             *)
(***************************************************************************)
EXTENDS Integers, FiniteSets, Sequences

CONSTANTS Writers, Readers,  \* who holds which end at first
          Bytes,
          PipeSize,          \* PIPESIZE
          Wrap,              \* 2^32: the counters are of type uint
          Sizes,             \* bound: the n of the calls
          Killable,          \* the processes that get killed
          NoProc

Procs == Writers \cup Readers

ASSUME RingAssumption == /\ PipeSize \in Nat \ {0} /\ Wrap \in Nat
                         /\ Wrap % PipeSize = 0 /\ Wrap > PipeSize
ASSUME NoProcAssumption == NoProc \notin Procs
ASSUME CallsAssumption == Sizes \subseteq Nat /\ Killable \subseteq Procs

VARIABLES
  data, nread, nwrite, readopen, writeopen,   \* struct pipe
  freed,     \* kfree has been called on it
  lock,      \* the holder of p->lock
  fds,       \* the ends each process has open
  pc, i, n,  \* where each process is in pipewrite or piperead
  addr,      \* the last byte copied to a reader
  asleep,    \* p->state is SLEEPING
  killed

pipe == <<data, nread, nwrite>>
ends == <<readopen, writeopen, freed, fds>>
vars == <<pipe, ends, lock, pc, i, n, addr, asleep, killed>>

PC == {"idle", "write", "write_full", "write_asleep",
       "read", "read_empty", "read_asleep", "copy"}

\* pipealloc
Init == /\ data \in [0..PipeSize-1 -> Bytes]   \* kalloc does not clear
        /\ nread = 0 /\ nwrite = 0
        /\ readopen = TRUE /\ writeopen = TRUE /\ freed = FALSE
        /\ lock = NoProc
        /\ fds = [p \in Procs |-> {e \in {"r", "w"} : \/ e = "w" /\ p \in Writers
                                                      \/ e = "r" /\ p \in Readers}]
        /\ pc = [p \in Procs |-> "idle"]
        /\ i = [p \in Procs |-> 0]
        /\ n = [p \in Procs |-> 0]
        /\ addr \in Bytes
        /\ asleep = [p \in Procs |-> FALSE]
        /\ killed = [p \in Procs |-> FALSE]

-----------------------------------------------------------------------------
Full_wrong == nwrite = (nread + PipeSize + 1) % Wrap
Full == nwrite = (nread + PipeSize) % Wrap
Empty == nread = nwrite

Goto(p, to) == pc' = [pc EXCEPT ![p] = to]

\* wakeup(&p->nread) and wakeup(&p->nwrite)
WakeReaders_wrong == UNCHANGED asleep
WakeReaders == asleep' = [p \in Procs |-> asleep[p] /\ pc[p] # "read_asleep"]
WakeWriters == asleep' = [p \in Procs |-> asleep[p] /\ pc[p] # "write_asleep"]

\* A system call enters the critical section.
Start(p, end, to, k) ==
  /\ pc[p] = "idle" /\ end \in fds[p] /\ ~killed[p]
  /\ lock = NoProc
  /\ lock' = p
  /\ n' = [n EXCEPT ![p] = k]
  /\ i' = [i EXCEPT ![p] = 0]
  /\ Goto(p, to)
  /\ UNCHANGED <<pipe, ends, addr, asleep, killed>>

\* Release p->lock and return; i and n are dead.
Return(p) == /\ lock' = NoProc
             /\ Goto(p, "idle")
             /\ i' = [i EXCEPT ![p] = 0]
             /\ n' = [n EXCEPT ![p] = 0]

\* sleep(chan, &p->lock): on the channel that the step `to' names.
FallAsleep(p, from, to) ==
  /\ pc[p] = from
  /\ asleep' = [asleep EXCEPT ![p] = TRUE]
  /\ lock' = NoProc
  /\ Goto(p, to)
  /\ UNCHANGED <<pipe, ends, i, n, addr, killed>>

\* sleep returns with p->lock held, to a test of the condition.
Resume(p, from, to) ==
  /\ pc[p] = from /\ ~asleep[p]
  /\ lock = NoProc
  /\ lock' = p
  /\ Goto(p, to)
  /\ UNCHANGED <<pipe, ends, i, n, addr, asleep, killed>>

-----------------------------------------------------------------------------
(* pipewrite *)

StartWrite(p, k) == Start(p, "w", "write", k)

WriteByte(p, b) ==
  /\ pc[p] = "write" /\ i[p] < n[p] /\ ~Full
  /\ data' = [data EXCEPT ![nwrite % PipeSize] = b]
  /\ nwrite' = (nwrite + 1) % Wrap
  /\ i' = [i EXCEPT ![p] = @ + 1]
  /\ UNCHANGED <<nread, ends, lock, pc, n, addr, asleep, killed>>

\* Nobody will read, or killed: -1, whatever has been written before.
WriteFail(p) ==
  /\ pc[p] = "write" /\ i[p] < n[p] /\ Full
  /\ ~readopen \/ killed[p]
  /\ Return(p)
  /\ UNCHANGED <<pipe, ends, addr, asleep, killed>>

WriteFull(p) ==
  /\ pc[p] = "write" /\ i[p] < n[p] /\ Full
  /\ readopen /\ ~killed[p]
  /\ WakeReaders
  /\ Goto(p, "write_full")
  /\ UNCHANGED <<pipe, ends, lock, i, n, addr, killed>>

WriteSleep(p) == FallAsleep(p, "write_full", "write_asleep")

WriteResume(p) == Resume(p, "write_asleep", "write")

WriteDone(p) ==
  /\ pc[p] = "write" /\ i[p] = n[p]
  /\ WakeReaders
  /\ Return(p)
  /\ UNCHANGED <<pipe, ends, addr, killed>>

-----------------------------------------------------------------------------
(* piperead *)

StartRead(p, k) == Start(p, "r", "read", k)

ReadFail(p) ==
  /\ pc[p] = "read" /\ Empty /\ writeopen /\ killed[p]
  /\ Return(p)
  /\ UNCHANGED <<pipe, ends, addr, asleep, killed>>

ReadEmpty(p) ==
  /\ pc[p] = "read" /\ Empty /\ writeopen /\ ~killed[p]
  /\ Goto(p, "read_empty")
  /\ UNCHANGED <<pipe, ends, lock, i, n, addr, asleep, killed>>

ReadSleep(p) == FallAsleep(p, "read_empty", "read_asleep")

ReadResume_wrong(p) == Resume(p, "read_asleep", "copy")
ReadResume(p) == Resume(p, "read_asleep", "read")

ReadCopy(p) ==
  /\ pc[p] = "read" /\ ~(Empty /\ writeopen)
  /\ Goto(p, "copy")
  /\ UNCHANGED <<pipe, ends, lock, i, n, addr, asleep, killed>>

ReadByte(p) ==
  /\ pc[p] = "copy" /\ i[p] < n[p] /\ ~Empty
  /\ addr' = data[nread % PipeSize]
  /\ nread' = (nread + 1) % Wrap
  /\ i' = [i EXCEPT ![p] = @ + 1]
  /\ UNCHANGED <<data, nwrite, ends, lock, pc, n, asleep, killed>>

ReadDone(p) ==
  /\ pc[p] = "copy" /\ (i[p] = n[p] \/ Empty)
  /\ WakeWriters
  /\ Return(p)
  /\ UNCHANGED <<pipe, ends, addr, killed>>

-----------------------------------------------------------------------------
\* No other process has the end open (the references of its struct file).
LastToClose(p, end) == \A o \in Procs \ {p} : end \notin fds[o]

PipeClose_wrong2(end) ==
  /\ lock = NoProc
  /\ IF end = "w" THEN writeopen' = FALSE /\ UNCHANGED readopen
                  ELSE readopen' = FALSE /\ UNCHANGED writeopen
  /\ UNCHANGED asleep
  /\ freed' = (~readopen' /\ ~writeopen')

\* pipeclose: one critical section.
PipeClose(end) ==
  /\ lock = NoProc
  /\ IF end = "w" THEN writeopen' = FALSE /\ UNCHANGED readopen /\ WakeReaders
                  ELSE readopen' = FALSE /\ UNCHANGED writeopen /\ WakeWriters
  /\ freed' = (~readopen' /\ ~writeopen')

\* close(), or exit() of a killed process.
Close(p, end) ==
  /\ pc[p] = "idle" /\ end \in fds[p]
  /\ fds' = [fds EXCEPT ![p] = @ \ {end}]
  /\ IF LastToClose(p, end) THEN PipeClose(end)
     ELSE UNCHANGED <<readopen, writeopen, freed, asleep>>
  /\ UNCHANGED <<pipe, lock, pc, i, n, addr, killed>>

\* kill(), which takes only ptable.lock.
Kill(p) == /\ ~killed[p]
           /\ killed' = [killed EXCEPT ![p] = TRUE]
           /\ asleep' = [asleep EXCEPT ![p] = FALSE]
           /\ UNCHANGED <<pipe, ends, lock, pc, i, n, addr>>

-----------------------------------------------------------------------------
Writing(p) == \/ WriteFail(p) \/ WriteFull(p) \/ WriteSleep(p) \/ WriteResume(p) \/ WriteDone(p)
              \/ \E b \in Bytes : WriteByte(p, b)

Reading(p) == \/ ReadFail(p) \/ ReadEmpty(p) \/ ReadSleep(p) \/ ReadResume(p)
              \/ ReadCopy(p) \/ ReadByte(p) \/ ReadDone(p)

Next == \/ \E p \in Procs, k \in Sizes : StartWrite(p, k) \/ StartRead(p, k)
        \/ \E p \in Procs : Writing(p) \/ Reading(p)
        \/ \E p \in Procs, end \in {"r", "w"} : Close(p, end)
        \/ \E p \in Killable : Kill(p)

Spec == Init /\ [][Next]_vars

\* A process inside the kernel is scheduled and gets the spinlock in the end;
\* a killed one exits and closes its ends.  Nobody is obliged to call anything.
FairSpec ==
  /\ Spec
  /\ \A p \in Procs :
       /\ SF_vars(Writing(p) \/ Reading(p))
       /\ SF_vars(killed[p] /\ \E end \in {"r", "w"} : Close(p, end))

-----------------------------------------------------------------------------
TypeOK == /\ data \in [0..PipeSize-1 -> Bytes]
          /\ nread \in 0..Wrap-1 /\ nwrite \in 0..Wrap-1
          /\ readopen \in BOOLEAN /\ writeopen \in BOOLEAN /\ freed \in BOOLEAN
          /\ lock \in Procs \cup {NoProc}
          /\ fds \in [Procs -> SUBSET {"r", "w"}]
          /\ pc \in [Procs -> PC]
          /\ i \in [Procs -> Nat] /\ n \in [Procs -> Sizes \cup {0}] /\ \A p \in Procs : i[p] <= n[p]
          /\ addr \in Bytes
          /\ asleep \in [Procs -> BOOLEAN] /\ killed \in [Procs -> BOOLEAN]

Count == (nwrite - nread) % Wrap

\* The k-th byte under way is in this slot of the ring.
Slot(k) == ((nread + k - 1) % Wrap) % PipeSize
Queue == [k \in 1..Count |-> data[Slot(k)]]

\* The ring is a bounded FIFO: no byte is lost, duplicated or reordered, by
\* many writers and readers and across the overflow of the two counters.
F == INSTANCE Fifo WITH q <- Queue, got <- addr, Capacity <- PipeSize
ImplementsFifo == F!Spec

\* piperead returns 0 to a caller who asked for more only at the end of file.
EofIsTheEnd == \A p \in Procs :
                 pc[p] = "copy" /\ i[p] = 0 /\ n[p] > 0 /\ Empty => ~writeopen

\* Nobody works on, or sleeps in, a pipe that has been freed.
UsersHoldPipe == freed => \A p \in Procs : pc[p] = "idle"

\* A sleeper has a reason to sleep whenever p->lock is free.  The exception is
\* the code's: a writer that fills the ring and finds itself killed returns -1
\* without waking the readers.
NoLostWakeup ==
  lock = NoProc =>
    \A p \in Procs : asleep[p] =>
      /\ pc[p] = "write_asleep" => Full /\ readopen
      /\ pc[p] = "read_asleep" => writeopen /\ (Empty \/ \E w \in Writers : killed[w])

\* Readers and writers find the pipe as they may expect it, whoever closes,
\* kills or is faster between two of their steps.
PipeIsSafe == EofIsTheEnd /\ UsersHoldPipe /\ NoLostWakeup

\* Closing an end lets every process that is blocked at the other return.
CloseReleases ==
  \A p \in Procs : /\ (pc[p] = "write_asleep" /\ ~readopen) ~> pc[p] = "idle"
                   /\ (pc[p] = "read_asleep" /\ ~writeopen) ~> pc[p] = "idle"

\* Sleeping readers are not left beside bytes to read.
ReaderServed ==
  (~Empty /\ \E p \in Procs : pc[p] = "read_asleep")
    ~> (Empty \/ \A p \in Procs : pc[p] # "read_asleep")
=============================================================================
