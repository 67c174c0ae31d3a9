----------------------------- MODULE SleepLock -----------------------------
(***************************************************************************)
(* Sleep-locks (sleeplock.c) over sleep, wakeup and kill (proc.c), at the  *)
(* grain of single lock operations: the other modules treat "test a        *)
(* condition and sleep" as one step, and this module is why they may.      *)
(*                                                                         *)
(* Two spinlocks meet here, lk->lk and ptable.lock.  A process that holds  *)
(* a spinlock has interrupts disabled, so it is never preempted; the       *)
(* scheduler runs a process with ptable.lock held on its behalf.           *)
(***************************************************************************)
EXTENDS Naturals

CONSTANTS Procs, NoProc

ASSUME NoProcAssumption == NoProc \notin Procs

VARIABLES
  locked,   \* lk->locked
  holder,   \* lk->pid
  spin,     \* the process that holds the spinlock lk->lk, or NoProc
  ptable,   \* the process on whose behalf ptable.lock is held, or NoProc
  state,    \* p->state: RUNNING, SLEEPING (on lk) or RUNNABLE
  pc        \* the next step of each process

vars == <<locked, holder, spin, ptable, state, pc>>

PC == {"idle", "acq", "test", "sleep", "sleep_unlock", "sleep_switch", "woken", "reacq",
       "held", "rel", "rel_clear", "wakeup", "wakeup_scan", "rel_unlock"}

Init == /\ locked = FALSE
        /\ holder = NoProc
        /\ spin = NoProc
        /\ ptable = NoProc
        /\ state = [p \in Procs |-> "RUNNING"]
        /\ pc = [p \in Procs |-> "idle"]

\* p runs its next step, at from, and goes to to.
At(p, from, to) == /\ state[p] = "RUNNING"
                   /\ pc[p] = from
                   /\ pc' = [pc EXCEPT ![p] = to]

\* Operators whose name ends in _wrong are plausible mistakes in the operator
\* that follows them; PROJECT.json says which property catches each of them.

\* acquire() and release() of a spinlock held by h.
Take(h, p) == h = NoProc
Drop(h, p) == h = p

-----------------------------------------------------------------------------
(* acquiresleep *)

StartAcquire(p) == /\ At(p, "idle", "acq")
                   /\ UNCHANGED <<locked, holder, spin, ptable, state>>

\* acquire(&lk->lk), on entry and again at the end of sleep().
AcquireSpin(p) == /\ At(p, "acq", "test") \/ At(p, "reacq", "test")
                  /\ Take(spin, p)
                  /\ spin' = p
                  /\ UNCHANGED <<locked, holder, ptable, state>>

\* while (lk->locked) sleep(...), then take the lock and release the spinlock.
FoundLocked(p) == /\ locked
                  /\ At(p, "test", "sleep")
                  /\ UNCHANGED <<locked, holder, spin, ptable, state>>

TakeLock_wrong(p) == /\ At(p, "test", "held")
                     /\ locked' = TRUE
                     /\ holder' = p
                     /\ Drop(spin, p)
                     /\ spin' = NoProc
                     /\ UNCHANGED <<ptable, state>>

TakeLock(p) == /\ ~locked
               /\ At(p, "test", "held")
               /\ locked' = TRUE
               /\ holder' = p
               /\ Drop(spin, p)
               /\ spin' = NoProc
               /\ UNCHANGED <<ptable, state>>

-----------------------------------------------------------------------------
(* sleep(lk, &lk->lk) *)

\* A sleep that releases the condition's lock before it has ptable.lock.
SleepEntry_wrong(p) ==
  \/ /\ At(p, "sleep", "sleep_unlock")
     /\ Drop(spin, p) /\ spin' = NoProc
     /\ UNCHANGED <<locked, holder, ptable, state>>
  \/ /\ At(p, "sleep_unlock", "sleep_switch")
     /\ Take(ptable, p) /\ ptable' = p
     /\ UNCHANGED <<locked, holder, spin, state>>

\* acquire(&ptable.lock), and then release(lk).
SleepEntry(p) ==
  \/ /\ At(p, "sleep", "sleep_unlock")
     /\ Take(ptable, p) /\ ptable' = p
     /\ UNCHANGED <<locked, holder, spin, state>>
  \/ /\ At(p, "sleep_unlock", "sleep_switch")
     /\ Drop(spin, p) /\ spin' = NoProc
     /\ UNCHANGED <<locked, holder, ptable, state>>

\* p->chan = lk; p->state = SLEEPING; sched(): the scheduler on p's CPU goes on
\* with ptable.lock and releases it at the end of its scan.
SleepSwitch(p) == /\ At(p, "sleep_switch", "woken")
                  /\ state' = [state EXCEPT ![p] = "SLEEPING"]
                  /\ Drop(ptable, p)
                  /\ ptable' = NoProc
                  /\ UNCHANGED <<locked, holder, spin>>

\* A scheduler acquires ptable.lock and switches to p inside sleep().
Dispatch(p) == /\ state[p] = "RUNNABLE"
               /\ ptable = NoProc
               /\ ptable' = p
               /\ state' = [state EXCEPT ![p] = "RUNNING"]
               /\ UNCHANGED <<locked, holder, spin, pc>>

\* Where sleep() returns to: acquiresleep tests lk->locked again.
AfterSleep == "reacq"

\* p->chan = 0; release(&ptable.lock); acquire(lk) follows.
SleepReturn(p) == /\ At(p, "woken", AfterSleep)
                  /\ Drop(ptable, p)
                  /\ ptable' = NoProc
                  /\ UNCHANGED <<locked, holder, spin, state>>

-----------------------------------------------------------------------------
(* releasesleep, wakeup, kill *)

StartRelease(p) == /\ At(p, "held", "rel")
                   /\ UNCHANGED <<locked, holder, spin, ptable, state>>

ReleaseSpin(p) == /\ At(p, "rel", "rel_clear")
                  /\ Take(spin, p)
                  /\ spin' = p
                  /\ UNCHANGED <<locked, holder, ptable, state>>

\* No wakeup after the lock is free.
ReleaseClear_wrong2(p) == /\ At(p, "rel_clear", "rel_unlock")
                          /\ locked' = FALSE
                          /\ holder' = NoProc
                          /\ UNCHANGED <<spin, ptable, state>>

ReleaseClear(p) == /\ At(p, "rel_clear", "wakeup")
                   /\ locked' = FALSE
                   /\ holder' = NoProc
                   /\ UNCHANGED <<spin, ptable, state>>

Wakeup(p) == /\ At(p, "wakeup", "wakeup_scan")
             /\ Take(ptable, p)
             /\ ptable' = p
             /\ UNCHANGED <<locked, holder, spin, state>>

\* wakeup1: every sleeper on lk becomes runnable; release(&ptable.lock).
WakeupScan(p) ==
  /\ At(p, "wakeup_scan", "rel_unlock")
  /\ state' = [q \in Procs |-> IF state[q] = "SLEEPING" THEN "RUNNABLE" ELSE state[q]]
  /\ Drop(ptable, p)
  /\ ptable' = NoProc
  /\ UNCHANGED <<locked, holder, spin>>

ReleaseUnlock(p) == /\ At(p, "rel_unlock", "idle")
                    /\ Drop(spin, p)
                    /\ spin' = NoProc
                    /\ UNCHANGED <<locked, holder, ptable, state>>

\* kill(): whatever p waits for, it becomes runnable.
Kill(p) == /\ ptable = NoProc
           /\ state[p] = "SLEEPING"
           /\ state' = [state EXCEPT ![p] = "RUNNABLE"]
           /\ UNCHANGED <<locked, holder, spin, ptable, pc>>

-----------------------------------------------------------------------------
Acquiring(p) == \/ AcquireSpin(p) \/ FoundLocked(p) \/ TakeLock(p)
                \/ SleepEntry(p) \/ SleepSwitch(p)
                \/ Dispatch(p) \/ SleepReturn(p)

Releasing(p) == \/ StartRelease(p) \/ ReleaseSpin(p) \/ ReleaseClear(p)
                \/ Wakeup(p) \/ WakeupScan(p) \/ ReleaseUnlock(p)

Next == \E p \in Procs : StartAcquire(p) \/ Acquiring(p) \/ Releasing(p) \/ Kill(p)

Spec == Init /\ [][Next]_vars

(***************************************************************************)
(* A CPU inside the kernel keeps going, and a critical section ends.  A    *)
(* spinlock is not fair (xchg), but no process holds one for ever, so a    *)
(* process that spins gets it infinitely often offered: strong fairness of *)
(* the steps that take a spinlock.                                         *)
(***************************************************************************)
Fairness == \A p \in Procs : /\ SF_vars(Acquiring(p))
                             /\ SF_vars(Releasing(p))

FairSpec == Spec /\ Fairness

-----------------------------------------------------------------------------
(* Properties *)

\* Every variable keeps its type, and lk->pid is set exactly while locked.
TypeOK == /\ locked \in BOOLEAN
          /\ holder \in IF locked THEN Procs ELSE {NoProc}
          /\ spin \in Procs \cup {NoProc}
          /\ ptable \in Procs \cup {NoProc}
          /\ state \in [Procs -> {"RUNNING", "SLEEPING", "RUNNABLE"}]
          /\ pc \in [Procs -> PC]

\* From the moment it takes the lock until it clears lk->locked.
InSection(p) == pc[p] \in {"held", "rel", "rel_clear"}

\* No two processes are between acquiresleep and releasesleep at a time, and
\* lk->pid names the one that is.
MutualExclusion ==
  \A p \in Procs : InSection(p) => locked /\ holder = p

\* sleep() cannot miss the wakeup of releasesleep: while a process sleeps, the
\* lock is taken or the process that released it is still on its way to wakeup1.
NoLostWakeup ==
  \A p \in Procs : state[p] = "SLEEPING" =>
    locked \/ \E q \in Procs : pc[q] \in {"wakeup", "wakeup_scan"}

\* The lock as its users see it.
owner == IF locked THEN holder ELSE NoProc
M == INSTANCE Mutex

ImplementsMutex == M!Spec

\* Nobody is left asleep for ever.
SleeperWakes == \A p \in Procs : state[p] = "SLEEPING" ~> state[p] # "SLEEPING"
=============================================================================
