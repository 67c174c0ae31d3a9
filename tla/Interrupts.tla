------------------------------ MODULE Interrupts ------------------------------
(***************************************************************************)
(* Spinlocks and the interrupt flag on several CPUs: pushcli and popcli    *)
(* (spinlock.c), the timer interrupt (trap.c), sys_sleep (sysproc.c) and   *)
(* the way from a thread to the scheduler and back (proc.c).  A context is *)
(* a kernel stack: a thread's, or the one a CPU's scheduler runs on.  An   *)
(* interrupt handler runs on the stack that it interrupts.                 *)
(***************************************************************************)
EXTENDS Integers, Sequences

CONSTANTS
  NCpu,      \* CPUs 1..NCpu; the first one counts ticks
  NThread,   \* threads 1..NThread
  Wrap,      \* ticks wrap (2^32)
  Sleeps,    \* arguments of sleep
  Killable   \* bound: threads that kill may be called for

Cpus == 1..NCpu
Threads == 1..NThread
Sched(c) == NThread + c
Contexts == Threads \cup {Sched(c) : c \in Cpus}
None == 0
Locks == {"ticks", "ptable"}

VARIABLES
  cpu,     \* per CPU: the interrupt flag, ncli, intena, the thread it runs
  stack,   \* per context: frames, the innermost first
  owner,   \* lk->cpu of each spinlock, None if it is free
  thread,  \* state, killed, sys_sleep's n, ticks0 and the ticks since (waited)
  ticks,
  scan,    \* per CPU the loop of the scheduler: next index and `ran`
  panic

vars == <<cpu, stack, owner, thread, ticks, scan, panic>>

\* A frame: where the code is, whether it spins there for a lock, and the
\* saved intena (a thread that has called sched).
Frame(pc) == [pc |-> pc, spins |-> FALSE, intena |-> FALSE]

\* The context that CPU c runs, and its innermost frame.
Ctx(c) == IF cpu[c].thread = None THEN Sched(c) ELSE cpu[c].thread
Top(c) == Head(stack[Ctx(c)])
At(c, pc) == ~panic /\ Top(c).pc = pc
Saved(f, pc, intena) == [f EXCEPT !.pc = pc, !.spins = FALSE, !.intena = intena]
Place(f, x) == [stack EXCEPT ![x] = <<f>> \o Tail(@)]
Goto(c, pc) == Place(Saved(Top(c), pc, FALSE), Ctx(c))

\* pushcli and popcli; the flag is what eflags has before.  intena is dead
\* with ncli 0, and forgotten.
pushcli(x) == [x EXCEPT !.flag = FALSE, !.intena = IF x.ncli = 0 THEN x.flag ELSE @, !.ncli = @ + 1]
popcli_wrong(x) == [x EXCEPT !.ncli = @ - 1, !.flag = x.intena]
popcli(x) == [x EXCEPT !.flag = x.ncli = 1 /\ x.intena, !.intena = x.ncli > 1 /\ @, !.ncli = @ - 1]

\* acquire: interrupts off, then the spin for the lock.  Nobody else sees
\* the first, so with the lock free both are one step: Got is the CPU after
\* it; with the lock taken the CPU spins.
Free(l) == owner[l] = None
Got(c) == IF Top(c).spins THEN cpu[c] ELSE pushcli(cpu[c])
Take(c, from, l) == At(c, from) /\ Free(l) /\ owner' = [owner EXCEPT ![l] = c]

Spin(c, from, l) ==
  /\ At(c, from) /\ ~Free(l) /\ ~Top(c).spins
  /\ IF owner[l] = c
       THEN panic' = TRUE /\ UNCHANGED <<cpu, stack>>
       ELSE /\ cpu' = [cpu EXCEPT ![c] = pushcli(@)]
            /\ stack' = Place([Top(c) EXCEPT !.spins = TRUE], Ctx(c))
            /\ UNCHANGED panic
  /\ UNCHANGED <<owner, thread, ticks, scan>>

\* release in an action that goes on to pc.
ReleaseTo(c, l, pc) ==
  /\ owner' = [owner EXCEPT ![l] = None]
  /\ cpu' = [cpu EXCEPT ![c] = popcli(@)]
  /\ stack' = Goto(c, pc)

(***************************************************************************)
(* The timer interrupt, on any CPU whose flag is set.                      *)
(***************************************************************************)
\* A handler that interrupts a running thread yields.
AfterHandler(c) == IF cpu[c].thread = None THEN "iret" ELSE "yield"
Handler(c) == Frame(IF c = 1 THEN "tick" ELSE AfterHandler(c))

\* Bound: no thread waits for a CPU until ticks has come round.
MayTick(c) == c = 1 => \A t \in Threads : thread[t].waited < Wrap - 1

Interrupt(c) ==
  /\ ~panic /\ cpu[c].flag /\ MayTick(c)
  /\ cpu' = [cpu EXCEPT ![c].flag = FALSE]
  /\ stack' = [stack EXCEPT ![Ctx(c)] = <<Handler(c)>> \o @]
  /\ UNCHANGED <<owner, thread, ticks, scan, panic>>

TickLock(c) ==
  /\ Take(c, "tick", "ticks")
  /\ cpu' = [cpu EXCEPT ![c] = Got(c)]
  /\ ticks' = (ticks + 1) % Wrap
  /\ thread' = [t \in Threads |-> [thread[t] EXCEPT !.waited = IF thread[t].n # 0 THEN @ + 1 ELSE 0]]
  /\ stack' = Goto(c, "wakeup")
  /\ UNCHANGED <<scan, panic>>

\* wakeup(&ticks), under ptable.lock.
WakeAll(c) ==
  /\ At(c, "wakeup") /\ Free("ptable")
  /\ cpu' = [cpu EXCEPT ![c] = popcli(Got(c))]
  /\ thread' = [t \in Threads |->
       IF thread[t].state = "sleeping" THEN [thread[t] EXCEPT !.state = "runnable"] ELSE thread[t]]
  /\ stack' = Goto(c, "ticked")
  /\ UNCHANGED <<owner, ticks, scan, panic>>

TickUnlock(c) ==
  /\ At(c, "ticked") /\ ReleaseTo(c, "ticks", AfterHandler(c))
  /\ UNCHANGED <<thread, ticks, scan, panic>>

Timer(c) ==
  \/ Spin(c, "tick", "ticks") \/ TickLock(c)
  \/ Spin(c, "wakeup", "ptable") \/ WakeAll(c)
  \/ TickUnlock(c)

Iret(c) ==
  /\ At(c, "iret")
  /\ cpu' = [cpu EXCEPT ![c].flag = TRUE]
  /\ stack' = [stack EXCEPT ![Ctx(c)] = Tail(@)]
  /\ UNCHANGED <<owner, thread, ticks, scan, panic>>

(***************************************************************************)
(* To the scheduler and back.                                              *)
(***************************************************************************)
\* sched, with x the state of the CPU: its checks, then the switch; intena
\* stays with the thread.
Switch(c, x, pc, state) ==
  LET t == cpu[c].thread
  IN  /\ panic' = (owner'["ptable"] # c \/ x.ncli # 1 \/ x.flag)
      /\ cpu' = [cpu EXCEPT ![c] = [x EXCEPT !.thread = None]]
      /\ stack' = Place(Saved(Top(c), pc, x.intena), t)
      /\ thread' = [thread EXCEPT ![t].state = state]

Yield(c) ==
  /\ Take(c, "yield", "ptable") /\ Switch(c, Got(c), "yielded", "runnable")
  /\ UNCHANGED <<ticks, scan>>

\* The rest of sched, on whatever CPU the thread runs now.
Restore_wrong(c) == cpu[c]
Restore(c) == [cpu[c] EXCEPT !.intena = Top(c).intena]

\* ptable.lock, taken by the scheduler, is released by the thread.
BackFrom(c, from, to) ==
  /\ At(c, from)
  /\ owner' = [owner EXCEPT !["ptable"] = None]
  /\ cpu' = [cpu EXCEPT ![c] = popcli(Restore(c))]
  /\ stack' = Goto(c, to)
  /\ UNCHANGED <<thread, ticks, scan, panic>>

\* A new thread starts in forkret.
Forkret(c) ==
  /\ At(c, "forkret")
  /\ owner' = [owner EXCEPT !["ptable"] = None]
  /\ cpu' = [cpu EXCEPT ![c] = [popcli(@) EXCEPT !.flag = TRUE]]
  /\ stack' = Goto(c, "user")
  /\ UNCHANGED <<thread, ticks, scan, panic>>

\* The scheduler's loop; p and ran are dead outside of a scan.
NoScan == [next |-> 1, ran |-> FALSE]
Loop(x) == [x EXCEPT !.flag = TRUE]
SchedLoop(c) ==
  \/ /\ At(c, "loop")
     /\ cpu' = [cpu EXCEPT ![c] = Loop(@)]
     /\ stack' = Goto(c, "acquire")
     /\ UNCHANGED <<owner, thread, ticks, scan, panic>>
  \/ Spin(c, "acquire", "ptable")
  \/ /\ Take(c, "acquire", "ptable")
     /\ cpu' = [cpu EXCEPT ![c] = Got(c)]
     /\ stack' = Goto(c, "scan")
     /\ UNCHANGED <<thread, ticks, scan, panic>>

First(S) == {t \in S : \A u \in S : t <= u}
Runnable(c) == {t \in Threads : t >= scan[c].next /\ thread[t].state = "runnable"}
Scan(c) ==
  /\ At(c, "scan")
  /\ IF Runnable(c) # {}
       THEN \E t \in First(Runnable(c)) :
            /\ cpu' = [cpu EXCEPT ![c].thread = t]
            /\ thread' = [thread EXCEPT ![t].state = "running"]
            /\ scan' = [scan EXCEPT ![c] = [next |-> t + 1, ran |-> TRUE]]
            /\ UNCHANGED <<stack, owner>>
       ELSE /\ ReleaseTo(c, "ptable", IF scan[c].ran THEN "loop" ELSE "hlt")
            /\ scan' = [scan EXCEPT ![c] = NoScan]
            /\ UNCHANGED thread
  /\ UNCHANGED <<ticks, panic>>

\* The CPU stops until an interrupt has come and gone.
Halt(c) ==
  /\ At(c, "hlt") /\ cpu[c].flag /\ MayTick(c)
  /\ cpu' = [cpu EXCEPT ![c].flag = FALSE]
  /\ stack' = [stack EXCEPT ![Ctx(c)] = <<Handler(c), Frame("loop")>>]
  /\ UNCHANGED <<owner, thread, ticks, scan, panic>>

(***************************************************************************)
(* sys_sleep: n is compared as an unsigned number.                         *)
(***************************************************************************)
Elapsed(t) == (ticks - thread[t].ticks0 + Wrap) % Wrap
Waits_wrong(t) == ticks < thread[t].ticks0 + thread[t].n
Waits(t) == Elapsed(t) < thread[t].n % Wrap

Enter(c) ==
  /\ At(c, "user")
  /\ \E n \in Sleeps : thread' = [thread EXCEPT ![cpu[c].thread].n = n]
  /\ stack' = Goto(c, "sleep")
  /\ UNCHANGED <<cpu, owner, ticks, scan, panic>>

Start(c) ==
  /\ Take(c, "sleep", "ticks")
  /\ cpu' = [cpu EXCEPT ![c] = Got(c)]
  /\ thread' = [thread EXCEPT ![cpu[c].thread].ticks0 = ticks, ![cpu[c].thread].waited = 0]
  /\ stack' = Goto(c, "test")
  /\ UNCHANGED <<ticks, scan, panic>>

Test(c) ==
  /\ At(c, "test")
  /\ LET t == cpu[c].thread IN
       IF Waits(t) /\ ~thread[t].killed
         THEN stack' = Goto(c, "sleep1") /\ UNCHANGED <<cpu, owner>>
         ELSE ReleaseTo(c, "ticks", "return")
  /\ UNCHANGED <<thread, ticks, scan, panic>>

\* sleep(&ticks, &tickslock): ptable.lock, tickslock goes, then sched.
SleepLock(c) ==
  /\ At(c, "sleep1") /\ Free("ptable")
  /\ owner' = [owner EXCEPT !["ptable"] = c, !["ticks"] = None]
  /\ Switch(c, popcli(Got(c)), "slept", "sleeping")
  /\ UNCHANGED <<ticks, scan>>

Again(c) ==
  /\ Take(c, "again", "ticks")
  /\ cpu' = [cpu EXCEPT ![c] = Got(c)]
  /\ stack' = Goto(c, "test")
  /\ UNCHANGED <<thread, ticks, scan, panic>>

Return(c) ==
  /\ At(c, "return")
  /\ stack' = Goto(c, "user")
  /\ thread' = [thread EXCEPT ![cpu[c].thread] = [@ EXCEPT !.killed = FALSE, !.n = 0, !.ticks0 = 0, !.waited = 0]]
  /\ UNCHANGED <<cpu, owner, ticks, scan, panic>>

SysSleep(c) ==
  \/ Enter(c) \/ Spin(c, "sleep", "ticks") \/ Start(c) \/ Test(c)
  \/ Spin(c, "sleep1", "ptable") \/ SleepLock(c)
  \/ BackFrom(c, "slept", "again") \/ Spin(c, "again", "ticks") \/ Again(c) \/ Return(c)

\* kill, from a CPU that can take ptable.lock.
Kill(t) ==
  /\ ~panic /\ Free("ptable") /\ ~thread[t].killed
  /\ thread' = [thread EXCEPT ![t].killed = TRUE, ![t].state = IF @ = "sleeping" THEN "runnable" ELSE @]
  /\ UNCHANGED <<cpu, stack, owner, ticks, scan, panic>>

Init ==
  /\ cpu = [c \in Cpus |-> [flag |-> FALSE, ncli |-> 0, intena |-> FALSE, thread |-> None]]
  /\ stack = [x \in Contexts |-> <<Frame(IF x \in Threads THEN "forkret" ELSE "loop")>>]
  /\ owner = [l \in Locks |-> None]
  /\ thread = [t \in Threads |-> [state |-> "runnable", killed |-> FALSE, n |-> 0, ticks0 |-> 0, waited |-> 0]]
  /\ ticks = Wrap - 1
  /\ scan = [c \in Cpus |-> NoScan]
  /\ panic = FALSE

Next ==
  \/ \E c \in Cpus :
       \/ Interrupt(c) \/ Timer(c) \/ Iret(c)
       \/ Spin(c, "yield", "ptable") \/ Yield(c) \/ BackFrom(c, "yielded", "iret") \/ Forkret(c)
       \/ SchedLoop(c) \/ Scan(c) \/ Halt(c) \/ SysSleep(c)
  \/ \E t \in Killable : Kill(t)

Spec == Init /\ [][Next]_vars

-----------------------------------------------------------------------------

\* A CPU that holds a spinlock takes no interrupt, so no handler can spin
\* for a lock of its own CPU; and neither acquire nor sched ever panics.
NoSelfDeadlock ==
  /\ ~panic
  /\ \A l \in Locks : owner[l] # None => ~cpu[owner[l]].flag /\ cpu[owner[l]].ncli > 0

Handlers == {"tick", "wakeup", "ticked", "yield", "yielded", "iret", "forkret", "loop"}

\* Interrupts come back as they were, also for a thread that went to sleep
\* on another CPU: a system call without a lock runs with interrupts, and a
\* CPU that halts (the student's change to the scheduler) can be woken.
InterruptsRestored ==
  \A c \in Cpus : cpu[c].ncli = 0 /\ Top(c).pc \notin Handlers => cpu[c].flag

\* sys_sleep ends only when n ticks have passed or the thread is killed,
\* also while ticks wraps; and when they have, and the tick is over, it does
\* not sleep on.
SleepIsExact ==
  /\ \A c \in Cpus : Top(c).pc = "return" =>
       LET t == cpu[c].thread IN thread[t].killed \/ thread[t].waited >= thread[t].n % Wrap
  /\ \A t \in Threads : thread[t].state = "sleeping" /\ owner["ticks"] = None =>
       thread[t].waited < thread[t].n % Wrap
=============================================================================
