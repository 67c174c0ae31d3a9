-------------------------------- MODULE Proc --------------------------------
(***************************************************************************)
(* Processes and CPUs of the xv6 kernel (proc.c, with the parts of trap.c  *)
(* that end a killed process and give up the CPU): fork, exit, wait, kill, *)
(* sleep, wakeup, yield and the per-CPU scheduler, which halts an idle CPU.*)
(*                                                                         *)
(* ptable.lock is explicit because it changes hands: a process acquires it *)
(* to leave its CPU, the scheduler goes on scanning with it, and the next  *)
(* process it switches to releases it.                                     *)
(***************************************************************************)
EXTENDS Integers, FiniteSets

CONSTANTS NProc,     \* NPROC: size of the process table
          Cpus,      \* the CPUs
          Channels,  \* what processes sleep on outside wait()
          MaxPid,    \* bound: no fork once nextpid exceeds it
          KillArgs,  \* the arguments of the kill system calls made
          MayFail,   \* whether kalloc may run out of memory in fork
          NoCpu

ASSUME NProcAssumption == NProc \in Nat \ {0}
ASSUME NoCpuAssumption == NoCpu \notin Cpus

Slots == 1..NProc
NoSlot == 0
init == 1          \* initproc

ASSUME ChannelsAssumption == Channels \cap (0..NProc) = {}

VARIABLES
  state,    \* p->state
  pid,      \* p->pid
  parent,   \* p->parent
  killed,   \* p->killed
  chan,     \* p->chan; wait() sleeps on the process itself
  pc,       \* where each process is: user, kernel, fork, waiting, sleeping
  child,    \* np in a fork under way
  lock,     \* the CPU that holds ptable.lock
  run,      \* c->proc: whose stack the CPU is on
  mode,     \* what the CPU does
  scan,     \* the scheduler's loop index
  ran,      \* the scheduler's local variable of that name
  nextpid,
  asked     \* pids that kill() or a fault has condemned (history)

table == <<state, pid, parent, killed, chan>>
threads == <<pc, child>>
cpu == <<run, mode, scan, ran>>
vars == <<table, threads, lock, cpu, nextpid, asked>>

States == {"UNUSED", "EMBRYO", "SLEEPING", "RUNNABLE", "RUNNING", "ZOMBIE"}
PC == {"user", "kernel", "fork", "waiting", "sleeping"}
Mode == {"loop", "scan", "run", "switch", "idle", "halted"}

\* s is the first slot of the set S, in the order of the table.
IsFirst(s, S) == s \in S /\ \A t \in S : s <= t

Init == /\ state = [s \in Slots |-> IF s = init THEN "RUNNABLE" ELSE "UNUSED"]
        /\ pid = [s \in Slots |-> IF s = init THEN 1 ELSE 0]
        /\ parent = [s \in Slots |-> NoSlot]
        /\ killed = [s \in Slots |-> FALSE]
        /\ chan = [s \in Slots |-> NoSlot]
        /\ pc = [s \in Slots |-> "user"]
        /\ child = [s \in Slots |-> NoSlot]
        /\ lock = NoCpu
        /\ run = [c \in Cpus |-> NoSlot]
        /\ mode = [c \in Cpus |-> "loop"]
        /\ scan = [c \in Cpus |-> 1]
        /\ ran = [c \in Cpus |-> FALSE]
        /\ nextpid = 2
        /\ asked = {}

-----------------------------------------------------------------------------
(* scheduler *)

\* acquire(&ptable.lock); ran = 0.
SchedLock(c) == /\ mode[c] = "loop"
                /\ lock = NoCpu
                /\ lock' = c
                /\ mode' = [mode EXCEPT ![c] = "scan"]
                /\ scan' = [scan EXCEPT ![c] = 1]
                /\ ran' = [ran EXCEPT ![c] = FALSE]
                /\ UNCHANGED <<table, threads, run, nextpid, asked>>

Eligible(c) == {s \in Slots : s >= scan[c] /\ state[s] = "RUNNABLE"}

\* The lock after a switch to p: wait() goes on with it, everyone else
\* (forkret, yield, sleep) releases it.
LockAfterSwitch(c, p) == IF pc[p] = "waiting" THEN c ELSE NoCpu

\* Switch to the next runnable process, which tidies up behind its sleep().
SchedPick(c) ==
  /\ mode[c] = "scan" /\ lock = c
  /\ \E p \in Slots :
       /\ IsFirst(p, Eligible(c))
       /\ state' = [state EXCEPT ![p] = "RUNNING"]
       /\ chan' = [chan EXCEPT ![p] = NoSlot]
       /\ pc' = [pc EXCEPT ![p] = IF @ = "sleeping" THEN "kernel" ELSE @]
       /\ run' = [run EXCEPT ![c] = p]
       /\ scan' = [scan EXCEPT ![c] = p + 1]
       /\ lock' = LockAfterSwitch(c, p)
  /\ ran' = [ran EXCEPT ![c] = TRUE]
  /\ mode' = [mode EXCEPT ![c] = "run"]
  /\ UNCHANGED <<pid, parent, killed, child, nextpid, asked>>

\* The end of the scan; a CPU that found nothing to run goes to halt().
SchedDone(c) ==
  /\ mode[c] = "scan" /\ lock = c
  /\ Eligible(c) = {}
  /\ lock' = NoCpu
  /\ mode' = [mode EXCEPT ![c] = IF ran[c] THEN "loop" ELSE "idle"]
  /\ UNCHANGED <<table, threads, run, scan, ran, nextpid, asked>>

Halt(c) == /\ mode[c] = "idle"
           /\ mode' = [mode EXCEPT ![c] = "halted"]
           /\ UNCHANGED <<table, threads, lock, run, scan, ran, nextpid, asked>>

\* An interrupt ends hlt; a halted CPU without a timer would stay halted.
Interrupt_wrong(c) == /\ mode[c] = "halted"
                      /\ \E s \in Slots : state[s] = "RUNNING"
                      /\ mode' = [mode EXCEPT ![c] = "loop"]
                      /\ UNCHANGED <<table, threads, lock, run, scan, ran, nextpid, asked>>

Interrupt(c) == /\ mode[c] = "halted"
                /\ mode' = [mode EXCEPT ![c] = "loop"]
                /\ UNCHANGED <<table, threads, lock, run, scan, ran, nextpid, asked>>

\* swtch back to the scheduler at the end of sched().
Switch(c) == /\ mode[c] = "switch"
             /\ run' = [run EXCEPT ![c] = NoSlot]
             /\ mode' = [mode EXCEPT ![c] = "scan"]
             /\ UNCHANGED <<table, threads, lock, scan, ran, nextpid, asked>>

-----------------------------------------------------------------------------
(* What a process does on its CPU *)

\* p runs on c at step from.
On(c, p, from) == mode[c] = "run" /\ run[c] = p /\ pc[p] = from

\* p gives up c inside sched(), with ptable.lock held.
Leave(c, p, s) == /\ state' = [state EXCEPT ![p] = s]
                  /\ mode' = [mode EXCEPT ![c] = "switch"]

\* trap(): a system call, unless the process has been killed.
Syscall(c, p) == /\ On(c, p, "user") /\ ~killed[p]
                 /\ pc' = [pc EXCEPT ![p] = "kernel"]
                 /\ UNCHANGED <<table, child, lock, cpu, nextpid, asked>>

SysReturn(c, p) == /\ On(c, p, "kernel")
                   /\ pc' = [pc EXCEPT ![p] = "user"]
                   /\ UNCHANGED <<table, child, lock, cpu, nextpid, asked>>

\* trap(): a fault in user space.
Fault(c, p) == /\ On(c, p, "user") /\ p # init
               /\ killed' = [killed EXCEPT ![p] = TRUE]
               /\ asked' = asked \cup {pid[p]}
               /\ UNCHANGED <<state, pid, parent, chan, threads, lock, cpu, nextpid>>

\* Timer tick: yield(), unless trap() first ends a killed process.
Yield_wrong(c, p) == /\ mode[c] = "run" /\ run[c] = p
                     /\ pc[p] \in {"kernel", "fork"} \/ (pc[p] = "user" /\ ~killed[p])
                     /\ Leave(c, p, "RUNNABLE")
                     /\ UNCHANGED <<pid, parent, killed, chan, threads, lock, run, scan, ran,
                                    nextpid, asked>>

Yield(c, p) == /\ mode[c] = "run" /\ run[c] = p
               /\ pc[p] \in {"kernel", "fork"} \/ (pc[p] = "user" /\ ~killed[p])
               /\ lock = NoCpu
               /\ lock' = c
               /\ Leave(c, p, "RUNNABLE")
               /\ UNCHANGED <<pid, parent, killed, chan, threads, run, scan, ran, nextpid, asked>>

\* sleep(ch, lk) with another lock than ptable.lock.
Sleep(c, p, ch) == /\ On(c, p, "kernel")
                   /\ lock = NoCpu
                   /\ lock' = c
                   /\ chan' = [chan EXCEPT ![p] = ch]
                   /\ pc' = [pc EXCEPT ![p] = "sleeping"]
                   /\ Leave(c, p, "SLEEPING")
                   /\ UNCHANGED <<pid, parent, killed, child, run, scan, ran, nextpid, asked>>

\* wakeup1: the states after a wakeup on ch.
Woken(ch) == [s \in Slots |-> IF state[s] = "SLEEPING" /\ chan[s] = ch THEN "RUNNABLE" ELSE state[s]]

\* wakeup(ch), by an interrupt handler or another process.
Wakeup(ch) == /\ lock = NoCpu
              /\ state' = Woken(ch)
              /\ UNCHANGED <<pid, parent, killed, chan, threads, lock, cpu, nextpid, asked>>

\* kill(k): the first slot with that pid, whatever its state.
Kill(c, p, k) ==
  /\ On(c, p, "kernel")
  /\ lock = NoCpu
  /\ asked' = asked \cup {k}
  /\ LET S == {s \in Slots : pid[s] = k} IN
       IF S = {} THEN UNCHANGED <<state, killed>>
       ELSE \E s \in Slots :
              /\ IsFirst(s, S)
              /\ killed' = [killed EXCEPT ![s] = TRUE]
              /\ state' = [state EXCEPT ![s] = IF @ = "SLEEPING" THEN "RUNNABLE" ELSE @]
  /\ UNCHANGED <<pid, parent, chan, threads, lock, cpu, nextpid>>

-----------------------------------------------------------------------------
(* fork, exit, wait *)

Unused == {s \in Slots : state[s] = "UNUSED"}

\* allocproc's critical section; fork returns -1 when the table is full.
ForkAlloc(c, p) ==
  /\ On(c, p, "kernel")
  /\ lock = NoCpu /\ nextpid <= MaxPid
  /\ \E np \in Slots :
       /\ IsFirst(np, Unused)
       /\ state' = [state EXCEPT ![np] = "EMBRYO"]
       /\ pid' = [pid EXCEPT ![np] = nextpid]
       /\ child' = [child EXCEPT ![p] = np]
  /\ nextpid' = nextpid + 1
  /\ pc' = [pc EXCEPT ![p] = "fork"]
  /\ UNCHANGED <<parent, killed, chan, lock, cpu, asked>>

\* kalloc fails in allocproc or copyuvm: the slot is given back, without
\* ptable.lock, and keeps its pid.
ForkFail(c, p) == /\ MayFail
                  /\ On(c, p, "fork")
                  /\ state' = [state EXCEPT ![child[p]] = "UNUSED"]
                  /\ child' = [child EXCEPT ![p] = NoSlot]
                  /\ pc' = [pc EXCEPT ![p] = "kernel"]
                  /\ UNCHANGED <<pid, parent, killed, chan, lock, cpu, nextpid, asked>>

\* np->parent = curproc; np->state = RUNNABLE.  Only the parent itself ever
\* looks for its children, so that the two assignments may be one step.

ForkDone(c, p) == /\ On(c, p, "fork")
                  /\ lock = NoCpu
                  /\ state' = [state EXCEPT ![child[p]] = "RUNNABLE"]
                  /\ parent' = [parent EXCEPT ![child[p]] = p]
                  /\ pc' = [pc EXCEPT ![p] = "kernel", ![child[p]] = "user"]
                  /\ child' = [child EXCEPT ![p] = NoSlot]
                  /\ UNCHANGED <<pid, killed, chan, lock, cpu, nextpid, asked>>

Children(p) == {s \in Slots : parent[s] = p}

\* Abandoned children go to init.
Adopted_wrong(p) == parent
Adopted(p) == [s \in Slots |-> IF parent[s] = p THEN init ELSE parent[s]]

\* The processes that exit wakes: the parent, and init for an adopted zombie.
ToWake_wrong(p) == {parent[p]}
ToWake_wrong2(p) == IF \E s \in Children(p) : state[s] = "ZOMBIE" THEN {init} ELSE {}
ToWake(p) == {parent[p]} \cup
             IF \E s \in Children(p) : state[s] = "ZOMBIE" THEN {init} ELSE {}

\* exit()'s critical section, from the system call or from trap() for a killed
\* process; files are closed before it.  init does not exit.
Exit_wrong(c, p) ==
  /\ p # init
  /\ On(c, p, "kernel")
  /\ lock = NoCpu
  /\ lock' = c
  /\ parent' = Adopted(p)
  /\ state' = [state EXCEPT ![p] = "ZOMBIE"]
  /\ mode' = [mode EXCEPT ![c] = "switch"]
  /\ UNCHANGED <<pid, killed, chan, threads, run, scan, ran, nextpid, asked>>

Exit(c, p) ==
  /\ p # init
  /\ On(c, p, "kernel") \/ (On(c, p, "user") /\ killed[p])
  /\ lock = NoCpu
  /\ lock' = c
  /\ parent' = Adopted(p)
  /\ state' = [s \in Slots |->
                 IF s = p THEN "ZOMBIE"
                 ELSE IF state[s] = "SLEEPING" /\ chan[s] \in ToWake(p) THEN "RUNNABLE"
                 ELSE state[s]]
  /\ mode' = [mode EXCEPT ![c] = "switch"]
  /\ UNCHANGED <<pid, killed, chan, threads, run, scan, ran, nextpid, asked>>

\* wait(): acquire(&ptable.lock).
WaitLock(c, p) == /\ On(c, p, "kernel")
                  /\ lock = NoCpu
                  /\ lock' = c
                  /\ pc' = [pc EXCEPT ![p] = "waiting"]
                  /\ UNCHANGED <<table, child, cpu, nextpid, asked>>

Zombies(p) == {s \in Children(p) : state[s] = "ZOMBIE"}

\* A zombie child is found and freed.
WaitReap_wrong(c, p) ==
  /\ On(c, p, "waiting") /\ lock = c
  /\ \E z \in Slots :
       /\ IsFirst(z, Zombies(p))
       /\ pid' = [pid EXCEPT ![z] = 0]
       /\ parent' = [parent EXCEPT ![z] = NoSlot]
       /\ state' = [state EXCEPT ![z] = "UNUSED"]
  /\ lock' = NoCpu
  /\ pc' = [pc EXCEPT ![p] = "kernel"]
  /\ UNCHANGED <<killed, chan, child, cpu, nextpid, asked>>

WaitReap(c, p) ==
  /\ On(c, p, "waiting") /\ lock = c
  /\ \E z \in Slots :
       /\ IsFirst(z, Zombies(p))
       /\ pid' = [pid EXCEPT ![z] = 0]
       /\ parent' = [parent EXCEPT ![z] = NoSlot]
       /\ killed' = [killed EXCEPT ![z] = FALSE]
       /\ state' = [state EXCEPT ![z] = "UNUSED"]
       /\ pc' = [pc EXCEPT ![p] = "kernel", ![z] = "user"]
  /\ lock' = NoCpu
  /\ UNCHANGED <<chan, child, cpu, nextpid, asked>>

\* No children, or killed: return -1.
WaitFail(c, p) == /\ On(c, p, "waiting") /\ lock = c
                  /\ Zombies(p) = {} /\ (Children(p) = {} \/ killed[p])
                  /\ lock' = NoCpu
                  /\ pc' = [pc EXCEPT ![p] = "kernel"]
                  /\ UNCHANGED <<table, child, cpu, nextpid, asked>>

\* sleep(curproc, &ptable.lock): the lock is never released in between.
WaitSleep(c, p) == /\ On(c, p, "waiting") /\ lock = c
                   /\ Zombies(p) = {} /\ Children(p) # {} /\ ~killed[p]
                   /\ chan' = [chan EXCEPT ![p] = p]
                   /\ Leave(c, p, "SLEEPING")
                   /\ UNCHANGED <<pid, parent, killed, threads, lock, run, scan, ran,
                                  nextpid, asked>>

-----------------------------------------------------------------------------
Scheduler(c) == \/ SchedLock(c) \/ SchedPick(c) \/ SchedDone(c)
                \/ Halt(c) \/ Interrupt(c) \/ Switch(c)

Wait(c, p) == WaitReap(c, p) \/ WaitFail(c, p) \/ WaitSleep(c, p)

Next == \/ \E c \in Cpus : Scheduler(c)
        \/ \E c \in Cpus, p \in Slots :
             \/ Syscall(c, p) \/ SysReturn(c, p) \/ Fault(c, p) \/ Yield(c, p)
             \/ ForkAlloc(c, p) \/ ForkFail(c, p) \/ ForkDone(c, p)
             \/ Exit(c, p) \/ WaitLock(c, p) \/ Wait(c, p)
             \/ \E ch \in Channels : Sleep(c, p, ch)
             \/ \E k \in KillArgs : Kill(c, p, k)
        \/ \E ch \in Channels : Wakeup(ch)

Spec == Init /\ [][Next]_vars

-----------------------------------------------------------------------------
(***************************************************************************)
(* Fairness: each scheduler keeps going (its spin for ptable.lock succeeds *)
(* in the end, the timer wakes a halted CPU), the timer keeps ticking, a   *)
(* killed process is seen by trap(), and interrupts wake the sleepers.     *)
(* init's program is a loop around wait().                                 *)
(***************************************************************************)
Tick(c) == \E p \in Slots : Yield(c, p)
Finish(c) == \E p \in Slots : Wait(c, p) \/ (pc[p] = "user" /\ Exit(c, p))

InitLoops(c) == Syscall(c, init) \/ ForkDone(c, init)
InitWaits(c) == WaitLock(c, init)

Fairness ==
  /\ \A c \in Cpus : SF_vars(Scheduler(c)) /\ SF_vars(Tick(c)) /\ SF_vars(Finish(c))
  /\ \A ch \in Channels : SF_vars(Wakeup(ch))
  /\ SF_vars(\E c \in Cpus : InitLoops(c)) /\ SF_vars(\E c \in Cpus : InitWaits(c))

FairSpec == Spec /\ Fairness

-----------------------------------------------------------------------------
(* Properties *)

Live(s) == state[s] \in {"SLEEPING", "RUNNABLE", "RUNNING", "ZOMBIE"}

\* Types; fork's np is set exactly while fork is under way.
TypeOK == /\ state \in [Slots -> States]
          /\ pid \in [Slots -> Nat]
          /\ parent \in [Slots -> Slots \cup {NoSlot}]
          /\ killed \in [Slots -> BOOLEAN]
          /\ chan \in [Slots -> Slots \cup {NoSlot} \cup Channels]
          /\ pc \in [Slots -> PC]
          /\ child \in [Slots -> Slots \cup {NoSlot}]
          /\ \A p \in Slots : child[p] # NoSlot <=> pc[p] = "fork"
          /\ lock \in Cpus \cup {NoCpu}
          /\ run \in [Cpus -> Slots \cup {NoSlot}]
          /\ mode \in [Cpus -> Mode]
          /\ scan \in [Cpus -> 1..NProc + 1]
          /\ ran \in [Cpus -> BOOLEAN]
          /\ nextpid \in Nat

\* A kernel stack is used by one CPU at a time, and never once it is free:
\* no CPU picks a process that has not left its stack, no parent frees it.
OneStackOneCpu ==
  /\ \A c \in Cpus : run[c] # NoSlot => Live(run[c])
  /\ \A c, d \in Cpus : run[c] = run[d] /\ run[c] # NoSlot => c = d

\* ptable.lock is handed over between sched(), the scheduler and the process
\* it resumes without a gap, and with none left over: sched's first panic.
SchedHoldsLock ==
  \A c \in Cpus :
    lock = c <=> \/ mode[c] \in {"scan", "switch"}
                 \/ mode[c] = "run" /\ pc[run[c]] = "waiting"

\* exit() leaves no orphan: somebody who can call wait() owns every process.
NoOrphans ==
  \A s \in Slots \ {init} : Live(s) =>
    /\ parent[s] # NoSlot
    /\ Live(parent[s]) /\ state[parent[s]] # "ZOMBIE"

\* wait() does not sleep through the exit of a child, its own or an adopted
\* one, nor through a kill.
WaiterSeesZombie ==
  \A p \in Slots :
    state[p] = "SLEEPING" /\ chan[p] = p => Zombies(p) = {} /\ ~killed[p]

\* kill(pid): "Kill the process with the given pid", and no other.
KilledOnRequest == \A s \in Slots : Live(s) /\ killed[s] => pid[s] \in asked

\* The scheduler overlooks nobody, and an idle CPU does not halt for good.
RunnableRuns == \A s \in Slots : state[s] = "RUNNABLE" ~> state[s] = "RUNNING"

\* A process condemned in user space dies.
KilledDies == \A s \in Slots :
                (killed[s] /\ pc[s] = "user" /\ state[s] = "RUNNING") ~> state[s] = "ZOMBIE"

\* init frees the zombies it inherits.
OrphanReaped == \A s \in Slots :
                  (state[s] = "ZOMBIE" /\ parent[s] = init) ~> state[s] = "UNUSED"
=============================================================================
