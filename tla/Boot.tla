-------------------------------- MODULE Boot --------------------------------
(***************************************************************************)
(* From main() of the first CPU to the schedulers of all: the CPUs of the  *)
(* configuration table are started one at a time with a stack and a page   *)
(* table left in low memory, while the page allocator still runs without   *)
(* its lock.  A CPU is named by its APIC id.                               *)
(***************************************************************************)
EXTENDS Integers, FiniteSets, Sequences, SequencesExt

CONSTANTS
  Apics,     \* the ids of the machine's CPUs
  NCPU,
  Low, High, \* the numbers of pages below 4 MB and above
  NPROC      \* bound on the processes that can run

None == 0
LowPages == 1..Low
Pages == 1..(Low + High)

VARIABLES
  cpus,   \* cpus[0..ncpu-1].apicid, as a sequence
  boot,   \* the CPU the machine starts on
  kmem,   \* use_lock, the holder of the lock and the head of the free list
  next,   \* the link in each page
  pc,     \* where each CPU is
  r,      \* its page in kalloc or kfree, and what it has read of the list
  stack,  \* the page of its stack, None on the one of entry.S
  pgdir,  \* the page table it runs on: "none", "entrypgdir" or "kpgdir"
  used,   \* what each page is used for
  code,   \* the stack that the start-up code will take
  started,
  i,      \* the loops of main: CPUs and pages done
  runnable

vars == <<cpus, boot, kmem, next, pc, r, stack, pgdir, used, code, started, i, runnable>>

NoPage == [page |-> None, head |-> None]

\* mpinit: the entries of the table for processors, the first NCPU of them.
mpinit(table) == SubSeq(table, 1, IF Len(table) < NCPU THEN Len(table) ELSE NCPU)

Orders == {t \in [1..Cardinality(Apics) -> Apics] : Range(t) = Apics}

\* The first CPU is anywhere in the table, but among those that are used.
Init ==
  /\ \E table \in Orders : cpus = mpinit(table)
  /\ boot \in Range(cpus)
  /\ kmem = [use_lock |-> FALSE, lock |-> None, freelist |-> None]
  /\ next = [p \in Pages |-> None]
  /\ pc = [c \in Apics |-> IF c = boot THEN "kinit1" ELSE "halted"]
  /\ r = [c \in Apics |-> NoPage]
  /\ stack = [c \in Apics |-> None]
  /\ pgdir = [c \in Apics |-> IF c = boot THEN "entrypgdir" ELSE "none"]
  /\ used = [p \in Pages |-> "free"] /\ code = None /\ started = {} /\ i = 0 /\ runnable = 0

Idle == UNCHANGED <<cpus, boot>>
Goto(c, to) == pc' = [pc EXCEPT ![c] = to]

-----------------------------------------------------------------------------
(***************************************************************************)
(* kalloc and kfree, from the read of the list to the write of its head.   *)
(***************************************************************************)
CanEnter(c) == kmem.use_lock => kmem.lock = None

\* The first half of kalloc: the lock, if it is used, and the head.  No
\* caller looks at a result of 0, so that memory must suffice.
Kalloc(c, from, to) ==
  /\ pc[c] = from /\ CanEnter(c) /\ kmem.freelist # None
  /\ r' = [r EXCEPT ![c] = [page |-> kmem.freelist, head |-> next[kmem.freelist]]]
  /\ kmem' = IF kmem.use_lock THEN [kmem EXCEPT !.lock = c] ELSE kmem
  /\ Goto(c, to)
  /\ UNCHANGED <<next, stack, pgdir, used, code, started, i, runnable>> /\ Idle

\* The second half; what the caller does with the page comes with it.
Allocated(c, use) ==
  /\ kmem' = [kmem EXCEPT !.freelist = r[c].head, !.lock = IF kmem.use_lock THEN None ELSE @]
  /\ used' = [used EXCEPT ![r[c].page] = use]
  /\ r' = [r EXCEPT ![c] = NoPage]
  /\ UNCHANGED next

\* kfree: the page is linked to the head that was read, then becomes it.
Kfree(c, from, page, to) ==
  /\ pc[c] = from /\ CanEnter(c)
  /\ r' = [r EXCEPT ![c] = [page |-> page, head |-> kmem.freelist]]
  /\ next' = [next EXCEPT ![page] = kmem.freelist]
  /\ kmem' = IF kmem.use_lock THEN [kmem EXCEPT !.lock = c] ELSE kmem
  /\ used' = [used EXCEPT ![page] = "free"]
  /\ Goto(c, to)
  /\ UNCHANGED <<stack, pgdir, code, started, runnable>> /\ Idle

Freed(c) ==
  /\ kmem' = [kmem EXCEPT !.freelist = r[c].page, !.lock = IF kmem.use_lock THEN None ELSE @]
  /\ r' = [r EXCEPT ![c] = NoPage]
  /\ UNCHANGED <<next, used>>

-----------------------------------------------------------------------------
(***************************************************************************)
(* main on the first CPU.                                                  *)
(***************************************************************************)
\* freerange over the pages from..to, i of which are done.
Freerange(at, link, from, to, done) ==
  \/ /\ pc[boot] = at /\ from + i <= to
     /\ Kfree(boot, at, from + i, link) /\ i' = i + 1
  \/ /\ pc[boot] = link
     /\ Freed(boot) /\ Goto(boot, at)
     /\ UNCHANGED <<stack, pgdir, code, started, i, runnable>> /\ Idle
  \/ /\ pc[boot] = at /\ from + i > to
     /\ done /\ i' = 0
     /\ UNCHANGED <<next, r, stack, pgdir, used, code, started, runnable>> /\ Idle

Kinit1 == Freerange("kinit1", "kinit1+", 1, Low, Goto(boot, "kvmalloc") /\ UNCHANGED kmem)

\* setupkvm, and on to the new page table.
Kvmalloc ==
  \/ Kalloc(boot, "kvmalloc", "kvmalloc+")
  \/ /\ pc[boot] = "kvmalloc+" /\ Allocated(boot, "kernel")
     /\ pgdir' = [pgdir EXCEPT ![boot] = "kpgdir"]
     /\ Goto(boot, "startothers")
     /\ UNCHANGED <<stack, code, started, i, runnable>> /\ Idle

\* startothers: for the CPUs of the table but the own, a stack, the start
\* interrupt, and the wait for `started`.
Skip == i < Len(cpus) /\ cpus[i + 1] = boot
Startothers ==
  \/ ~Skip /\ i < Len(cpus) /\ Kalloc(boot, "startothers", "startothers+")
  \/ /\ pc[boot] = "startothers+" /\ Allocated(boot, "stack")
     /\ code' = r[boot].page
     /\ Goto(boot, "lapicstartap")
     /\ UNCHANGED <<stack, pgdir, started, i, runnable>> /\ Idle
  \/ /\ pc[boot] = "startothers" /\ Skip /\ i' = i + 1
     /\ UNCHANGED <<kmem, next, pc, r, stack, pgdir, used, code, started, runnable>> /\ Idle
  \/ /\ pc[boot] = "startothers" /\ i = Len(cpus)
     /\ i' = 0 /\ Goto(boot, "kinit2")
     /\ UNCHANGED <<kmem, next, r, stack, pgdir, used, code, started, runnable>> /\ Idle

\* INIT and the first STARTUP set the halted CPU going; the second STARTUP
\* finds it running and is ignored.
lapicstartap ==
  /\ pc[boot] = "lapicstartap"
  /\ pc' = [pc EXCEPT ![boot] = "wait", ![cpus[i + 1]] = IF @ = "halted" THEN "entryother" ELSE @]
  /\ UNCHANGED <<kmem, next, r, stack, pgdir, used, code, started, i, runnable>> /\ Idle

AwaitStarted_wrong ==
  /\ pc[boot] = "wait"
  /\ i' = i + 1 /\ Goto(boot, "startothers")
  /\ UNCHANGED <<kmem, next, r, stack, pgdir, used, code, started, runnable>> /\ Idle
AwaitStarted ==
  /\ pc[boot] = "wait" /\ cpus[i + 1] \in started
  /\ i' = i + 1 /\ Goto(boot, "startothers")
  /\ UNCHANGED <<kmem, next, r, stack, pgdir, used, code, started, runnable>> /\ Idle

Kinit2 == Freerange("kinit2", "kinit2+", Low + 1, Low + High,
                    Goto(boot, "userinit") /\ kmem' = [kmem EXCEPT !.use_lock = TRUE])

\* The first process takes memory and may run from then on.
Userinit ==
  \/ Kalloc(boot, "userinit", "userinit+")
  \/ /\ pc[boot] = "userinit+" /\ Allocated(boot, "process")
     /\ runnable' = 1 /\ Goto(boot, "mpmain")
     /\ UNCHANGED <<stack, pgdir, code, started, i>> /\ Idle

-----------------------------------------------------------------------------
(***************************************************************************)
(* The other CPUs, and all of them in their schedulers.                    *)
(***************************************************************************)
\* entryother.S: the page table, then the stack, both as they are found.
Entryother(c) ==
  \/ /\ pc[c] = "entryother"
     /\ pgdir' = [pgdir EXCEPT ![c] = "entrypgdir"] /\ Goto(c, "entryother+")
     /\ UNCHANGED <<kmem, next, r, stack, used, code, started, i, runnable>> /\ Idle
  \/ /\ pc[c] = "entryother+"
     /\ stack' = [stack EXCEPT ![c] = code] /\ Goto(c, "mpenter")
     /\ UNCHANGED <<kmem, next, r, pgdir, used, code, started, i, runnable>> /\ Idle

Mpenter(c) ==
  /\ pc[c] = "mpenter"
  /\ pgdir' = [pgdir EXCEPT ![c] = "kpgdir"] /\ Goto(c, "mpmain")
  /\ UNCHANGED <<kmem, next, r, stack, used, code, started, i, runnable>> /\ Idle

Mpmain(c) ==
  /\ pc[c] = "mpmain"
  /\ started' = started \cup {c} /\ Goto(c, "scheduler")
  /\ UNCHANGED <<kmem, next, r, stack, pgdir, used, code, i, runnable>> /\ Idle

\* A process gets a CPU and gives it up again.
Scheduler(c) ==
  /\ \/ pc[c] = "scheduler" /\ runnable > 0 /\ runnable' = runnable - 1 /\ Goto(c, "process")
     \/ pc[c] = "process" /\ runnable' = runnable + 1 /\ Goto(c, "scheduler")
  /\ UNCHANGED <<kmem, next, r, stack, pgdir, used, code, started, i>> /\ Idle

\* A process forks, which takes memory, or gives memory back.
Running == {c \in Apics : pc[c] \in {"process", "fork", "free"}}
Process(c) ==
  \/ runnable + Cardinality(Running) < NPROC /\ Kalloc(c, "process", "fork")
  \/ /\ pc[c] = "fork" /\ Allocated(c, "process")
     /\ runnable' = runnable + 1 /\ Goto(c, "process")
     /\ UNCHANGED <<stack, pgdir, code, started, i>> /\ Idle
  \/ \E page \in {p \in Pages : used[p] = "process"} :
       Kfree(c, "process", page, "free") /\ UNCHANGED i
  \/ /\ pc[c] = "free" /\ Freed(c) /\ Goto(c, "process")
     /\ UNCHANGED <<stack, pgdir, code, started, i, runnable>> /\ Idle

Next ==
  \/ Kinit1 \/ Kvmalloc \/ Startothers \/ lapicstartap \/ AwaitStarted \/ Kinit2 \/ Userinit
  \/ \E c \in Apics : Entryother(c) \/ Mpenter(c) \/ Mpmain(c) \/ Scheduler(c) \/ Process(c)

Spec == Init /\ [][Next]_vars

-----------------------------------------------------------------------------

\* No two CPUs stand on one stack, though all find it at the same address
\* of low memory; a CPU that still runs on the page table of the boot uses
\* no page above 4 MB, which that does not map; and a page that kalloc is
\* about to give away is free and in nobody else's hands, though the first
\* CPU fills the list without the lock while the others are up already.
CpusKeepApart ==
  /\ \A c, d \in Apics : stack[c] # None => used[stack[c]] = "stack" /\ (stack[c] = stack[d] => c = d)
  /\ \A c \in Apics : pgdir[c] = "entrypgdir" => {stack[c], r[c].page} \subseteq LowPages \cup {None}
  /\ \A c \in Apics : r[c].page # None =>
       used[r[c].page] = "free" /\ \A d \in Apics : r[d].page = r[c].page => c = d
=============================================================================
