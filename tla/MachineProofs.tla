---------------------------- MODULE MachineProofs ----------------------------
(***************************************************************************)
(* Proofs about two parts of Machine.  The start of the CPUs (Boot): they  *)
(* share no page and no stack.  The memory (Memory): a page has one use,   *)
(* no step but a fork that fails loses one, and the page tables implement  *)
(* memories that no other process can reach.                               *)
(***************************************************************************)
EXTENDS Machine, FiniteSetTheorems, SequenceTheorems, WellFoundedInduction, TLAPS

\* Where main() is before the lock is used, and before a process can run.
Alone == {"kinit1", "kinit1+", "kvmalloc", "kvmalloc+", "startothers", "startothers+",
          "lapicstartap", "wait", "kinit2", "kinit2+"}
Early == Alone \cup {"userinit", "userinit+"}
Allocating == {"kvmalloc+", "startothers+", "userinit+", "fork"}
Freeing == {"kinit1+", "kinit2+", "free"}
InScheduler == {"scheduler", "process", "fork", "free"}

BootTypeOK ==
  /\ cpus \in Seq(Apics) /\ boot \in Apics
  /\ kmem \in [use_lock : BOOLEAN, lock : Apics \cup {Boot!None}, freelist : Boot!Pages \cup {Boot!None}]
  /\ next \in [Boot!Pages -> Boot!Pages \cup {Boot!None}]
  /\ bpc \in [Apics -> Early \cup InScheduler \cup {"halted", "entryother", "entryother+", "mpenter", "mpmain"}]
  /\ br \in [Apics -> [page : Boot!Pages \cup {Boot!None}, head : Boot!Pages \cup {Boot!None}]]
  /\ bstack \in [Apics -> Boot!Pages \cup {Boot!None}]
  /\ pgdir \in [Apics -> {"none", "entrypgdir", "kpgdir"}]
  /\ used \in [Boot!Pages -> {"free", "kernel", "stack", "process"}]
  /\ code \in Boot!Pages \cup {Boot!None}
  /\ started \subseteq Apics /\ i \in Nat /\ runnable \in Int

\* main() runs on the first CPU, and no process before its end.
MainIsFirst ==
  /\ \A c \in Apics : bpc[c] \in Early => c = boot
  /\ bpc[boot] \notin {"halted", "entryother", "entryother+", "mpenter"}
  /\ bpc[boot] \in Early => runnable = 0 /\ \A c \in Apics : bpc[c] \notin {"process", "fork", "free"}
  /\ bpc[boot] \in {"kinit1", "kinit1+"} => i <= Low
  /\ bpc[boot] \in {"kvmalloc", "kvmalloc+"} => i = 0
  /\ bpc[boot] \in {"kinit2", "kinit2+"} => i <= High
  /\ bpc[boot] \in {"startothers", "startothers+"} => i <= Len(cpus)
  /\ bpc[boot] \in {"startothers+", "lapicstartap", "wait"} => i < Len(cpus) /\ cpus[i + 1] # boot
  /\ \A c \in started : bpc[c] \in InScheduler

\* At most one CPU is inside kalloc or kfree: the first one as long as the lock is
\* not used, and then the one that holds it.
ListIsHeld ==
  /\ kmem.use_lock <=> bpc[boot] \notin Alone
  /\ \A c \in Apics : br[c].page # Boot!None <=> bpc[c] \in Allocating \cup Freeing
  /\ \A c \in Apics : br[c].page # Boot!None => IF kmem.use_lock THEN kmem.lock = c ELSE c = boot
  /\ ~kmem.use_lock => kmem.lock = Boot!None
  /\ kmem.lock # Boot!None => br[kmem.lock].page # Boot!None

\* The pages given to the allocator so far are 1..Given.
Given == IF bpc[boot] \in {"kinit1", "kinit1+"} THEN i
         ELSE IF bpc[boot] \in {"kinit2", "kinit2+"} THEN Low + i
         ELSE IF bpc[boot] \in Alone THEN Low
         ELSE Low + High

\* The pages that the free list may have: those given and free, but for the one a kfree has
\* in its hands.
Listed == {p \in Boot!Pages :
             /\ used[p] = "free" /\ p <= Given
             /\ \A c \in Apics : br[c].page = p => bpc[c] \notin Freeing}

\* The free list: no page is in it twice.
ListIsSound ==
  /\ kmem.freelist \in Listed \cup {Boot!None}
  /\ \A p \in Listed : next[p] \in Listed \cup {Boot!None}
  /\ \A p \in Listed : next[p] # Boot!None =>
       next[p] # kmem.freelist /\ \A q \in Listed : next[q] = next[p] => q = p
  /\ \A p \in Boot!Pages : p > Given => used[p] = "free"

\* What a CPU inside kalloc or kfree has in its hands.
HandsFollow ==
  \A c \in Apics :
    /\ br[c].page # Boot!None => used[br[c].page] = "free" /\ br[c].page <= Given
    /\ bpc[c] \in Allocating => br[c].page = kmem.freelist /\ br[c].head = next[br[c].page]
    /\ bpc[c] \in Freeing => next[br[c].page] = kmem.freelist

\* The stack at the mailbox is the one of the CPU being started, and of no other.
StacksFollow ==
  /\ \A c \in Apics : bstack[c] # Boot!None => used[bstack[c]] = "stack" /\ bstack[c] <= Low
  /\ \A c, d \in Apics : bstack[c] # Boot!None /\ bstack[c] = bstack[d] => c = d
  /\ \A c \in Apics : bpc[c] \in {"entryother", "entryother+"} =>
       bpc[boot] = "wait" /\ c = cpus[i + 1]
  /\ bpc[boot] \in {"lapicstartap", "wait"} =>
       code # Boot!None /\ used[code] = "stack" /\ code <= Low
  /\ \A c \in Apics : bpc[boot] = "lapicstartap" \/ bpc[c] \in {"entryother", "entryother+"} =>
       \A d \in Apics : bstack[d] # code
  /\ \A c \in Apics : bpc[c] \in {"halted", "entryother", "entryother+"} => bstack[c] = Boot!None

\* A CPU leaves the page table of the boot before it can see a page above 4 MB.
TablesFollow ==
  /\ pgdir[boot] = "entrypgdir" <=> bpc[boot] \in {"kinit1", "kinit1+", "kvmalloc", "kvmalloc+"}
  /\ \A c \in Apics : pgdir[c] = "entrypgdir" =>
       c = boot \/ bpc[c] \in {"entryother+", "mpenter"}

BootInv == BootTypeOK /\ MainIsFirst /\ ListIsHeld /\ ListIsSound /\ HandsFollow /\ StacksFollow /\ TablesFollow
LEMMA BootTypes == BootInv /\ [Boot!Next]_(Boot!vars) => BootTypeOK'
<1> SUFFICES ASSUME BootInv, [Boot!Next]_(Boot!vars) PROVE BootTypeOK'
  OBVIOUS
<1> USE DEF BootTypeOK, MainIsFirst, ListIsHeld, Alone, Early, Allocating, Freeing, InScheduler, Boot!Goto,
     Boot!Idle, Boot!CanEnter, Boot!NoPage, Boot!Pages, Boot!LowPages
<1>a. BootTypeOK /\ MainIsFirst /\ ListIsHeld /\ HandsFollow
  BY DEF BootInv
<1>1. CASE Boot!Kinit1
  <2>1. CASE bpc[boot] = "kinit1" /\ 1 + i <= Low /\ Boot!Kfree(boot, "kinit1", 1 + i, "kinit1+") /\ i' = i + 1
    BY <1>a, <2>1, BootAssumption DEF Boot!Kfree
  <2>2. CASE bpc[boot] = "kinit1+" /\ Boot!Freed(boot) /\ Boot!Goto(boot, "kinit1") /\ Boot!Idle
             /\ UNCHANGED <<bstack, pgdir, code, started, i, runnable>>
    BY <1>a, <2>2, BootAssumption DEF Boot!Freed
  <2>3. CASE bpc[boot] = "kinit1" /\ 1 + i > Low /\ Boot!Goto(boot, "kvmalloc") /\ UNCHANGED kmem /\ i' = 0 /\ Boot!Idle
             /\ UNCHANGED <<next, br, bstack, pgdir, used, code, started, runnable>>
    BY <1>a, <2>3, BootAssumption
  <2>q. QED
    BY <1>1, <2>1, <2>2, <2>3 DEF Boot!Kinit1, Boot!Freerange
<1>2. CASE Boot!Kvmalloc
  <2>1. CASE Boot!Kalloc(boot, "kvmalloc", "kvmalloc+")
    BY <1>a, <2>1, BootAssumption DEF Boot!Kalloc
  <2>2. CASE bpc[boot] = "kvmalloc+" /\ Boot!Allocated(boot, "kernel")
             /\ pgdir' = [pgdir EXCEPT ![boot] = "kpgdir"] /\ Boot!Goto(boot, "startothers")
             /\ UNCHANGED <<bstack, code, started, i, runnable>> /\ Boot!Idle
    <3>1. kmem' \in [use_lock : BOOLEAN, lock : Apics \cup {Boot!None}, freelist : Boot!Pages \cup {Boot!None}]
      BY <1>a, <2>2 DEF Boot!Allocated
    <3>2. /\ br' \in [Apics -> [page : Boot!Pages \cup {Boot!None}, head : Boot!Pages \cup {Boot!None}]]
          /\ used' \in [Boot!Pages -> {"free", "kernel", "stack", "process"}]
      BY <1>a, <2>2 DEF Boot!Allocated
    <3>q. QED
      BY <1>a, <2>2, <3>1, <3>2 DEF Boot!Allocated
  <2>q. QED
    BY <1>2, <2>1, <2>2 DEF Boot!Kvmalloc
<1>3. CASE Boot!Startothers
  <2>1. CASE ~Boot!Skip /\ i < Len(cpus) /\ Boot!Kalloc(boot, "startothers", "startothers+")
    BY <1>a, <2>1, BootAssumption DEF Boot!Skip, Boot!Kalloc
  <2>2. CASE bpc[boot] = "startothers+" /\ Boot!Allocated(boot, "stack") /\ code' = br[boot].page
             /\ Boot!Goto(boot, "lapicstartap") /\ UNCHANGED <<bstack, pgdir, started, i, runnable>> /\ Boot!Idle
    <3>1. kmem' \in [use_lock : BOOLEAN, lock : Apics \cup {Boot!None}, freelist : Boot!Pages \cup {Boot!None}]
      BY <1>a, <2>2 DEF Boot!Allocated
    <3>2. /\ br' \in [Apics -> [page : Boot!Pages \cup {Boot!None}, head : Boot!Pages \cup {Boot!None}]]
          /\ used' \in [Boot!Pages -> {"free", "kernel", "stack", "process"}]
      BY <1>a, <2>2 DEF Boot!Allocated
    <3>q. QED
      BY <1>a, <2>2, <3>1, <3>2 DEF Boot!Allocated
  <2>3. CASE bpc[boot] = "startothers" /\ Boot!Skip /\ i' = i + 1
             /\ UNCHANGED <<kmem, next, bpc, br, bstack, pgdir, used, code, started, runnable>> /\ Boot!Idle
    BY <1>a, <2>3, BootAssumption DEF Boot!Skip
  <2>4. CASE bpc[boot] = "startothers" /\ i = Len(cpus) /\ i' = 0 /\ Boot!Goto(boot, "kinit2")
             /\ UNCHANGED <<kmem, next, br, bstack, pgdir, used, code, started, runnable>> /\ Boot!Idle
    BY <1>a, <2>4, BootAssumption
  <2>q. QED
    BY <1>3, <2>1, <2>2, <2>3, <2>4 DEF Boot!Startothers
<1>4. CASE Boot!lapicstartap
  BY <1>a, <1>4, BootAssumption DEF Boot!lapicstartap
<1>5. CASE Boot!AwaitStarted
  BY <1>a, <1>5, BootAssumption DEF Boot!AwaitStarted
<1>6. CASE Boot!Kinit2
  <2>1. CASE bpc[boot] = "kinit2" /\ Low + 1 + i <= Low + High /\ Boot!Kfree(boot, "kinit2", Low + 1 + i, "kinit2+") /\ i' = i + 1
    BY <1>a, <2>1, BootAssumption DEF Boot!Kfree
  <2>2. CASE bpc[boot] = "kinit2+" /\ Boot!Freed(boot) /\ Boot!Goto(boot, "kinit2") /\ Boot!Idle
             /\ UNCHANGED <<bstack, pgdir, code, started, i, runnable>>
    BY <1>a, <2>2, BootAssumption DEF Boot!Freed
  <2>3. CASE bpc[boot] = "kinit2" /\ Low + 1 + i > Low + High /\ Boot!Goto(boot, "userinit") /\ kmem' = [kmem EXCEPT !.use_lock = TRUE] /\ i' = 0 /\ Boot!Idle
             /\ UNCHANGED <<next, br, bstack, pgdir, used, code, started, runnable>>
    BY <1>a, <2>3, BootAssumption
  <2>q. QED
    BY <1>6, <2>1, <2>2, <2>3 DEF Boot!Kinit2, Boot!Freerange
<1>7. CASE Boot!Userinit
  <2>1. CASE Boot!Kalloc(boot, "userinit", "userinit+")
    BY <1>a, <2>1, BootAssumption DEF Boot!Kalloc
  <2>2. CASE bpc[boot] = "userinit+" /\ Boot!Allocated(boot, "process") /\ runnable' = 1
             /\ Boot!Goto(boot, "mpmain") /\ UNCHANGED <<bstack, pgdir, code, started, i>> /\ Boot!Idle
    <3>1. kmem' \in [use_lock : BOOLEAN, lock : Apics \cup {Boot!None}, freelist : Boot!Pages \cup {Boot!None}]
      BY <1>a, <2>2 DEF Boot!Allocated
    <3>2. /\ br' \in [Apics -> [page : Boot!Pages \cup {Boot!None}, head : Boot!Pages \cup {Boot!None}]]
          /\ used' \in [Boot!Pages -> {"free", "kernel", "stack", "process"}]
      BY <1>a, <2>2 DEF Boot!Allocated
    <3>q. QED
      BY <1>a, <2>2, <3>1, <3>2 DEF Boot!Allocated
  <2>q. QED
    BY <1>7, <2>1, <2>2 DEF Boot!Userinit
<1>8. ASSUME NEW c \in Apics, Boot!Entryother(c) PROVE BootTypeOK'
  <2>1. CASE bpc[c] = "entryother" /\ pgdir' = [pgdir EXCEPT ![c] = "entrypgdir"] /\ Boot!Goto(c, "entryother+")
             /\ UNCHANGED <<kmem, next, br, bstack, used, code, started, i, runnable>> /\ Boot!Idle
    BY <1>a, <2>1, BootAssumption
  <2>2. CASE bpc[c] = "entryother+" /\ bstack' = [bstack EXCEPT ![c] = code] /\ Boot!Goto(c, "mpenter")
             /\ UNCHANGED <<kmem, next, br, pgdir, used, code, started, i, runnable>> /\ Boot!Idle
    BY <1>a, <2>2, BootAssumption
  <2>q. QED
    BY <1>8, <2>1, <2>2 DEF Boot!Entryother
<1>9. ASSUME NEW c \in Apics, Boot!Mpenter(c) PROVE BootTypeOK'
  BY <1>a, <1>9, BootAssumption DEF Boot!Mpenter
<1>10. ASSUME NEW c \in Apics, Boot!Mpmain(c) PROVE BootTypeOK'
  BY <1>a, <1>10, BootAssumption DEF Boot!Mpmain
<1>11. ASSUME NEW c \in Apics, Boot!Scheduler(c) PROVE BootTypeOK'
  <2>1. CASE bpc[c] = "scheduler" /\ runnable > 0 /\ runnable' = runnable - 1 /\ Boot!Goto(c, "process")
             /\ UNCHANGED <<kmem, next, br, bstack, pgdir, used, code, started, i>> /\ Boot!Idle
    BY <1>a, <2>1, BootAssumption
  <2>2. CASE bpc[c] = "process" /\ runnable' = runnable + 1 /\ Boot!Goto(c, "scheduler")
             /\ UNCHANGED <<kmem, next, br, bstack, pgdir, used, code, started, i>> /\ Boot!Idle
    BY <1>a, <2>2, BootAssumption
  <2>q. QED
    BY <1>11, <2>1, <2>2 DEF Boot!Scheduler
<1>12. ASSUME NEW c \in Apics, Boot!Process(c) PROVE BootTypeOK'
  <2>1. CASE runnable + Boot!Cardinality(Boot!Running) < NPROC /\ Boot!Kalloc(c, "process", "fork")
    BY <1>a, <2>1, BootAssumption DEF Boot!Kalloc
  <2>2. CASE bpc[c] = "fork" /\ Boot!Allocated(c, "process") /\ runnable' = runnable + 1
             /\ Boot!Goto(c, "process") /\ UNCHANGED <<bstack, pgdir, code, started, i>> /\ Boot!Idle
    <3>1. kmem' \in [use_lock : BOOLEAN, lock : Apics \cup {Boot!None}, freelist : Boot!Pages \cup {Boot!None}]
      BY <1>a, <2>2 DEF Boot!Allocated
    <3>2. /\ br' \in [Apics -> [page : Boot!Pages \cup {Boot!None}, head : Boot!Pages \cup {Boot!None}]]
          /\ used' \in [Boot!Pages -> {"free", "kernel", "stack", "process"}]
      BY <1>a, <2>2 DEF Boot!Allocated
    <3>q. QED
      BY <1>a, <2>2, <3>1, <3>2 DEF Boot!Allocated
  <2>3. ASSUME NEW page \in Boot!Pages, used[page] = "process", Boot!Kfree(c, "process", page, "free"), UNCHANGED i PROVE BootTypeOK'
    BY <1>a, <2>3, BootAssumption DEF Boot!Kfree
  <2>4. CASE bpc[c] = "free" /\ Boot!Freed(c) /\ Boot!Goto(c, "process")
             /\ UNCHANGED <<bstack, pgdir, code, started, i, runnable>> /\ Boot!Idle
    BY <1>a, <2>4, BootAssumption DEF Boot!Freed
  <2>q. QED
    BY <1>12, <2>1, <2>2, <2>3, <2>4 DEF Boot!Process, Boot!Running
<1>13. CASE UNCHANGED Boot!vars
  BY <1>a, <1>13 DEF Boot!vars
<1>q. QED
  BY <1>1, <1>2, <1>3, <1>4, <1>5, <1>6, <1>7, <1>8, <1>9, <1>10, <1>11, <1>12, <1>13 DEF Boot!Next

LEMMA MainStep == BootInv /\ [Boot!Next]_(Boot!vars) => MainIsFirst'
<1> SUFFICES ASSUME BootInv, [Boot!Next]_(Boot!vars) PROVE MainIsFirst'
  OBVIOUS
<1> USE DEF BootTypeOK, MainIsFirst, Alone, Early, Allocating, Freeing, InScheduler, Boot!Goto, Boot!Idle,
     Boot!CanEnter
<1>a. BootTypeOK /\ MainIsFirst
  BY DEF BootInv
<1>1. CASE Boot!Kinit1
  <2>1. CASE bpc[boot] = "kinit1" /\ 1 + i <= Low /\ Boot!Kfree(boot, "kinit1", 1 + i, "kinit1+") /\ i' = i + 1
    BY <1>a, <2>1, BootAssumption DEF Boot!Kfree
  <2>2. CASE bpc[boot] = "kinit1+" /\ Boot!Freed(boot) /\ Boot!Goto(boot, "kinit1") /\ Boot!Idle
             /\ UNCHANGED <<bstack, pgdir, code, started, i, runnable>>
    BY <1>a, <2>2, BootAssumption DEF Boot!Freed
  <2>3. CASE bpc[boot] = "kinit1" /\ 1 + i > Low /\ Boot!Goto(boot, "kvmalloc") /\ UNCHANGED kmem /\ i' = 0 /\ Boot!Idle
             /\ UNCHANGED <<next, br, bstack, pgdir, used, code, started, runnable>>
    BY <1>a, <2>3, BootAssumption
  <2>q. QED
    BY <1>1, <2>1, <2>2, <2>3 DEF Boot!Kinit1, Boot!Freerange
<1>2. CASE Boot!Kvmalloc
  <2>1. CASE Boot!Kalloc(boot, "kvmalloc", "kvmalloc+")
    BY <1>a, <2>1, BootAssumption DEF Boot!Kalloc
  <2>2. CASE bpc[boot] = "kvmalloc+" /\ Boot!Allocated(boot, "kernel")
             /\ pgdir' = [pgdir EXCEPT ![boot] = "kpgdir"] /\ Boot!Goto(boot, "startothers")
             /\ UNCHANGED <<bstack, code, started, i, runnable>> /\ Boot!Idle
    <3>1. /\ bpc' = [bpc EXCEPT ![boot] = "startothers"] /\ bpc[boot] = "kvmalloc+"
          /\ UNCHANGED <<cpus, boot, started, i, runnable>>
      BY <2>2
    <3>2. i = 0
      BY <1>a, <3>1
    <3>q. QED
      BY <1>a, <3>1, <3>2
  <2>q. QED
    BY <1>2, <2>1, <2>2 DEF Boot!Kvmalloc
<1>3. CASE Boot!Startothers
  <2>1. CASE ~Boot!Skip /\ i < Len(cpus) /\ Boot!Kalloc(boot, "startothers", "startothers+")
    BY <1>a, <2>1, BootAssumption DEF Boot!Skip, Boot!Kalloc
  <2>2. CASE bpc[boot] = "startothers+" /\ Boot!Allocated(boot, "stack") /\ code' = br[boot].page
             /\ Boot!Goto(boot, "lapicstartap") /\ UNCHANGED <<bstack, pgdir, started, i, runnable>> /\ Boot!Idle
    BY <1>a, <2>2, BootAssumption DEF Boot!Allocated
  <2>3. CASE bpc[boot] = "startothers" /\ Boot!Skip /\ i' = i + 1
             /\ UNCHANGED <<kmem, next, bpc, br, bstack, pgdir, used, code, started, runnable>> /\ Boot!Idle
    BY <1>a, <2>3, BootAssumption DEF Boot!Skip
  <2>4. CASE bpc[boot] = "startothers" /\ i = Len(cpus) /\ i' = 0 /\ Boot!Goto(boot, "kinit2")
             /\ UNCHANGED <<kmem, next, br, bstack, pgdir, used, code, started, runnable>> /\ Boot!Idle
    BY <1>a, <2>4, BootAssumption
  <2>q. QED
    BY <1>3, <2>1, <2>2, <2>3, <2>4 DEF Boot!Startothers
<1>4. CASE Boot!lapicstartap
  BY <1>a, <1>4, BootAssumption DEF Boot!lapicstartap
<1>5. CASE Boot!AwaitStarted
  BY <1>a, <1>5, BootAssumption DEF Boot!AwaitStarted
<1>6. CASE Boot!Kinit2
  <2>1. CASE bpc[boot] = "kinit2" /\ Low + 1 + i <= Low + High /\ Boot!Kfree(boot, "kinit2", Low + 1 + i, "kinit2+") /\ i' = i + 1
    BY <1>a, <2>1, BootAssumption DEF Boot!Kfree
  <2>2. CASE bpc[boot] = "kinit2+" /\ Boot!Freed(boot) /\ Boot!Goto(boot, "kinit2") /\ Boot!Idle
             /\ UNCHANGED <<bstack, pgdir, code, started, i, runnable>>
    BY <1>a, <2>2, BootAssumption DEF Boot!Freed
  <2>3. CASE bpc[boot] = "kinit2" /\ Low + 1 + i > Low + High /\ Boot!Goto(boot, "userinit") /\ kmem' = [kmem EXCEPT !.use_lock = TRUE] /\ i' = 0 /\ Boot!Idle
             /\ UNCHANGED <<next, br, bstack, pgdir, used, code, started, runnable>>
    BY <1>a, <2>3, BootAssumption
  <2>q. QED
    BY <1>6, <2>1, <2>2, <2>3 DEF Boot!Kinit2, Boot!Freerange
<1>7. CASE Boot!Userinit
  <2>1. CASE Boot!Kalloc(boot, "userinit", "userinit+")
    BY <1>a, <2>1, BootAssumption DEF Boot!Kalloc
  <2>2. CASE bpc[boot] = "userinit+" /\ Boot!Allocated(boot, "process") /\ runnable' = 1
             /\ Boot!Goto(boot, "mpmain") /\ UNCHANGED <<bstack, pgdir, code, started, i>> /\ Boot!Idle
    BY <1>a, <2>2, BootAssumption DEF Boot!Allocated
  <2>q. QED
    BY <1>7, <2>1, <2>2 DEF Boot!Userinit
<1>8. ASSUME NEW c \in Apics, Boot!Entryother(c) PROVE MainIsFirst'
  <2>1. CASE bpc[c] = "entryother" /\ pgdir' = [pgdir EXCEPT ![c] = "entrypgdir"] /\ Boot!Goto(c, "entryother+")
             /\ UNCHANGED <<kmem, next, br, bstack, used, code, started, i, runnable>> /\ Boot!Idle
    BY <1>a, <2>1, BootAssumption
  <2>2. CASE bpc[c] = "entryother+" /\ bstack' = [bstack EXCEPT ![c] = code] /\ Boot!Goto(c, "mpenter")
             /\ UNCHANGED <<kmem, next, br, pgdir, used, code, started, i, runnable>> /\ Boot!Idle
    BY <1>a, <2>2, BootAssumption
  <2>q. QED
    BY <1>8, <2>1, <2>2 DEF Boot!Entryother
<1>9. ASSUME NEW c \in Apics, Boot!Mpenter(c) PROVE MainIsFirst'
  BY <1>a, <1>9, BootAssumption DEF Boot!Mpenter
<1>10. ASSUME NEW c \in Apics, Boot!Mpmain(c) PROVE MainIsFirst'
  BY <1>a, <1>10, BootAssumption DEF Boot!Mpmain
<1>11. ASSUME NEW c \in Apics, Boot!Scheduler(c) PROVE MainIsFirst'
  <2>1. CASE bpc[c] = "scheduler" /\ runnable > 0 /\ runnable' = runnable - 1 /\ Boot!Goto(c, "process")
             /\ UNCHANGED <<kmem, next, br, bstack, pgdir, used, code, started, i>> /\ Boot!Idle
    BY <1>a, <2>1, BootAssumption
  <2>2. CASE bpc[c] = "process" /\ runnable' = runnable + 1 /\ Boot!Goto(c, "scheduler")
             /\ UNCHANGED <<kmem, next, br, bstack, pgdir, used, code, started, i>> /\ Boot!Idle
    BY <1>a, <2>2, BootAssumption
  <2>q. QED
    BY <1>11, <2>1, <2>2 DEF Boot!Scheduler
<1>12. ASSUME NEW c \in Apics, Boot!Process(c) PROVE MainIsFirst'
  <2>1. CASE runnable + Boot!Cardinality(Boot!Running) < NPROC /\ Boot!Kalloc(c, "process", "fork")
    BY <1>a, <2>1, BootAssumption DEF Boot!Kalloc
  <2>2. CASE bpc[c] = "fork" /\ Boot!Allocated(c, "process") /\ runnable' = runnable + 1
             /\ Boot!Goto(c, "process") /\ UNCHANGED <<bstack, pgdir, code, started, i>> /\ Boot!Idle
    BY <1>a, <2>2, BootAssumption DEF Boot!Allocated
  <2>3. ASSUME NEW page \in Boot!Pages, used[page] = "process", Boot!Kfree(c, "process", page, "free"), UNCHANGED i PROVE MainIsFirst'
    BY <1>a, <2>3, BootAssumption DEF Boot!Kfree
  <2>4. CASE bpc[c] = "free" /\ Boot!Freed(c) /\ Boot!Goto(c, "process")
             /\ UNCHANGED <<bstack, pgdir, code, started, i, runnable>> /\ Boot!Idle
    BY <1>a, <2>4, BootAssumption DEF Boot!Freed
  <2>q. QED
    BY <1>12, <2>1, <2>2, <2>3, <2>4 DEF Boot!Process, Boot!Running
<1>13. CASE UNCHANGED Boot!vars
  BY <1>a, <1>13 DEF Boot!vars
<1>q. QED
  BY <1>1, <1>2, <1>3, <1>4, <1>5, <1>6, <1>7, <1>8, <1>9, <1>10, <1>11, <1>12, <1>13 DEF Boot!Next

LEMMA TwoUpdates ==
  ASSUME NEW f, NEW a \in DOMAIN f, NEW b \in DOMAIN f, a # b, NEW x, NEW y
  PROVE  /\ [f EXCEPT ![a] = x, ![b] = y][a] = x
         /\ [f EXCEPT ![a] = x, ![b] = y][b] = y
         /\ \A d \in DOMAIN f : d # a /\ d # b => [f EXCEPT ![a] = x, ![b] = y][d] = f[d]
  OBVIOUS

LEMMA HeldStep == BootInv /\ [Boot!Next]_(Boot!vars) => ListIsHeld'
<1> SUFFICES ASSUME BootInv, [Boot!Next]_(Boot!vars) PROVE ListIsHeld'
  OBVIOUS
<1> USE DEF BootTypeOK, MainIsFirst, ListIsHeld, Alone, Early, Allocating, Freeing, InScheduler, Boot!Goto,
     Boot!Idle, Boot!CanEnter, Boot!NoPage, Boot!Pages, Boot!None
<1>a. BootTypeOK /\ MainIsFirst /\ ListIsHeld
  BY DEF BootInv
<1>1. CASE Boot!Kinit1
  <2>1. CASE bpc[boot] = "kinit1" /\ 1 + i <= Low /\ Boot!Kfree(boot, "kinit1", 1 + i, "kinit1+") /\ i' = i + 1
    <3>1. (1 + i) \in Boot!Pages /\ (1 + i) # Boot!None
      BY <1>a, <2>1, BootAssumption
    <3>2. /\ br' = [br EXCEPT ![boot] = [page |-> (1 + i), head |-> kmem.freelist]]
          /\ bpc' = [bpc EXCEPT ![boot] = "kinit1+"] /\ boot' = boot /\ boot \in Apics
          /\ kmem' = IF kmem.use_lock THEN [kmem EXCEPT !.lock = boot] ELSE kmem
          /\ (kmem.use_lock => kmem.lock = Boot!None)
      BY <1>a, <2>1 DEF Boot!Kfree
    <3>3. br'[boot].page # Boot!None /\ \A d \in Apics \ {boot} : br'[d] = br[d] /\ bpc'[d] = bpc[d]
      BY <1>a, <3>1, <3>2
    <3>4. kmem'.use_lock = kmem.use_lock /\ kmem'.lock = IF kmem.use_lock THEN boot ELSE kmem.lock
      BY <1>a, <3>2
    <3>5. (kmem'.use_lock <=> bpc'[boot] \notin Alone)
      BY <1>a, <2>1, <3>2, <3>4 DEF Boot!Kfree
    <3>6. \A d \in Apics : br[d].page = Boot!None
      BY <1>a, <2>1, <3>2, BootAssumption, ZenonT(60) DEF Boot!Kfree
    <3>7. \A d \in Apics : br'[d].page # Boot!None <=> bpc'[d] \in Allocating \cup Freeing
      BY <1>a, <2>1, <3>2, <3>3
    <3>8. ~kmem.use_lock => boot = boot /\ kmem.lock = Boot!None
      BY <1>a, <2>1, <3>2 DEF Boot!Kfree
    <3>q. QED
      BY <3>1, <3>2, <3>3, <3>4, <3>5, <3>6, <3>7, <3>8, BootAssumption
  <2>2. CASE bpc[boot] = "kinit1+" /\ Boot!Freed(boot) /\ Boot!Goto(boot, "kinit1") /\ Boot!Idle
             /\ UNCHANGED <<bstack, pgdir, code, started, i, runnable>>
    BY <1>a, <2>2, BootAssumption DEF Boot!Freed
  <2>3. CASE bpc[boot] = "kinit1" /\ 1 + i > Low /\ Boot!Goto(boot, "kvmalloc") /\ UNCHANGED kmem /\ i' = 0 /\ Boot!Idle
             /\ UNCHANGED <<next, br, bstack, pgdir, used, code, started, runnable>>
    BY <1>a, <2>3, BootAssumption
  <2>q. QED
    BY <1>1, <2>1, <2>2, <2>3 DEF Boot!Kinit1, Boot!Freerange
<1>2. CASE Boot!Kvmalloc
  <2>1. CASE Boot!Kalloc(boot, "kvmalloc", "kvmalloc+")
    BY <1>a, <2>1, BootAssumption DEF Boot!Kalloc
  <2>2. CASE bpc[boot] = "kvmalloc+" /\ Boot!Allocated(boot, "kernel")
             /\ pgdir' = [pgdir EXCEPT ![boot] = "kpgdir"] /\ Boot!Goto(boot, "startothers")
             /\ UNCHANGED <<bstack, code, started, i, runnable>> /\ Boot!Idle
    BY <1>a, <2>2, BootAssumption DEF Boot!Allocated
  <2>q. QED
    BY <1>2, <2>1, <2>2 DEF Boot!Kvmalloc
<1>3. CASE Boot!Startothers
  <2>1. CASE ~Boot!Skip /\ i < Len(cpus) /\ Boot!Kalloc(boot, "startothers", "startothers+")
    BY <1>a, <2>1, BootAssumption DEF Boot!Skip, Boot!Kalloc
  <2>2. CASE bpc[boot] = "startothers+" /\ Boot!Allocated(boot, "stack") /\ code' = br[boot].page
             /\ Boot!Goto(boot, "lapicstartap") /\ UNCHANGED <<bstack, pgdir, started, i, runnable>> /\ Boot!Idle
    BY <1>a, <2>2, BootAssumption DEF Boot!Allocated
  <2>3. CASE bpc[boot] = "startothers" /\ Boot!Skip /\ i' = i + 1
             /\ UNCHANGED <<kmem, next, bpc, br, bstack, pgdir, used, code, started, runnable>> /\ Boot!Idle
    BY <1>a, <2>3, BootAssumption DEF Boot!Skip
  <2>4. CASE bpc[boot] = "startothers" /\ i = Len(cpus) /\ i' = 0 /\ Boot!Goto(boot, "kinit2")
             /\ UNCHANGED <<kmem, next, br, bstack, pgdir, used, code, started, runnable>> /\ Boot!Idle
    BY <1>a, <2>4, BootAssumption
  <2>q. QED
    BY <1>3, <2>1, <2>2, <2>3, <2>4 DEF Boot!Startothers
<1>4. CASE Boot!lapicstartap
  <2>1. bpc[boot] = "lapicstartap" /\ kmem' = kmem /\ br' = br /\ boot' = boot
    BY <1>4 DEF Boot!lapicstartap
  <2>2. PICK z \in Apics : z = cpus[i + 1] /\ z # boot
    BY <1>a, <2>1
  <2>3. bpc' = [bpc EXCEPT ![boot] = "wait", ![z] = IF bpc[z] = "halted" THEN "entryother" ELSE bpc[z]]
    BY <1>a, <1>4, <2>2 DEF Boot!lapicstartap
  <2>4. DOMAIN bpc = Apics /\ boot \in Apics
    BY <1>a
  <2>5. /\ bpc'[boot] = "wait"
        /\ bpc'[z] = IF bpc[z] = "halted" THEN "entryother" ELSE bpc[z]
        /\ \A d \in Apics \ {boot, z} : bpc'[d] = bpc[d]
    BY <2>2, <2>3, <2>4, TwoUpdates
  <2>6. \A d \in Apics : bpc'[d] \in Allocating \cup Freeing <=> bpc[d] \in Allocating \cup Freeing
    <3>1. CASE bpc[z] = "halted"
      BY <2>1, <2>5, <3>1
    <3>2. CASE bpc[z] # "halted"
      BY <2>1, <2>5, <3>2
    <3>q. QED
      BY <3>1, <3>2
  <2>7. bpc[boot] \in Alone /\ bpc'[boot] \in Alone
    BY <2>1, <2>5
  <2>q. QED
    BY <1>a, <2>1, <2>6, <2>7
<1>5. CASE Boot!AwaitStarted
  BY <1>a, <1>5, BootAssumption DEF Boot!AwaitStarted
<1>6. CASE Boot!Kinit2
  <2>1. CASE bpc[boot] = "kinit2" /\ Low + 1 + i <= Low + High /\ Boot!Kfree(boot, "kinit2", Low + 1 + i, "kinit2+") /\ i' = i + 1
    <3>1. (Low + 1 + i) \in Boot!Pages /\ (Low + 1 + i) # Boot!None
      BY <1>a, <2>1, BootAssumption
    <3>2. /\ br' = [br EXCEPT ![boot] = [page |-> (Low + 1 + i), head |-> kmem.freelist]]
          /\ bpc' = [bpc EXCEPT ![boot] = "kinit2+"] /\ boot' = boot /\ boot \in Apics
          /\ kmem' = IF kmem.use_lock THEN [kmem EXCEPT !.lock = boot] ELSE kmem
          /\ (kmem.use_lock => kmem.lock = Boot!None)
      BY <1>a, <2>1 DEF Boot!Kfree
    <3>3. br'[boot].page # Boot!None /\ \A d \in Apics \ {boot} : br'[d] = br[d] /\ bpc'[d] = bpc[d]
      BY <1>a, <3>1, <3>2
    <3>4. kmem'.use_lock = kmem.use_lock /\ kmem'.lock = IF kmem.use_lock THEN boot ELSE kmem.lock
      BY <1>a, <3>2
    <3>5. (kmem'.use_lock <=> bpc'[boot] \notin Alone)
      BY <1>a, <2>1, <3>2, <3>4 DEF Boot!Kfree
    <3>6. \A d \in Apics : br[d].page = Boot!None
      BY <1>a, <2>1, <3>2, BootAssumption, ZenonT(60) DEF Boot!Kfree
    <3>7. \A d \in Apics : br'[d].page # Boot!None <=> bpc'[d] \in Allocating \cup Freeing
      BY <1>a, <2>1, <3>2, <3>3
    <3>8. ~kmem.use_lock => boot = boot /\ kmem.lock = Boot!None
      BY <1>a, <2>1, <3>2 DEF Boot!Kfree
    <3>q. QED
      BY <3>1, <3>2, <3>3, <3>4, <3>5, <3>6, <3>7, <3>8, BootAssumption
  <2>2. CASE bpc[boot] = "kinit2+" /\ Boot!Freed(boot) /\ Boot!Goto(boot, "kinit2") /\ Boot!Idle
             /\ UNCHANGED <<bstack, pgdir, code, started, i, runnable>>
    BY <1>a, <2>2, BootAssumption DEF Boot!Freed
  <2>3. CASE bpc[boot] = "kinit2" /\ Low + 1 + i > Low + High /\ Boot!Goto(boot, "userinit") /\ kmem' = [kmem EXCEPT !.use_lock = TRUE] /\ i' = 0 /\ Boot!Idle
             /\ UNCHANGED <<next, br, bstack, pgdir, used, code, started, runnable>>
    BY <1>a, <2>3, BootAssumption
  <2>q. QED
    BY <1>6, <2>1, <2>2, <2>3 DEF Boot!Kinit2, Boot!Freerange
<1>7. CASE Boot!Userinit
  <2>1. CASE Boot!Kalloc(boot, "userinit", "userinit+")
    BY <1>a, <2>1, BootAssumption DEF Boot!Kalloc
  <2>2. CASE bpc[boot] = "userinit+" /\ Boot!Allocated(boot, "process") /\ runnable' = 1
             /\ Boot!Goto(boot, "mpmain") /\ UNCHANGED <<bstack, pgdir, code, started, i>> /\ Boot!Idle
    BY <1>a, <2>2, BootAssumption DEF Boot!Allocated
  <2>q. QED
    BY <1>7, <2>1, <2>2 DEF Boot!Userinit
<1>8. ASSUME NEW c \in Apics, Boot!Entryother(c) PROVE ListIsHeld'
  <2>1. CASE bpc[c] = "entryother" /\ pgdir' = [pgdir EXCEPT ![c] = "entrypgdir"] /\ Boot!Goto(c, "entryother+")
             /\ UNCHANGED <<kmem, next, br, bstack, used, code, started, i, runnable>> /\ Boot!Idle
    BY <1>a, <2>1, BootAssumption
  <2>2. CASE bpc[c] = "entryother+" /\ bstack' = [bstack EXCEPT ![c] = code] /\ Boot!Goto(c, "mpenter")
             /\ UNCHANGED <<kmem, next, br, pgdir, used, code, started, i, runnable>> /\ Boot!Idle
    BY <1>a, <2>2, BootAssumption
  <2>q. QED
    BY <1>8, <2>1, <2>2 DEF Boot!Entryother
<1>9. ASSUME NEW c \in Apics, Boot!Mpenter(c) PROVE ListIsHeld'
  BY <1>a, <1>9, BootAssumption DEF Boot!Mpenter
<1>10. ASSUME NEW c \in Apics, Boot!Mpmain(c) PROVE ListIsHeld'
  BY <1>a, <1>10, BootAssumption DEF Boot!Mpmain
<1>11. ASSUME NEW c \in Apics, Boot!Scheduler(c) PROVE ListIsHeld'
  <2>1. CASE bpc[c] = "scheduler" /\ runnable > 0 /\ runnable' = runnable - 1 /\ Boot!Goto(c, "process")
             /\ UNCHANGED <<kmem, next, br, bstack, pgdir, used, code, started, i>> /\ Boot!Idle
    BY <1>a, <2>1, BootAssumption
  <2>2. CASE bpc[c] = "process" /\ runnable' = runnable + 1 /\ Boot!Goto(c, "scheduler")
             /\ UNCHANGED <<kmem, next, br, bstack, pgdir, used, code, started, i>> /\ Boot!Idle
    BY <1>a, <2>2, BootAssumption
  <2>q. QED
    BY <1>11, <2>1, <2>2 DEF Boot!Scheduler
<1>12. ASSUME NEW c \in Apics, Boot!Process(c) PROVE ListIsHeld'
  <2>1. CASE runnable + Boot!Cardinality(Boot!Running) < NPROC /\ Boot!Kalloc(c, "process", "fork")
    BY <1>a, <2>1, BootAssumption DEF Boot!Kalloc
  <2>2. CASE bpc[c] = "fork" /\ Boot!Allocated(c, "process") /\ runnable' = runnable + 1
             /\ Boot!Goto(c, "process") /\ UNCHANGED <<bstack, pgdir, code, started, i>> /\ Boot!Idle
    BY <1>a, <2>2, BootAssumption DEF Boot!Allocated
  <2>3. ASSUME NEW page \in Boot!Pages, used[page] = "process", Boot!Kfree(c, "process", page, "free"), UNCHANGED i PROVE ListIsHeld'
    <3>1. page \in Boot!Pages /\ page # Boot!None
      BY <1>a, <2>3, BootAssumption
    <3>2. /\ br' = [br EXCEPT ![c] = [page |-> page, head |-> kmem.freelist]]
          /\ bpc' = [bpc EXCEPT ![c] = "free"] /\ boot' = boot /\ c \in Apics
          /\ kmem' = IF kmem.use_lock THEN [kmem EXCEPT !.lock = c] ELSE kmem
          /\ (kmem.use_lock => kmem.lock = Boot!None)
      BY <1>a, <2>3 DEF Boot!Kfree
    <3>3. br'[c].page # Boot!None /\ \A d \in Apics \ {c} : br'[d] = br[d] /\ bpc'[d] = bpc[d]
      BY <1>a, <3>1, <3>2
    <3>4. kmem'.use_lock = kmem.use_lock /\ kmem'.lock = IF kmem.use_lock THEN c ELSE kmem.lock
      BY <1>a, <3>2
    <3>5. (kmem'.use_lock <=> bpc'[boot] \notin Alone)
      BY <1>a, <2>3, <3>2, <3>4 DEF Boot!Kfree
    <3>6. \A d \in Apics : br[d].page = Boot!None
      BY <1>a, <2>3, <3>2, BootAssumption DEF Boot!Kfree
    <3>7. \A d \in Apics : br'[d].page # Boot!None <=> bpc'[d] \in Allocating \cup Freeing
      BY <1>a, <2>3, <3>2, <3>3
    <3>8. ~kmem.use_lock => c = boot /\ kmem.lock = Boot!None
      BY <1>a, <2>3, <3>2 DEF Boot!Kfree
    <3>q. QED
      BY <3>1, <3>2, <3>3, <3>4, <3>5, <3>6, <3>7, <3>8, BootAssumption
  <2>4. CASE bpc[c] = "free" /\ Boot!Freed(c) /\ Boot!Goto(c, "process")
             /\ UNCHANGED <<bstack, pgdir, code, started, i, runnable>> /\ Boot!Idle
    BY <1>a, <2>4, BootAssumption DEF Boot!Freed
  <2>q. QED
    BY <1>12, <2>1, <2>2, <2>3, <2>4 DEF Boot!Process, Boot!Running
<1>13. CASE UNCHANGED Boot!vars
  BY <1>a, <1>13 DEF Boot!vars
<1>q. QED
  BY <1>1, <1>2, <1>3, <1>4, <1>5, <1>6, <1>7, <1>8, <1>9, <1>10, <1>11, <1>12, <1>13 DEF Boot!Next

LEMMA NoneIsNoPage == Boot!None \notin Boot!Pages
  BY BootAssumption DEF Boot!None, Boot!Pages

\* The free list of a step that neither frees nor takes a page.
LEMMA ListKept ==
  ASSUME BootTypeOK, ListIsSound, Given' = Given, UNCHANGED <<next, used>>,
         kmem'.freelist = kmem.freelist,
         \A c \in Apics : bpc'[c] \in Freeing <=> bpc[c] \in Freeing,
         \A c \in Apics : bpc[c] \in Freeing => br'[c] = br[c]
  PROVE  ListIsSound'
<1>1. Listed' = Listed
  BY DEF Listed
<1>q. QED
  BY <1>1 DEF ListIsSound

\* kalloc takes the first page off the list.
LEMMA ListPops ==
  ASSUME BootTypeOK, ListIsSound, NEW use \in {"kernel", "stack", "process"},
         NEW f \in Listed, f = kmem.freelist, kmem'.freelist = next[f],
         next' = next, used' = [used EXCEPT ![f] = use], Given' = Given,
         \A c \in Apics : bpc'[c] \in Freeing <=> bpc[c] \in Freeing,
         \A c \in Apics : bpc[c] \in Freeing => br'[c] = br[c],
         Boot!None \notin Boot!Pages, Given \in Nat
  PROVE  ListIsSound'
<1>1. Listed' = Listed \ {f} /\ f \in Boot!Pages /\ f <= Given
  BY DEF Listed, BootTypeOK
<1>2. next[f] \in Listed' \cup {Boot!None}
  BY <1>1 DEF ListIsSound
<1>3. \A p \in Listed' : next[p] \in Listed' \cup {Boot!None}
  BY <1>1 DEF ListIsSound
<1>4. \A p \in Listed' : next[p] # Boot!None => next[p] # next[f] /\ \A q \in Listed' : next[q] = next[p] => q = p
  BY <1>1 DEF ListIsSound
<1>5. \A p \in Boot!Pages : p > Given => used'[p] = "free"
  BY <1>1 DEF ListIsSound, BootTypeOK, Boot!Pages
<1>q. QED
  BY <1>2, <1>3, <1>4, <1>5 DEF ListIsSound

\* kfree links a page that is not in the list to the head of the list.
LEMMA ListLinks ==
  ASSUME BootTypeOK, ListIsSound, NEW page \in Boot!Pages \ Listed,
         next' = [next EXCEPT ![page] = kmem.freelist], kmem'.freelist = kmem.freelist,
         Listed' = Listed,
         \A p \in Boot!Pages : p > Given' => used'[p] = "free"
  PROVE  ListIsSound'
<1>1. \A p \in Listed : next'[p] = next[p]
  BY DEF BootTypeOK, Listed
<1>q. QED
  BY <1>1 DEF ListIsSound

\* The second half of kfree makes that page the head of the list.
LEMMA ListPushes ==
  ASSUME BootTypeOK, ListIsSound, NEW page \in Boot!Pages \ Listed, page # Boot!None,
         next[page] = kmem.freelist, kmem'.freelist = page,
         UNCHANGED <<next, used>>, Given' = Given,
         Listed' = Listed \cup {page}
  PROVE  ListIsSound'
  BY DEF ListIsSound

LEMMA ListStep == BootInv /\ [Boot!Next]_(Boot!vars) => ListIsSound'
<1> SUFFICES ASSUME BootInv, [Boot!Next]_(Boot!vars) PROVE ListIsSound'
  OBVIOUS
<1> USE DEF Boot!CanEnter
<1>a. BootTypeOK /\ MainIsFirst /\ ListIsHeld /\ ListIsSound /\ HandsFollow
  BY DEF BootInv
<1>1. CASE Boot!Kinit1
  <2>1. CASE bpc[boot] = "kinit1" /\ 1 + i <= Low /\ Boot!Kfree(boot, "kinit1", 1 + i, "kinit1+") /\ i' = i + 1
    <3>1. /\ (1 + i) \in Boot!Pages \ Listed /\ boot \in Apics /\ bpc[boot] \notin Freeing
          /\ used[(1 + i)] = "free" => (1 + i) = Given + 1
       BY <1>a, <2>1, BootAssumption DEF Boot!Kfree, ListIsSound, MainIsFirst, BootTypeOK, Listed, Given,
           Boot!Goto, Boot!Idle, Alone, Freeing, Allocating, Early, Boot!Pages
    <3>2. /\ bpc' = [bpc EXCEPT ![boot] = "kinit1+"] /\ boot' = boot
          /\ br' = [br EXCEPT ![boot] = [page |-> (1 + i), head |-> kmem.freelist]]
          /\ next' = [next EXCEPT ![(1 + i)] = kmem.freelist]
          /\ used' = [used EXCEPT ![(1 + i)] = "free"]
          /\ kmem'.freelist = kmem.freelist
      BY <1>a, <2>1 DEF Boot!Kfree, Boot!Goto, Boot!Idle, BootTypeOK
    <3>3. Given \in Nat /\ Given' = Given + 1 /\ (1 + i) = Given + 1
       BY <1>a, <2>1, BootAssumption DEF Boot!Kfree, MainIsFirst, BootTypeOK, Given, Boot!Goto, Boot!Idle,
           Alone, Freeing, Allocating, Early
    <3>4. ASSUME NEW p \in Boot!Pages PROVE p \in Listed' <=> p \in Listed
      <4>1. CASE p = (1 + i)
        BY <1>a, <3>1, <3>2, <4>1 DEF Listed, BootTypeOK, Freeing
      <4>2. CASE p # (1 + i)
        <5>1. used'[p] = used[p] /\ (p <= Given' <=> p <= Given)
          <6>1. used'[p] = used[p]
            BY <1>a, <3>2, <4>2 DEF BootTypeOK
          <6>2. p \in Int
            BY BootAssumption DEF Boot!Pages
          <6>q. QED
            BY <3>3, <4>2, <6>1, <6>2
        <5>2. (\A d \in Apics : br'[d].page = p => bpc'[d] \notin Freeing)
               <=> \A d \in Apics : br[d].page = p => bpc[d] \notin Freeing
          BY <1>a, <3>1, <3>2, <4>2 DEF BootTypeOK
        <5>q. QED
          BY <4>2, <5>1, <5>2 DEF Listed
      <4>q. QED
        BY <4>1, <4>2
    <3>5. \A p \in Boot!Pages : p > Given' => used'[p] = "free"
      BY <1>a, <3>2, <3>3 DEF ListIsSound, BootTypeOK, Boot!Pages
    <3>6. Listed' = Listed
      BY <3>4 DEF Listed
    <3>q. QED
      BY <1>a, <3>1, <3>2, <3>5, <3>6, ListLinks
  <2>2. CASE bpc[boot] = "kinit1+" /\ Boot!Freed(boot) /\ Boot!Goto(boot, "kinit1") /\ Boot!Idle
             /\ UNCHANGED <<bstack, pgdir, code, started, i, runnable>>
    <3>1. /\ br[boot].page \in Boot!Pages \ Listed /\ boot \in Apics /\ bpc[boot] \in Freeing
          /\ next[br[boot].page] = kmem.freelist /\ br[boot].page # Boot!None
          /\ used[br[boot].page] = "free" /\ br[boot].page <= Given
       BY <1>a, <2>2, BootAssumption DEF HandsFollow, ListIsHeld, MainIsFirst, BootTypeOK, Listed, Given,
           Boot!Goto, Boot!Idle, Alone, Freeing, Allocating, Early
    <3>2. /\ bpc' = [bpc EXCEPT ![boot] = "kinit1"] /\ boot' = boot
          /\ br' = [br EXCEPT ![boot] = Boot!NoPage]
          /\ UNCHANGED <<next, used>> /\ kmem'.freelist = br[boot].page
      BY <1>a, <2>2 DEF Boot!Freed, Boot!Goto, Boot!Idle, BootTypeOK
    <3>3. Given' = Given
       BY <1>a, <2>2, BootAssumption DEF Boot!Freed, MainIsFirst, BootTypeOK, Given, Boot!Goto, Boot!Idle,
           Alone, Freeing, Allocating, Early
    <3>4. \A d \in Apics \ {boot} : br'[d] = br[d] /\ bpc'[d] = bpc[d] /\ br[d].page = Boot!None
      BY <1>a, <3>1, <3>2 DEF ListIsHeld, BootTypeOK
    <3>5. br'[boot].page = Boot!None /\ bpc'[boot] \notin Freeing
      BY <1>a, <3>1, <3>2 DEF Boot!NoPage, BootTypeOK, Freeing
    <3>6. ASSUME NEW p \in Boot!Pages PROVE p \in Listed' <=> p \in Listed \cup {br[boot].page}
      BY <1>a, <3>1, <3>2, <3>3, <3>4, <3>5, NoneIsNoPage DEF Listed
    <3>7. Listed' = Listed \cup {br[boot].page}
      BY <3>1, <3>6 DEF Listed
    <3>q. QED
      BY <1>a, <3>1, <3>2, <3>3, <3>7, ListPushes
  <2>3. CASE bpc[boot] = "kinit1" /\ 1 + i > Low /\ Boot!Goto(boot, "kvmalloc") /\ UNCHANGED kmem /\ i' = 0 /\ Boot!Idle
             /\ UNCHANGED <<next, br, bstack, pgdir, used, code, started, runnable>>
    <3>1. /\ Given' = Given
         /\ UNCHANGED <<next, used>> /\ kmem'.freelist = kmem.freelist
       BY <1>a, <2>3, BootAssumption DEF MainIsFirst, BootTypeOK, Given, Boot!Goto, Boot!Idle, Alone,
           Freeing, Allocating, Early
    <3>2. /\ \A d \in Apics : bpc'[d] \in Freeing <=> bpc[d] \in Freeing
         /\ \A d \in Apics : bpc[d] \in Freeing => br'[d] = br[d]
       BY <1>a, <2>3 DEF MainIsFirst, BootTypeOK, Given, Boot!Goto, Boot!Idle, Alone, Freeing, Allocating,
           Early
    <3>q. QED
      BY <1>a, <3>1, <3>2, ListKept
  <2>q. QED
    BY <1>1, <2>1, <2>2, <2>3 DEF Boot!Kinit1, Boot!Freerange
<1>2. CASE Boot!Kvmalloc
  <2>1. CASE Boot!Kalloc(boot, "kvmalloc", "kvmalloc+")
    <3>1. /\ Given' = Given
         /\ UNCHANGED <<next, used>> /\ kmem'.freelist = kmem.freelist
       BY <1>a, <2>1, BootAssumption DEF Boot!Kalloc, MainIsFirst, BootTypeOK, Given, Boot!Goto, Boot!Idle,
           Alone, Freeing, Allocating, Early
    <3>2. /\ \A d \in Apics : bpc'[d] \in Freeing <=> bpc[d] \in Freeing
         /\ \A d \in Apics : bpc[d] \in Freeing => br'[d] = br[d]
       BY <1>a, <2>1 DEF Boot!Kalloc, MainIsFirst, BootTypeOK, Given, Boot!Goto, Boot!Idle, Alone, Freeing,
           Allocating, Early
    <3>q. QED
      BY <1>a, <3>1, <3>2, ListKept
  <2>2. CASE bpc[boot] = "kvmalloc+" /\ Boot!Allocated(boot, "kernel")
             /\ pgdir' = [pgdir EXCEPT ![boot] = "kpgdir"] /\ Boot!Goto(boot, "startothers")
             /\ UNCHANGED <<bstack, code, started, i, runnable>> /\ Boot!Idle
    <3>1. /\ kmem'.freelist = next[kmem.freelist] /\ next' = next
          /\ used' = [used EXCEPT ![kmem.freelist] = "kernel"]
      BY <1>a, <2>2 DEF Boot!Allocated, HandsFollow, BootTypeOK, Allocating
    <3>4. Given \in Nat /\ Given' = Given
       BY <1>a, <2>2, BootAssumption DEF Boot!Allocated, MainIsFirst, BootTypeOK, Given, Boot!Goto,
           Boot!Idle, Alone, Freeing, Allocating, Early
    <3>2. kmem.freelist \in Listed
      BY <1>a, <2>2 DEF ListIsSound, HandsFollow, ListIsHeld, Allocating, Freeing, BootTypeOK
    <3>3. /\ \A d \in Apics : bpc'[d] \in Freeing <=> bpc[d] \in Freeing
          /\ \A d \in Apics : bpc[d] \in Freeing => br'[d] = br[d]
       BY <1>a, <2>2 DEF Boot!Allocated, MainIsFirst, BootTypeOK, Given, Boot!Goto, Boot!Idle, Alone,
           Freeing, Allocating, Early
    <3>q. QED
      BY <1>a, <3>1, <3>2, <3>3, <3>4, NoneIsNoPage, ListPops
  <2>q. QED
    BY <1>2, <2>1, <2>2 DEF Boot!Kvmalloc
<1>3. CASE Boot!Startothers
  <2>1. CASE ~Boot!Skip /\ i < Len(cpus) /\ Boot!Kalloc(boot, "startothers", "startothers+")
    <3>1. /\ Given' = Given
         /\ UNCHANGED <<next, used>> /\ kmem'.freelist = kmem.freelist
       BY <1>a, <2>1, BootAssumption DEF Boot!Skip, Boot!Kalloc, MainIsFirst, BootTypeOK, Given, Boot!Goto,
           Boot!Idle, Alone, Freeing, Allocating, Early
    <3>2. /\ \A d \in Apics : bpc'[d] \in Freeing <=> bpc[d] \in Freeing
         /\ \A d \in Apics : bpc[d] \in Freeing => br'[d] = br[d]
       BY <1>a, <2>1 DEF Boot!Skip, Boot!Kalloc, MainIsFirst, BootTypeOK, Given, Boot!Goto, Boot!Idle,
           Alone, Freeing, Allocating, Early
    <3>q. QED
      BY <1>a, <3>1, <3>2, ListKept
  <2>2. CASE bpc[boot] = "startothers+" /\ Boot!Allocated(boot, "stack") /\ code' = br[boot].page
             /\ Boot!Goto(boot, "lapicstartap") /\ UNCHANGED <<bstack, pgdir, started, i, runnable>> /\ Boot!Idle
    <3>1. /\ kmem'.freelist = next[kmem.freelist] /\ next' = next
          /\ used' = [used EXCEPT ![kmem.freelist] = "stack"]
      BY <1>a, <2>2 DEF Boot!Allocated, HandsFollow, BootTypeOK, Allocating
    <3>4. Given \in Nat /\ Given' = Given
       BY <1>a, <2>2, BootAssumption DEF Boot!Allocated, MainIsFirst, BootTypeOK, Given, Boot!Goto,
           Boot!Idle, Alone, Freeing, Allocating, Early
    <3>2. kmem.freelist \in Listed
      BY <1>a, <2>2 DEF ListIsSound, HandsFollow, ListIsHeld, Allocating, Freeing, BootTypeOK
    <3>3. /\ \A d \in Apics : bpc'[d] \in Freeing <=> bpc[d] \in Freeing
          /\ \A d \in Apics : bpc[d] \in Freeing => br'[d] = br[d]
       BY <1>a, <2>2 DEF Boot!Allocated, MainIsFirst, BootTypeOK, Given, Boot!Goto, Boot!Idle, Alone,
           Freeing, Allocating, Early
    <3>q. QED
      BY <1>a, <3>1, <3>2, <3>3, <3>4, NoneIsNoPage, ListPops
  <2>3. CASE bpc[boot] = "startothers" /\ Boot!Skip /\ i' = i + 1
             /\ UNCHANGED <<kmem, next, bpc, br, bstack, pgdir, used, code, started, runnable>> /\ Boot!Idle
    <3>1. /\ Given' = Given
         /\ UNCHANGED <<next, used>> /\ kmem'.freelist = kmem.freelist
       BY <1>a, <2>3, BootAssumption DEF Boot!Skip, MainIsFirst, BootTypeOK, Given, Boot!Goto, Boot!Idle,
           Alone, Freeing, Allocating, Early
    <3>2. /\ \A d \in Apics : bpc'[d] \in Freeing <=> bpc[d] \in Freeing
         /\ \A d \in Apics : bpc[d] \in Freeing => br'[d] = br[d]
       BY <1>a, <2>3 DEF Boot!Skip, MainIsFirst, BootTypeOK, Given, Boot!Goto, Boot!Idle, Alone, Freeing,
           Allocating, Early
    <3>q. QED
      BY <1>a, <3>1, <3>2, ListKept
  <2>4. CASE bpc[boot] = "startothers" /\ i = Len(cpus) /\ i' = 0 /\ Boot!Goto(boot, "kinit2")
             /\ UNCHANGED <<kmem, next, br, bstack, pgdir, used, code, started, runnable>> /\ Boot!Idle
    <3>1. /\ Given' = Given
         /\ UNCHANGED <<next, used>> /\ kmem'.freelist = kmem.freelist
       BY <1>a, <2>4, BootAssumption DEF MainIsFirst, BootTypeOK, Given, Boot!Goto, Boot!Idle, Alone,
           Freeing, Allocating, Early
    <3>2. /\ \A d \in Apics : bpc'[d] \in Freeing <=> bpc[d] \in Freeing
         /\ \A d \in Apics : bpc[d] \in Freeing => br'[d] = br[d]
       BY <1>a, <2>4 DEF MainIsFirst, BootTypeOK, Given, Boot!Goto, Boot!Idle, Alone, Freeing, Allocating,
           Early
    <3>q. QED
      BY <1>a, <3>1, <3>2, ListKept
  <2>q. QED
    BY <1>3, <2>1, <2>2, <2>3, <2>4 DEF Boot!Startothers
<1>4. CASE Boot!lapicstartap
  <2>1. /\ Given' = Given
       /\ UNCHANGED <<next, used>> /\ kmem'.freelist = kmem.freelist
     BY <1>a, <1>4, BootAssumption DEF Boot!lapicstartap, MainIsFirst, BootTypeOK, Given, Boot!Goto,
         Boot!Idle, Alone, Freeing, Allocating, Early
  <2>2. /\ \A d \in Apics : bpc'[d] \in Freeing <=> bpc[d] \in Freeing
       /\ \A d \in Apics : bpc[d] \in Freeing => br'[d] = br[d]
     BY <1>a, <1>4 DEF Boot!lapicstartap, MainIsFirst, BootTypeOK, Given, Boot!Goto, Boot!Idle, Alone,
         Freeing, Allocating, Early
  <2>q. QED
    BY <1>a, <2>1, <2>2, ListKept
<1>5. CASE Boot!AwaitStarted
  <2>1. /\ Given' = Given
       /\ UNCHANGED <<next, used>> /\ kmem'.freelist = kmem.freelist
     BY <1>a, <1>5, BootAssumption DEF Boot!AwaitStarted, MainIsFirst, BootTypeOK, Given, Boot!Goto,
         Boot!Idle, Alone, Freeing, Allocating, Early
  <2>2. /\ \A d \in Apics : bpc'[d] \in Freeing <=> bpc[d] \in Freeing
       /\ \A d \in Apics : bpc[d] \in Freeing => br'[d] = br[d]
     BY <1>a, <1>5 DEF Boot!AwaitStarted, MainIsFirst, BootTypeOK, Given, Boot!Goto, Boot!Idle, Alone,
         Freeing, Allocating, Early
  <2>q. QED
    BY <1>a, <2>1, <2>2, ListKept
<1>6. CASE Boot!Kinit2
  <2>1. CASE bpc[boot] = "kinit2" /\ Low + 1 + i <= Low + High /\ Boot!Kfree(boot, "kinit2", Low + 1 + i, "kinit2+") /\ i' = i + 1
    <3>1. /\ (Low + 1 + i) \in Boot!Pages \ Listed /\ boot \in Apics /\ bpc[boot] \notin Freeing
          /\ used[(Low + 1 + i)] = "free" => (Low + 1 + i) = Given + 1
       BY <1>a, <2>1, BootAssumption DEF Boot!Kfree, ListIsSound, MainIsFirst, BootTypeOK, Listed, Given,
           Boot!Goto, Boot!Idle, Alone, Freeing, Allocating, Early, Boot!Pages
    <3>2. /\ bpc' = [bpc EXCEPT ![boot] = "kinit2+"] /\ boot' = boot
          /\ br' = [br EXCEPT ![boot] = [page |-> (Low + 1 + i), head |-> kmem.freelist]]
          /\ next' = [next EXCEPT ![(Low + 1 + i)] = kmem.freelist]
          /\ used' = [used EXCEPT ![(Low + 1 + i)] = "free"]
          /\ kmem'.freelist = kmem.freelist
      BY <1>a, <2>1 DEF Boot!Kfree, Boot!Goto, Boot!Idle, BootTypeOK
    <3>3. Given \in Nat /\ Given' = Given + 1 /\ (Low + 1 + i) = Given + 1
       BY <1>a, <2>1, BootAssumption DEF Boot!Kfree, MainIsFirst, BootTypeOK, Given, Boot!Goto, Boot!Idle,
           Alone, Freeing, Allocating, Early
    <3>4. ASSUME NEW p \in Boot!Pages PROVE p \in Listed' <=> p \in Listed
      <4>1. CASE p = (Low + 1 + i)
        BY <1>a, <3>1, <3>2, <4>1 DEF Listed, BootTypeOK, Freeing
      <4>2. CASE p # (Low + 1 + i)
        <5>1. used'[p] = used[p] /\ (p <= Given' <=> p <= Given)
          <6>1. used'[p] = used[p]
            BY <1>a, <3>2, <4>2 DEF BootTypeOK
          <6>2. p \in Int
            BY BootAssumption DEF Boot!Pages
          <6>q. QED
            BY <3>3, <4>2, <6>1, <6>2
        <5>2. (\A d \in Apics : br'[d].page = p => bpc'[d] \notin Freeing)
               <=> \A d \in Apics : br[d].page = p => bpc[d] \notin Freeing
          BY <1>a, <3>1, <3>2, <4>2 DEF BootTypeOK
        <5>q. QED
          BY <4>2, <5>1, <5>2 DEF Listed
      <4>q. QED
        BY <4>1, <4>2
    <3>5. \A p \in Boot!Pages : p > Given' => used'[p] = "free"
      BY <1>a, <3>2, <3>3 DEF ListIsSound, BootTypeOK, Boot!Pages
    <3>6. Listed' = Listed
      BY <3>4 DEF Listed
    <3>q. QED
      BY <1>a, <3>1, <3>2, <3>5, <3>6, ListLinks
  <2>2. CASE bpc[boot] = "kinit2+" /\ Boot!Freed(boot) /\ Boot!Goto(boot, "kinit2") /\ Boot!Idle
             /\ UNCHANGED <<bstack, pgdir, code, started, i, runnable>>
    <3>1. /\ br[boot].page \in Boot!Pages \ Listed /\ boot \in Apics /\ bpc[boot] \in Freeing
          /\ next[br[boot].page] = kmem.freelist /\ br[boot].page # Boot!None
          /\ used[br[boot].page] = "free" /\ br[boot].page <= Given
       BY <1>a, <2>2, BootAssumption DEF HandsFollow, ListIsHeld, MainIsFirst, BootTypeOK, Listed, Given,
           Boot!Goto, Boot!Idle, Alone, Freeing, Allocating, Early
    <3>2. /\ bpc' = [bpc EXCEPT ![boot] = "kinit2"] /\ boot' = boot
          /\ br' = [br EXCEPT ![boot] = Boot!NoPage]
          /\ UNCHANGED <<next, used>> /\ kmem'.freelist = br[boot].page
      BY <1>a, <2>2 DEF Boot!Freed, Boot!Goto, Boot!Idle, BootTypeOK
    <3>3. Given' = Given
       BY <1>a, <2>2, BootAssumption DEF Boot!Freed, MainIsFirst, BootTypeOK, Given, Boot!Goto, Boot!Idle,
           Alone, Freeing, Allocating, Early
    <3>4. \A d \in Apics \ {boot} : br'[d] = br[d] /\ bpc'[d] = bpc[d] /\ br[d].page = Boot!None
      BY <1>a, <3>1, <3>2 DEF ListIsHeld, BootTypeOK
    <3>5. br'[boot].page = Boot!None /\ bpc'[boot] \notin Freeing
      BY <1>a, <3>1, <3>2 DEF Boot!NoPage, BootTypeOK, Freeing
    <3>6. ASSUME NEW p \in Boot!Pages PROVE p \in Listed' <=> p \in Listed \cup {br[boot].page}
      BY <1>a, <3>1, <3>2, <3>3, <3>4, <3>5, NoneIsNoPage DEF Listed
    <3>7. Listed' = Listed \cup {br[boot].page}
      BY <3>1, <3>6 DEF Listed
    <3>q. QED
      BY <1>a, <3>1, <3>2, <3>3, <3>7, ListPushes
  <2>3. CASE bpc[boot] = "kinit2" /\ Low + 1 + i > Low + High /\ Boot!Goto(boot, "userinit") /\ kmem' = [kmem EXCEPT !.use_lock = TRUE] /\ i' = 0 /\ Boot!Idle
             /\ UNCHANGED <<next, br, bstack, pgdir, used, code, started, runnable>>
    <3>1. /\ Given' = Given
         /\ UNCHANGED <<next, used>> /\ kmem'.freelist = kmem.freelist
       BY <1>a, <2>3, BootAssumption DEF MainIsFirst, BootTypeOK, Given, Boot!Goto, Boot!Idle, Alone,
           Freeing, Allocating, Early
    <3>2. /\ \A d \in Apics : bpc'[d] \in Freeing <=> bpc[d] \in Freeing
         /\ \A d \in Apics : bpc[d] \in Freeing => br'[d] = br[d]
       BY <1>a, <2>3 DEF MainIsFirst, BootTypeOK, Given, Boot!Goto, Boot!Idle, Alone, Freeing, Allocating,
           Early
    <3>q. QED
      BY <1>a, <3>1, <3>2, ListKept
  <2>q. QED
    BY <1>6, <2>1, <2>2, <2>3 DEF Boot!Kinit2, Boot!Freerange
<1>7. CASE Boot!Userinit
  <2>1. CASE Boot!Kalloc(boot, "userinit", "userinit+")
    <3>1. /\ Given' = Given
         /\ UNCHANGED <<next, used>> /\ kmem'.freelist = kmem.freelist
       BY <1>a, <2>1, BootAssumption DEF Boot!Kalloc, MainIsFirst, BootTypeOK, Given, Boot!Goto, Boot!Idle,
           Alone, Freeing, Allocating, Early
    <3>2. /\ \A d \in Apics : bpc'[d] \in Freeing <=> bpc[d] \in Freeing
         /\ \A d \in Apics : bpc[d] \in Freeing => br'[d] = br[d]
       BY <1>a, <2>1 DEF Boot!Kalloc, MainIsFirst, BootTypeOK, Given, Boot!Goto, Boot!Idle, Alone, Freeing,
           Allocating, Early
    <3>q. QED
      BY <1>a, <3>1, <3>2, ListKept
  <2>2. CASE bpc[boot] = "userinit+" /\ Boot!Allocated(boot, "process") /\ runnable' = 1
             /\ Boot!Goto(boot, "mpmain") /\ UNCHANGED <<bstack, pgdir, code, started, i>> /\ Boot!Idle
    <3>1. /\ kmem'.freelist = next[kmem.freelist] /\ next' = next
          /\ used' = [used EXCEPT ![kmem.freelist] = "process"]
      BY <1>a, <2>2 DEF Boot!Allocated, HandsFollow, BootTypeOK, Allocating
    <3>4. Given \in Nat /\ Given' = Given
       BY <1>a, <2>2, BootAssumption DEF Boot!Allocated, MainIsFirst, BootTypeOK, Given, Boot!Goto,
           Boot!Idle, Alone, Freeing, Allocating, Early
    <3>2. kmem.freelist \in Listed
      BY <1>a, <2>2 DEF ListIsSound, HandsFollow, ListIsHeld, Allocating, Freeing, BootTypeOK
    <3>3. /\ \A d \in Apics : bpc'[d] \in Freeing <=> bpc[d] \in Freeing
          /\ \A d \in Apics : bpc[d] \in Freeing => br'[d] = br[d]
       BY <1>a, <2>2 DEF Boot!Allocated, MainIsFirst, BootTypeOK, Given, Boot!Goto, Boot!Idle, Alone,
           Freeing, Allocating, Early
    <3>q. QED
      BY <1>a, <3>1, <3>2, <3>3, <3>4, NoneIsNoPage, ListPops
  <2>q. QED
    BY <1>7, <2>1, <2>2 DEF Boot!Userinit
<1>8. ASSUME NEW c \in Apics, Boot!Entryother(c) PROVE ListIsSound'
  <2>1. CASE bpc[c] = "entryother" /\ pgdir' = [pgdir EXCEPT ![c] = "entrypgdir"] /\ Boot!Goto(c, "entryother+")
             /\ UNCHANGED <<kmem, next, br, bstack, used, code, started, i, runnable>> /\ Boot!Idle
    <3>1. /\ Given' = Given
         /\ UNCHANGED <<next, used>> /\ kmem'.freelist = kmem.freelist
       BY <1>a, <2>1, BootAssumption DEF MainIsFirst, BootTypeOK, Given, Boot!Goto, Boot!Idle, Alone,
           Freeing, Allocating, Early
    <3>2. /\ \A d \in Apics : bpc'[d] \in Freeing <=> bpc[d] \in Freeing
         /\ \A d \in Apics : bpc[d] \in Freeing => br'[d] = br[d]
       BY <1>a, <2>1 DEF MainIsFirst, BootTypeOK, Given, Boot!Goto, Boot!Idle, Alone, Freeing, Allocating,
           Early
    <3>q. QED
      BY <1>a, <3>1, <3>2, ListKept
  <2>2. CASE bpc[c] = "entryother+" /\ bstack' = [bstack EXCEPT ![c] = code] /\ Boot!Goto(c, "mpenter")
             /\ UNCHANGED <<kmem, next, br, pgdir, used, code, started, i, runnable>> /\ Boot!Idle
    <3>1. /\ Given' = Given
         /\ UNCHANGED <<next, used>> /\ kmem'.freelist = kmem.freelist
       BY <1>a, <2>2, BootAssumption DEF MainIsFirst, BootTypeOK, Given, Boot!Goto, Boot!Idle, Alone,
           Freeing, Allocating, Early
    <3>2. /\ \A d \in Apics : bpc'[d] \in Freeing <=> bpc[d] \in Freeing
         /\ \A d \in Apics : bpc[d] \in Freeing => br'[d] = br[d]
       BY <1>a, <2>2 DEF MainIsFirst, BootTypeOK, Given, Boot!Goto, Boot!Idle, Alone, Freeing, Allocating,
           Early
    <3>q. QED
      BY <1>a, <3>1, <3>2, ListKept
  <2>q. QED
    BY <1>8, <2>1, <2>2 DEF Boot!Entryother
<1>9. ASSUME NEW c \in Apics, Boot!Mpenter(c) PROVE ListIsSound'
  <2>1. /\ Given' = Given
       /\ UNCHANGED <<next, used>> /\ kmem'.freelist = kmem.freelist
     BY <1>a, <1>9, BootAssumption DEF Boot!Mpenter, MainIsFirst, BootTypeOK, Given, Boot!Goto, Boot!Idle,
         Alone, Freeing, Allocating, Early
  <2>2. /\ \A d \in Apics : bpc'[d] \in Freeing <=> bpc[d] \in Freeing
       /\ \A d \in Apics : bpc[d] \in Freeing => br'[d] = br[d]
     BY <1>a, <1>9 DEF Boot!Mpenter, MainIsFirst, BootTypeOK, Given, Boot!Goto, Boot!Idle, Alone, Freeing,
         Allocating, Early
  <2>q. QED
    BY <1>a, <2>1, <2>2, ListKept
<1>10. ASSUME NEW c \in Apics, Boot!Mpmain(c) PROVE ListIsSound'
  <2>1. /\ Given' = Given
       /\ UNCHANGED <<next, used>> /\ kmem'.freelist = kmem.freelist
     BY <1>a, <1>10, BootAssumption DEF Boot!Mpmain, MainIsFirst, BootTypeOK, Given, Boot!Goto, Boot!Idle,
         Alone, Freeing, Allocating, Early
  <2>2. /\ \A d \in Apics : bpc'[d] \in Freeing <=> bpc[d] \in Freeing
       /\ \A d \in Apics : bpc[d] \in Freeing => br'[d] = br[d]
     BY <1>a, <1>10 DEF Boot!Mpmain, MainIsFirst, BootTypeOK, Given, Boot!Goto, Boot!Idle, Alone, Freeing,
         Allocating, Early
  <2>q. QED
    BY <1>a, <2>1, <2>2, ListKept
<1>11. ASSUME NEW c \in Apics, Boot!Scheduler(c) PROVE ListIsSound'
  <2>1. CASE bpc[c] = "scheduler" /\ runnable > 0 /\ runnable' = runnable - 1 /\ Boot!Goto(c, "process")
             /\ UNCHANGED <<kmem, next, br, bstack, pgdir, used, code, started, i>> /\ Boot!Idle
    <3>1. /\ Given' = Given
         /\ UNCHANGED <<next, used>> /\ kmem'.freelist = kmem.freelist
       BY <1>a, <2>1, BootAssumption DEF MainIsFirst, BootTypeOK, Given, Boot!Goto, Boot!Idle, Alone,
           Freeing, Allocating, Early
    <3>2. /\ \A d \in Apics : bpc'[d] \in Freeing <=> bpc[d] \in Freeing
         /\ \A d \in Apics : bpc[d] \in Freeing => br'[d] = br[d]
       BY <1>a, <2>1 DEF MainIsFirst, BootTypeOK, Given, Boot!Goto, Boot!Idle, Alone, Freeing, Allocating,
           Early
    <3>q. QED
      BY <1>a, <3>1, <3>2, ListKept
  <2>2. CASE bpc[c] = "process" /\ runnable' = runnable + 1 /\ Boot!Goto(c, "scheduler")
             /\ UNCHANGED <<kmem, next, br, bstack, pgdir, used, code, started, i>> /\ Boot!Idle
    <3>1. /\ Given' = Given
         /\ UNCHANGED <<next, used>> /\ kmem'.freelist = kmem.freelist
       BY <1>a, <2>2, BootAssumption DEF MainIsFirst, BootTypeOK, Given, Boot!Goto, Boot!Idle, Alone,
           Freeing, Allocating, Early
    <3>2. /\ \A d \in Apics : bpc'[d] \in Freeing <=> bpc[d] \in Freeing
         /\ \A d \in Apics : bpc[d] \in Freeing => br'[d] = br[d]
       BY <1>a, <2>2 DEF MainIsFirst, BootTypeOK, Given, Boot!Goto, Boot!Idle, Alone, Freeing, Allocating,
           Early
    <3>q. QED
      BY <1>a, <3>1, <3>2, ListKept
  <2>q. QED
    BY <1>11, <2>1, <2>2 DEF Boot!Scheduler
<1>12. ASSUME NEW c \in Apics, Boot!Process(c) PROVE ListIsSound'
  <2>1. CASE runnable + Boot!Cardinality(Boot!Running) < NPROC /\ Boot!Kalloc(c, "process", "fork")
    <3>1. /\ Given' = Given
         /\ UNCHANGED <<next, used>> /\ kmem'.freelist = kmem.freelist
       BY <1>a, <2>1, BootAssumption DEF Boot!Kalloc, MainIsFirst, BootTypeOK, Given, Boot!Goto, Boot!Idle,
           Alone, Freeing, Allocating, Early
    <3>2. /\ \A d \in Apics : bpc'[d] \in Freeing <=> bpc[d] \in Freeing
         /\ \A d \in Apics : bpc[d] \in Freeing => br'[d] = br[d]
       BY <1>a, <2>1 DEF Boot!Kalloc, MainIsFirst, BootTypeOK, Given, Boot!Goto, Boot!Idle, Alone, Freeing,
           Allocating, Early
    <3>q. QED
      BY <1>a, <3>1, <3>2, ListKept
  <2>2. CASE bpc[c] = "fork" /\ Boot!Allocated(c, "process") /\ runnable' = runnable + 1
             /\ Boot!Goto(c, "process") /\ UNCHANGED <<bstack, pgdir, code, started, i>> /\ Boot!Idle
    <3>1. /\ kmem'.freelist = next[kmem.freelist] /\ next' = next
          /\ used' = [used EXCEPT ![kmem.freelist] = "process"]
      BY <1>a, <2>2 DEF Boot!Allocated, HandsFollow, BootTypeOK, Allocating
    <3>4. Given \in Nat /\ Given' = Given
       BY <1>a, <2>2, BootAssumption DEF Boot!Allocated, MainIsFirst, BootTypeOK, Given, Boot!Goto,
           Boot!Idle, Alone, Freeing, Allocating, Early
    <3>2. kmem.freelist \in Listed
      BY <1>a, <2>2 DEF ListIsSound, HandsFollow, ListIsHeld, Allocating, Freeing, BootTypeOK
    <3>3. /\ \A d \in Apics : bpc'[d] \in Freeing <=> bpc[d] \in Freeing
          /\ \A d \in Apics : bpc[d] \in Freeing => br'[d] = br[d]
       BY <1>a, <2>2 DEF Boot!Allocated, MainIsFirst, BootTypeOK, Given, Boot!Goto, Boot!Idle, Alone,
           Freeing, Allocating, Early
    <3>q. QED
      BY <1>a, <3>1, <3>2, <3>3, <3>4, NoneIsNoPage, ListPops
  <2>3. ASSUME NEW page \in Boot!Pages, used[page] = "process", Boot!Kfree(c, "process", page, "free"), UNCHANGED i PROVE ListIsSound'
    <3>1. /\ page \in Boot!Pages \ Listed /\ c \in Apics /\ bpc[c] \notin Freeing
          /\ used[page] = "free" => page = Given + 1
       BY <1>a, <2>3, BootAssumption DEF Boot!Kfree, ListIsSound, MainIsFirst, BootTypeOK, Listed, Given,
           Boot!Goto, Boot!Idle, Alone, Freeing, Allocating, Early, Boot!Pages
    <3>2. /\ bpc' = [bpc EXCEPT ![c] = "free"] /\ boot' = boot
          /\ br' = [br EXCEPT ![c] = [page |-> page, head |-> kmem.freelist]]
          /\ next' = [next EXCEPT ![page] = kmem.freelist]
          /\ used' = [used EXCEPT ![page] = "free"]
          /\ kmem'.freelist = kmem.freelist
      BY <1>a, <2>3 DEF Boot!Kfree, Boot!Goto, Boot!Idle, BootTypeOK
    <3>3. Given \in Nat /\ Given' = Given
       BY <1>a, <2>3, BootAssumption DEF Boot!Kfree, MainIsFirst, BootTypeOK, Given, Boot!Goto, Boot!Idle,
           Alone, Freeing, Allocating, Early
    <3>4. ASSUME NEW p \in Boot!Pages PROVE p \in Listed' <=> p \in Listed
      <4>1. CASE p = page
        BY <1>a, <3>1, <3>2, <4>1 DEF Listed, BootTypeOK, Freeing
      <4>2. CASE p # page
        <5>1. used'[p] = used[p] /\ (p <= Given' <=> p <= Given)
          <6>1. used'[p] = used[p]
            BY <1>a, <3>2, <4>2 DEF BootTypeOK
          <6>2. p \in Int
            BY BootAssumption DEF Boot!Pages
          <6>q. QED
            BY <3>3, <4>2, <6>1, <6>2
        <5>2. (\A d \in Apics : br'[d].page = p => bpc'[d] \notin Freeing)
               <=> \A d \in Apics : br[d].page = p => bpc[d] \notin Freeing
          BY <1>a, <3>1, <3>2, <4>2 DEF BootTypeOK
        <5>q. QED
          BY <4>2, <5>1, <5>2 DEF Listed
      <4>q. QED
        BY <4>1, <4>2
    <3>5. \A p \in Boot!Pages : p > Given' => used'[p] = "free"
      BY <1>a, <3>2, <3>3 DEF ListIsSound, BootTypeOK, Boot!Pages
    <3>6. Listed' = Listed
      BY <3>4 DEF Listed
    <3>q. QED
      BY <1>a, <3>1, <3>2, <3>5, <3>6, ListLinks
  <2>4. CASE bpc[c] = "free" /\ Boot!Freed(c) /\ Boot!Goto(c, "process")
             /\ UNCHANGED <<bstack, pgdir, code, started, i, runnable>> /\ Boot!Idle
    <3>1. /\ br[c].page \in Boot!Pages \ Listed /\ c \in Apics /\ bpc[c] \in Freeing
          /\ next[br[c].page] = kmem.freelist /\ br[c].page # Boot!None
          /\ used[br[c].page] = "free" /\ br[c].page <= Given
       BY <1>a, <2>4, BootAssumption DEF HandsFollow, ListIsHeld, MainIsFirst, BootTypeOK, Listed, Given,
           Boot!Goto, Boot!Idle, Alone, Freeing, Allocating, Early
    <3>2. /\ bpc' = [bpc EXCEPT ![c] = "process"] /\ boot' = boot
          /\ br' = [br EXCEPT ![c] = Boot!NoPage]
          /\ UNCHANGED <<next, used>> /\ kmem'.freelist = br[c].page
      BY <1>a, <2>4 DEF Boot!Freed, Boot!Goto, Boot!Idle, BootTypeOK
    <3>3. Given' = Given
       BY <1>a, <2>4, BootAssumption DEF Boot!Freed, MainIsFirst, BootTypeOK, Given, Boot!Goto, Boot!Idle,
           Alone, Freeing, Allocating, Early
    <3>4. \A d \in Apics \ {c} : br'[d] = br[d] /\ bpc'[d] = bpc[d] /\ br[d].page = Boot!None
      BY <1>a, <3>1, <3>2 DEF ListIsHeld, BootTypeOK
    <3>5. br'[c].page = Boot!None /\ bpc'[c] \notin Freeing
      BY <1>a, <3>1, <3>2 DEF Boot!NoPage, BootTypeOK, Freeing
    <3>6. ASSUME NEW p \in Boot!Pages PROVE p \in Listed' <=> p \in Listed \cup {br[c].page}
      BY <1>a, <3>1, <3>2, <3>3, <3>4, <3>5, NoneIsNoPage DEF Listed
    <3>7. Listed' = Listed \cup {br[c].page}
      BY <3>1, <3>6 DEF Listed
    <3>q. QED
      BY <1>a, <3>1, <3>2, <3>3, <3>7, ListPushes
  <2>q. QED
    BY <1>12, <2>1, <2>2, <2>3, <2>4 DEF Boot!Process, Boot!Running
<1>13. CASE UNCHANGED Boot!vars
  BY <1>a, <1>13 DEF Boot!vars, ListIsSound, Listed, Given
<1>q. QED
  BY <1>1, <1>2, <1>3, <1>4, <1>5, <1>6, <1>7, <1>8, <1>9, <1>10, <1>11, <1>12, <1>13 DEF Boot!Next

LEMMA HandsStep == BootInv /\ [Boot!Next]_(Boot!vars) => HandsFollow'
<1> SUFFICES ASSUME BootInv, [Boot!Next]_(Boot!vars) PROVE HandsFollow'
  OBVIOUS
<1> USE DEF BootTypeOK, MainIsFirst, ListIsHeld, ListIsSound, HandsFollow, Listed, Given, Alone, Early,
     Allocating, Freeing, InScheduler, Boot!Goto, Boot!Idle, Boot!CanEnter, Boot!NoPage, Boot!Pages
<1>a. BootTypeOK /\ MainIsFirst /\ ListIsHeld /\ ListIsSound /\ HandsFollow
  BY DEF BootInv
<1>1. CASE Boot!Kinit1
  <2>1. CASE bpc[boot] = "kinit1" /\ 1 + i <= Low /\ Boot!Kfree(boot, "kinit1", 1 + i, "kinit1+") /\ i' = i + 1
    BY <1>a, <2>1, BootAssumption DEF Boot!Kfree
  <2>2. CASE bpc[boot] = "kinit1+" /\ Boot!Freed(boot) /\ Boot!Goto(boot, "kinit1") /\ Boot!Idle
             /\ UNCHANGED <<bstack, pgdir, code, started, i, runnable>>
    BY <1>a, <2>2, BootAssumption DEF Boot!Freed
  <2>3. CASE bpc[boot] = "kinit1" /\ 1 + i > Low /\ Boot!Goto(boot, "kvmalloc") /\ UNCHANGED kmem /\ i' = 0 /\ Boot!Idle
             /\ UNCHANGED <<next, br, bstack, pgdir, used, code, started, runnable>>
    BY <1>a, <2>3, BootAssumption
  <2>q. QED
    BY <1>1, <2>1, <2>2, <2>3 DEF Boot!Kinit1, Boot!Freerange
<1>2. CASE Boot!Kvmalloc
  <2>1. CASE Boot!Kalloc(boot, "kvmalloc", "kvmalloc+")
    BY <1>a, <2>1, BootAssumption DEF Boot!Kalloc
  <2>2. CASE bpc[boot] = "kvmalloc+" /\ Boot!Allocated(boot, "kernel")
             /\ pgdir' = [pgdir EXCEPT ![boot] = "kpgdir"] /\ Boot!Goto(boot, "startothers")
             /\ UNCHANGED <<bstack, code, started, i, runnable>> /\ Boot!Idle
    BY <1>a, <2>2, BootAssumption DEF Boot!Allocated
  <2>q. QED
    BY <1>2, <2>1, <2>2 DEF Boot!Kvmalloc
<1>3. CASE Boot!Startothers
  <2>1. CASE ~Boot!Skip /\ i < Len(cpus) /\ Boot!Kalloc(boot, "startothers", "startothers+")
    BY <1>a, <2>1, BootAssumption DEF Boot!Skip, Boot!Kalloc
  <2>2. CASE bpc[boot] = "startothers+" /\ Boot!Allocated(boot, "stack") /\ code' = br[boot].page
             /\ Boot!Goto(boot, "lapicstartap") /\ UNCHANGED <<bstack, pgdir, started, i, runnable>> /\ Boot!Idle
    BY <1>a, <2>2, BootAssumption DEF Boot!Allocated
  <2>3. CASE bpc[boot] = "startothers" /\ Boot!Skip /\ i' = i + 1
             /\ UNCHANGED <<kmem, next, bpc, br, bstack, pgdir, used, code, started, runnable>> /\ Boot!Idle
    BY <1>a, <2>3, BootAssumption DEF Boot!Skip
  <2>4. CASE bpc[boot] = "startothers" /\ i = Len(cpus) /\ i' = 0 /\ Boot!Goto(boot, "kinit2")
             /\ UNCHANGED <<kmem, next, br, bstack, pgdir, used, code, started, runnable>> /\ Boot!Idle
    BY <1>a, <2>4, BootAssumption
  <2>q. QED
    BY <1>3, <2>1, <2>2, <2>3, <2>4 DEF Boot!Startothers
<1>4. CASE Boot!lapicstartap
  BY <1>a, <1>4, BootAssumption DEF Boot!lapicstartap
<1>5. CASE Boot!AwaitStarted
  BY <1>a, <1>5, BootAssumption DEF Boot!AwaitStarted
<1>6. CASE Boot!Kinit2
  <2>1. CASE bpc[boot] = "kinit2" /\ Low + 1 + i <= Low + High /\ Boot!Kfree(boot, "kinit2", Low + 1 + i, "kinit2+") /\ i' = i + 1
    BY <1>a, <2>1, BootAssumption DEF Boot!Kfree
  <2>2. CASE bpc[boot] = "kinit2+" /\ Boot!Freed(boot) /\ Boot!Goto(boot, "kinit2") /\ Boot!Idle
             /\ UNCHANGED <<bstack, pgdir, code, started, i, runnable>>
    BY <1>a, <2>2, BootAssumption DEF Boot!Freed
  <2>3. CASE bpc[boot] = "kinit2" /\ Low + 1 + i > Low + High /\ Boot!Goto(boot, "userinit") /\ kmem' = [kmem EXCEPT !.use_lock = TRUE] /\ i' = 0 /\ Boot!Idle
             /\ UNCHANGED <<next, br, bstack, pgdir, used, code, started, runnable>>
    BY <1>a, <2>3, BootAssumption
  <2>q. QED
    BY <1>6, <2>1, <2>2, <2>3 DEF Boot!Kinit2, Boot!Freerange
<1>7. CASE Boot!Userinit
  <2>1. CASE Boot!Kalloc(boot, "userinit", "userinit+")
    BY <1>a, <2>1, BootAssumption DEF Boot!Kalloc
  <2>2. CASE bpc[boot] = "userinit+" /\ Boot!Allocated(boot, "process") /\ runnable' = 1
             /\ Boot!Goto(boot, "mpmain") /\ UNCHANGED <<bstack, pgdir, code, started, i>> /\ Boot!Idle
    BY <1>a, <2>2, BootAssumption DEF Boot!Allocated
  <2>q. QED
    BY <1>7, <2>1, <2>2 DEF Boot!Userinit
<1>8. ASSUME NEW c \in Apics, Boot!Entryother(c) PROVE HandsFollow'
  <2>1. CASE bpc[c] = "entryother" /\ pgdir' = [pgdir EXCEPT ![c] = "entrypgdir"] /\ Boot!Goto(c, "entryother+")
             /\ UNCHANGED <<kmem, next, br, bstack, used, code, started, i, runnable>> /\ Boot!Idle
    BY <1>a, <2>1, BootAssumption
  <2>2. CASE bpc[c] = "entryother+" /\ bstack' = [bstack EXCEPT ![c] = code] /\ Boot!Goto(c, "mpenter")
             /\ UNCHANGED <<kmem, next, br, pgdir, used, code, started, i, runnable>> /\ Boot!Idle
    BY <1>a, <2>2, BootAssumption
  <2>q. QED
    BY <1>8, <2>1, <2>2 DEF Boot!Entryother
<1>9. ASSUME NEW c \in Apics, Boot!Mpenter(c) PROVE HandsFollow'
  BY <1>a, <1>9, BootAssumption DEF Boot!Mpenter
<1>10. ASSUME NEW c \in Apics, Boot!Mpmain(c) PROVE HandsFollow'
  BY <1>a, <1>10, BootAssumption DEF Boot!Mpmain
<1>11. ASSUME NEW c \in Apics, Boot!Scheduler(c) PROVE HandsFollow'
  <2>1. CASE bpc[c] = "scheduler" /\ runnable > 0 /\ runnable' = runnable - 1 /\ Boot!Goto(c, "process")
             /\ UNCHANGED <<kmem, next, br, bstack, pgdir, used, code, started, i>> /\ Boot!Idle
    BY <1>a, <2>1, BootAssumption
  <2>2. CASE bpc[c] = "process" /\ runnable' = runnable + 1 /\ Boot!Goto(c, "scheduler")
             /\ UNCHANGED <<kmem, next, br, bstack, pgdir, used, code, started, i>> /\ Boot!Idle
    BY <1>a, <2>2, BootAssumption
  <2>q. QED
    BY <1>11, <2>1, <2>2 DEF Boot!Scheduler
<1>12. ASSUME NEW c \in Apics, Boot!Process(c) PROVE HandsFollow'
  <2>1. CASE runnable + Boot!Cardinality(Boot!Running) < NPROC /\ Boot!Kalloc(c, "process", "fork")
    BY <1>a, <2>1, BootAssumption DEF Boot!Kalloc
  <2>2. CASE bpc[c] = "fork" /\ Boot!Allocated(c, "process") /\ runnable' = runnable + 1
             /\ Boot!Goto(c, "process") /\ UNCHANGED <<bstack, pgdir, code, started, i>> /\ Boot!Idle
    BY <1>a, <2>2, BootAssumption DEF Boot!Allocated
  <2>3. ASSUME NEW page \in Boot!Pages, used[page] = "process", Boot!Kfree(c, "process", page, "free"), UNCHANGED i PROVE HandsFollow'
    BY <1>a, <2>3, BootAssumption DEF Boot!Kfree
  <2>4. CASE bpc[c] = "free" /\ Boot!Freed(c) /\ Boot!Goto(c, "process")
             /\ UNCHANGED <<bstack, pgdir, code, started, i, runnable>> /\ Boot!Idle
    BY <1>a, <2>4, BootAssumption DEF Boot!Freed
  <2>q. QED
    BY <1>12, <2>1, <2>2, <2>3, <2>4 DEF Boot!Process, Boot!Running
<1>13. CASE UNCHANGED Boot!vars
  BY <1>a, <1>13 DEF Boot!vars
<1>q. QED
  BY <1>1, <1>2, <1>3, <1>4, <1>5, <1>6, <1>7, <1>8, <1>9, <1>10, <1>11, <1>12, <1>13 DEF Boot!Next

LEMMA StacksStep == BootInv /\ [Boot!Next]_(Boot!vars) => StacksFollow'
<1> SUFFICES ASSUME BootInv, [Boot!Next]_(Boot!vars) PROVE StacksFollow'
  OBVIOUS
<1> USE DEF BootTypeOK, MainIsFirst, ListIsHeld, StacksFollow, HandsFollow, Alone, Early, Allocating,
     Freeing, InScheduler, Boot!Goto, Boot!Idle, Boot!CanEnter, Boot!NoPage, Boot!Pages
<1>a. BootTypeOK /\ MainIsFirst /\ ListIsHeld /\ ListIsSound /\ HandsFollow /\ StacksFollow
  BY DEF BootInv
<1>1. CASE Boot!Kinit1
  <2>1. CASE bpc[boot] = "kinit1" /\ 1 + i <= Low /\ Boot!Kfree(boot, "kinit1", 1 + i, "kinit1+") /\ i' = i + 1
    <3>1. 1 + i \in Boot!Pages /\ used[1 + i] = "free"
      BY <1>a, <2>1, BootAssumption DEF ListIsSound, Given
    <3>2. used' = used
      BY <1>a, <2>1, <3>1 DEF Boot!Kfree
    <3>q. QED
      BY <1>a, <2>1, <3>2 DEF Boot!Kfree
  <2>2. CASE bpc[boot] = "kinit1+" /\ Boot!Freed(boot) /\ Boot!Goto(boot, "kinit1") /\ Boot!Idle
             /\ UNCHANGED <<bstack, pgdir, code, started, i, runnable>>
    BY <1>a, <2>2, BootAssumption DEF Boot!Freed
  <2>3. CASE bpc[boot] = "kinit1" /\ 1 + i > Low /\ Boot!Goto(boot, "kvmalloc") /\ UNCHANGED kmem /\ i' = 0 /\ Boot!Idle
             /\ UNCHANGED <<next, br, bstack, pgdir, used, code, started, runnable>>
    BY <1>a, <2>3, BootAssumption
  <2>q. QED
    BY <1>1, <2>1, <2>2, <2>3 DEF Boot!Kinit1, Boot!Freerange
<1>2. CASE Boot!Kvmalloc
  <2>1. CASE Boot!Kalloc(boot, "kvmalloc", "kvmalloc+")
    BY <1>a, <2>1, BootAssumption DEF Boot!Kalloc
  <2>2. CASE bpc[boot] = "kvmalloc+" /\ Boot!Allocated(boot, "kernel")
             /\ pgdir' = [pgdir EXCEPT ![boot] = "kpgdir"] /\ Boot!Goto(boot, "startothers")
             /\ UNCHANGED <<bstack, code, started, i, runnable>> /\ Boot!Idle
    BY <1>a, <2>2, BootAssumption DEF Boot!Allocated
  <2>q. QED
    BY <1>2, <2>1, <2>2 DEF Boot!Kvmalloc
<1>3. CASE Boot!Startothers
  <2>1. CASE ~Boot!Skip /\ i < Len(cpus) /\ Boot!Kalloc(boot, "startothers", "startothers+")
    BY <1>a, <2>1, BootAssumption DEF Boot!Skip, Boot!Kalloc
  <2>2. CASE bpc[boot] = "startothers+" /\ Boot!Allocated(boot, "stack") /\ code' = br[boot].page
             /\ Boot!Goto(boot, "lapicstartap") /\ UNCHANGED <<bstack, pgdir, started, i, runnable>> /\ Boot!Idle
    <3>1. /\ br[boot].page \in Boot!Pages /\ used[br[boot].page] = "free" /\ boot \in Apics /\ br[boot].page <= Low
      BY <1>a, <2>2, BootAssumption DEF ListIsHeld, HandsFollow, Given
    <3>2. used' = [used EXCEPT ![br[boot].page] = "stack"] /\ boot' = boot /\ bstack' = bstack
      BY <1>a, <2>2 DEF Boot!Allocated
    <3>3. \A p \in Boot!Pages : used[p] = "stack" => used'[p] = "stack" /\ p # br[boot].page
      BY <1>a, <3>1, <3>2
    <3>4. \A d \in Apics : bstack'[d] # Boot!None => bstack'[d] \in Boot!Pages /\ used'[bstack'[d]] = "stack" /\ bstack'[d] # br[boot].page
      BY <1>a, <3>2, <3>3
    <3>5. /\ code' = br[boot].page /\ used'[code'] = "stack" /\ code' # Boot!None /\ code' <= Low
      BY <1>a, <2>2, <3>1, <3>2, BootAssumption
    <3>6. \A d \in Apics : bstack'[d] # code'
      BY <1>a, <3>1, <3>4, <3>5
    <3>7. bpc' = [bpc EXCEPT ![boot] = "lapicstartap"] /\ bpc[boot] = "startothers+"
      BY <2>2
    <3>8. \A d \in Apics : bpc'[d] \notin {"entryother", "entryother+"}
      BY <1>a, <3>7
    <3>9. \A d \in Apics : bpc'[d] = "halted" => bstack'[d] = Boot!None
      BY <1>a, <3>2, <3>7
    <3>q. QED
      BY <1>a, <3>2, <3>4, <3>5, <3>6, <3>7, <3>8, <3>9
  <2>3. CASE bpc[boot] = "startothers" /\ Boot!Skip /\ i' = i + 1
             /\ UNCHANGED <<kmem, next, bpc, br, bstack, pgdir, used, code, started, runnable>> /\ Boot!Idle
    BY <1>a, <2>3, BootAssumption DEF Boot!Skip
  <2>4. CASE bpc[boot] = "startothers" /\ i = Len(cpus) /\ i' = 0 /\ Boot!Goto(boot, "kinit2")
             /\ UNCHANGED <<kmem, next, br, bstack, pgdir, used, code, started, runnable>> /\ Boot!Idle
    BY <1>a, <2>4, BootAssumption
  <2>q. QED
    BY <1>3, <2>1, <2>2, <2>3, <2>4 DEF Boot!Startothers
<1>4. CASE Boot!lapicstartap
  BY <1>a, <1>4, BootAssumption DEF Boot!lapicstartap
<1>5. CASE Boot!AwaitStarted
  BY <1>a, <1>5, BootAssumption DEF Boot!AwaitStarted
<1>6. CASE Boot!Kinit2
  <2>1. CASE bpc[boot] = "kinit2" /\ Low + 1 + i <= Low + High /\ Boot!Kfree(boot, "kinit2", Low + 1 + i, "kinit2+") /\ i' = i + 1
    BY <1>a, <2>1, BootAssumption DEF Boot!Kfree
  <2>2. CASE bpc[boot] = "kinit2+" /\ Boot!Freed(boot) /\ Boot!Goto(boot, "kinit2") /\ Boot!Idle
             /\ UNCHANGED <<bstack, pgdir, code, started, i, runnable>>
    BY <1>a, <2>2, BootAssumption DEF Boot!Freed
  <2>3. CASE bpc[boot] = "kinit2" /\ Low + 1 + i > Low + High /\ Boot!Goto(boot, "userinit") /\ kmem' = [kmem EXCEPT !.use_lock = TRUE] /\ i' = 0 /\ Boot!Idle
             /\ UNCHANGED <<next, br, bstack, pgdir, used, code, started, runnable>>
    BY <1>a, <2>3, BootAssumption
  <2>q. QED
    BY <1>6, <2>1, <2>2, <2>3 DEF Boot!Kinit2, Boot!Freerange
<1>7. CASE Boot!Userinit
  <2>1. CASE Boot!Kalloc(boot, "userinit", "userinit+")
    BY <1>a, <2>1, BootAssumption DEF Boot!Kalloc
  <2>2. CASE bpc[boot] = "userinit+" /\ Boot!Allocated(boot, "process") /\ runnable' = 1
             /\ Boot!Goto(boot, "mpmain") /\ UNCHANGED <<bstack, pgdir, code, started, i>> /\ Boot!Idle
    <3>1. /\ br[boot].page \in Boot!Pages /\ used[br[boot].page] = "free" /\ boot \in Apics
      BY <1>a, <2>2, BootAssumption DEF ListIsHeld, HandsFollow, Given
    <3>2. used' = [used EXCEPT ![br[boot].page] = "process"] /\ boot' = boot /\ bstack' = bstack
      BY <1>a, <2>2 DEF Boot!Allocated
    <3>3. \A p \in Boot!Pages : used[p] = "stack" => used'[p] = "stack" /\ p # br[boot].page
      BY <1>a, <3>1, <3>2
    <3>4. \A d \in Apics : bstack'[d] # Boot!None => bstack'[d] \in Boot!Pages /\ used'[bstack'[d]] = "stack" /\ bstack'[d] # br[boot].page
      BY <1>a, <3>2, <3>3
    <3>7. bpc' = [bpc EXCEPT ![boot] = "mpmain"] /\ bpc[boot] = "userinit+"
      BY <2>2
    <3>8. /\ bpc'[boot] = "mpmain"
          /\ \A d \in Apics : bpc'[d] \notin {"entryother", "entryother+"}
      BY <1>a, <3>7
    <3>9. \A d \in Apics : bpc'[d] = "halted" => bstack'[d] = Boot!None
      BY <1>a, <3>2, <3>7
    <3>q. QED
      BY <1>a, <3>2, <3>4, <3>8, <3>9
  <2>q. QED
    BY <1>7, <2>1, <2>2 DEF Boot!Userinit
<1>8. ASSUME NEW c \in Apics, Boot!Entryother(c) PROVE StacksFollow'
  <2>1. CASE bpc[c] = "entryother" /\ pgdir' = [pgdir EXCEPT ![c] = "entrypgdir"] /\ Boot!Goto(c, "entryother+")
             /\ UNCHANGED <<kmem, next, br, bstack, used, code, started, i, runnable>> /\ Boot!Idle
    BY <1>a, <2>1, BootAssumption
  <2>2. CASE bpc[c] = "entryother+" /\ bstack' = [bstack EXCEPT ![c] = code] /\ Boot!Goto(c, "mpenter")
             /\ UNCHANGED <<kmem, next, br, pgdir, used, code, started, i, runnable>> /\ Boot!Idle
    BY <1>a, <2>2, BootAssumption
  <2>q. QED
    BY <1>8, <2>1, <2>2 DEF Boot!Entryother
<1>9. ASSUME NEW c \in Apics, Boot!Mpenter(c) PROVE StacksFollow'
  BY <1>a, <1>9, BootAssumption DEF Boot!Mpenter
<1>10. ASSUME NEW c \in Apics, Boot!Mpmain(c) PROVE StacksFollow'
  BY <1>a, <1>10, BootAssumption DEF Boot!Mpmain
<1>11. ASSUME NEW c \in Apics, Boot!Scheduler(c) PROVE StacksFollow'
  <2>1. CASE bpc[c] = "scheduler" /\ runnable > 0 /\ runnable' = runnable - 1 /\ Boot!Goto(c, "process")
             /\ UNCHANGED <<kmem, next, br, bstack, pgdir, used, code, started, i>> /\ Boot!Idle
    BY <1>a, <2>1, BootAssumption
  <2>2. CASE bpc[c] = "process" /\ runnable' = runnable + 1 /\ Boot!Goto(c, "scheduler")
             /\ UNCHANGED <<kmem, next, br, bstack, pgdir, used, code, started, i>> /\ Boot!Idle
    BY <1>a, <2>2, BootAssumption
  <2>q. QED
    BY <1>11, <2>1, <2>2 DEF Boot!Scheduler
<1>12. ASSUME NEW c \in Apics, Boot!Process(c) PROVE StacksFollow'
  <2>1. CASE runnable + Boot!Cardinality(Boot!Running) < NPROC /\ Boot!Kalloc(c, "process", "fork")
    BY <1>a, <2>1, BootAssumption DEF Boot!Kalloc
  <2>2. CASE bpc[c] = "fork" /\ Boot!Allocated(c, "process") /\ runnable' = runnable + 1
             /\ Boot!Goto(c, "process") /\ UNCHANGED <<bstack, pgdir, code, started, i>> /\ Boot!Idle
    BY <1>a, <2>2, BootAssumption DEF Boot!Allocated
  <2>3. ASSUME NEW page \in Boot!Pages, used[page] = "process", Boot!Kfree(c, "process", page, "free"), UNCHANGED i PROVE StacksFollow'
    BY <1>a, <2>3, BootAssumption DEF Boot!Kfree
  <2>4. CASE bpc[c] = "free" /\ Boot!Freed(c) /\ Boot!Goto(c, "process")
             /\ UNCHANGED <<bstack, pgdir, code, started, i, runnable>> /\ Boot!Idle
    BY <1>a, <2>4, BootAssumption DEF Boot!Freed
  <2>q. QED
    BY <1>12, <2>1, <2>2, <2>3, <2>4 DEF Boot!Process, Boot!Running
<1>13. CASE UNCHANGED Boot!vars
  BY <1>a, <1>13 DEF Boot!vars
<1>q. QED
  BY <1>1, <1>2, <1>3, <1>4, <1>5, <1>6, <1>7, <1>8, <1>9, <1>10, <1>11, <1>12, <1>13 DEF Boot!Next

LEMMA TablesStep == BootInv /\ [Boot!Next]_(Boot!vars) => TablesFollow'
<1> SUFFICES ASSUME BootInv, [Boot!Next]_(Boot!vars) PROVE TablesFollow'
  OBVIOUS
<1> USE DEF BootTypeOK, MainIsFirst, TablesFollow, Alone, Early, Allocating, Freeing, InScheduler,
     Boot!Goto, Boot!Idle, Boot!CanEnter
<1>a. BootTypeOK /\ MainIsFirst /\ TablesFollow
  BY DEF BootInv
<1>1. CASE Boot!Kinit1
  <2>1. CASE bpc[boot] = "kinit1" /\ 1 + i <= Low /\ Boot!Kfree(boot, "kinit1", 1 + i, "kinit1+") /\ i' = i + 1
    BY <1>a, <2>1, BootAssumption DEF Boot!Kfree
  <2>2. CASE bpc[boot] = "kinit1+" /\ Boot!Freed(boot) /\ Boot!Goto(boot, "kinit1") /\ Boot!Idle
             /\ UNCHANGED <<bstack, pgdir, code, started, i, runnable>>
    BY <1>a, <2>2, BootAssumption DEF Boot!Freed
  <2>3. CASE bpc[boot] = "kinit1" /\ 1 + i > Low /\ Boot!Goto(boot, "kvmalloc") /\ UNCHANGED kmem /\ i' = 0 /\ Boot!Idle
             /\ UNCHANGED <<next, br, bstack, pgdir, used, code, started, runnable>>
    BY <1>a, <2>3, BootAssumption
  <2>q. QED
    BY <1>1, <2>1, <2>2, <2>3 DEF Boot!Kinit1, Boot!Freerange
<1>2. CASE Boot!Kvmalloc
  <2>1. CASE Boot!Kalloc(boot, "kvmalloc", "kvmalloc+")
    BY <1>a, <2>1, BootAssumption DEF Boot!Kalloc
  <2>2. CASE bpc[boot] = "kvmalloc+" /\ Boot!Allocated(boot, "kernel")
             /\ pgdir' = [pgdir EXCEPT ![boot] = "kpgdir"] /\ Boot!Goto(boot, "startothers")
             /\ UNCHANGED <<bstack, code, started, i, runnable>> /\ Boot!Idle
    BY <1>a, <2>2, BootAssumption DEF Boot!Allocated
  <2>q. QED
    BY <1>2, <2>1, <2>2 DEF Boot!Kvmalloc
<1>3. CASE Boot!Startothers
  <2>1. CASE ~Boot!Skip /\ i < Len(cpus) /\ Boot!Kalloc(boot, "startothers", "startothers+")
    BY <1>a, <2>1, BootAssumption DEF Boot!Skip, Boot!Kalloc
  <2>2. CASE bpc[boot] = "startothers+" /\ Boot!Allocated(boot, "stack") /\ code' = br[boot].page
             /\ Boot!Goto(boot, "lapicstartap") /\ UNCHANGED <<bstack, pgdir, started, i, runnable>> /\ Boot!Idle
    BY <1>a, <2>2, BootAssumption DEF Boot!Allocated
  <2>3. CASE bpc[boot] = "startothers" /\ Boot!Skip /\ i' = i + 1
             /\ UNCHANGED <<kmem, next, bpc, br, bstack, pgdir, used, code, started, runnable>> /\ Boot!Idle
    BY <1>a, <2>3, BootAssumption DEF Boot!Skip
  <2>4. CASE bpc[boot] = "startothers" /\ i = Len(cpus) /\ i' = 0 /\ Boot!Goto(boot, "kinit2")
             /\ UNCHANGED <<kmem, next, br, bstack, pgdir, used, code, started, runnable>> /\ Boot!Idle
    BY <1>a, <2>4, BootAssumption
  <2>q. QED
    BY <1>3, <2>1, <2>2, <2>3, <2>4 DEF Boot!Startothers
<1>4. CASE Boot!lapicstartap
  BY <1>a, <1>4, BootAssumption DEF Boot!lapicstartap
<1>5. CASE Boot!AwaitStarted
  BY <1>a, <1>5, BootAssumption DEF Boot!AwaitStarted
<1>6. CASE Boot!Kinit2
  <2>1. CASE bpc[boot] = "kinit2" /\ Low + 1 + i <= Low + High /\ Boot!Kfree(boot, "kinit2", Low + 1 + i, "kinit2+") /\ i' = i + 1
    BY <1>a, <2>1, BootAssumption DEF Boot!Kfree
  <2>2. CASE bpc[boot] = "kinit2+" /\ Boot!Freed(boot) /\ Boot!Goto(boot, "kinit2") /\ Boot!Idle
             /\ UNCHANGED <<bstack, pgdir, code, started, i, runnable>>
    BY <1>a, <2>2, BootAssumption DEF Boot!Freed
  <2>3. CASE bpc[boot] = "kinit2" /\ Low + 1 + i > Low + High /\ Boot!Goto(boot, "userinit") /\ kmem' = [kmem EXCEPT !.use_lock = TRUE] /\ i' = 0 /\ Boot!Idle
             /\ UNCHANGED <<next, br, bstack, pgdir, used, code, started, runnable>>
    BY <1>a, <2>3, BootAssumption
  <2>q. QED
    BY <1>6, <2>1, <2>2, <2>3 DEF Boot!Kinit2, Boot!Freerange
<1>7. CASE Boot!Userinit
  <2>1. CASE Boot!Kalloc(boot, "userinit", "userinit+")
    BY <1>a, <2>1, BootAssumption DEF Boot!Kalloc
  <2>2. CASE bpc[boot] = "userinit+" /\ Boot!Allocated(boot, "process") /\ runnable' = 1
             /\ Boot!Goto(boot, "mpmain") /\ UNCHANGED <<bstack, pgdir, code, started, i>> /\ Boot!Idle
    BY <1>a, <2>2, BootAssumption DEF Boot!Allocated
  <2>q. QED
    BY <1>7, <2>1, <2>2 DEF Boot!Userinit
<1>8. ASSUME NEW c \in Apics, Boot!Entryother(c) PROVE TablesFollow'
  <2>1. CASE bpc[c] = "entryother" /\ pgdir' = [pgdir EXCEPT ![c] = "entrypgdir"] /\ Boot!Goto(c, "entryother+")
             /\ UNCHANGED <<kmem, next, br, bstack, used, code, started, i, runnable>> /\ Boot!Idle
    BY <1>a, <2>1, BootAssumption
  <2>2. CASE bpc[c] = "entryother+" /\ bstack' = [bstack EXCEPT ![c] = code] /\ Boot!Goto(c, "mpenter")
             /\ UNCHANGED <<kmem, next, br, pgdir, used, code, started, i, runnable>> /\ Boot!Idle
    BY <1>a, <2>2, BootAssumption
  <2>q. QED
    BY <1>8, <2>1, <2>2 DEF Boot!Entryother
<1>9. ASSUME NEW c \in Apics, Boot!Mpenter(c) PROVE TablesFollow'
  BY <1>a, <1>9, BootAssumption DEF Boot!Mpenter
<1>10. ASSUME NEW c \in Apics, Boot!Mpmain(c) PROVE TablesFollow'
  BY <1>a, <1>10, BootAssumption DEF Boot!Mpmain
<1>11. ASSUME NEW c \in Apics, Boot!Scheduler(c) PROVE TablesFollow'
  <2>1. CASE bpc[c] = "scheduler" /\ runnable > 0 /\ runnable' = runnable - 1 /\ Boot!Goto(c, "process")
             /\ UNCHANGED <<kmem, next, br, bstack, pgdir, used, code, started, i>> /\ Boot!Idle
    BY <1>a, <2>1, BootAssumption
  <2>2. CASE bpc[c] = "process" /\ runnable' = runnable + 1 /\ Boot!Goto(c, "scheduler")
             /\ UNCHANGED <<kmem, next, br, bstack, pgdir, used, code, started, i>> /\ Boot!Idle
    BY <1>a, <2>2, BootAssumption
  <2>q. QED
    BY <1>11, <2>1, <2>2 DEF Boot!Scheduler
<1>12. ASSUME NEW c \in Apics, Boot!Process(c) PROVE TablesFollow'
  <2>1. CASE runnable + Boot!Cardinality(Boot!Running) < NPROC /\ Boot!Kalloc(c, "process", "fork")
    BY <1>a, <2>1, BootAssumption DEF Boot!Kalloc
  <2>2. CASE bpc[c] = "fork" /\ Boot!Allocated(c, "process") /\ runnable' = runnable + 1
             /\ Boot!Goto(c, "process") /\ UNCHANGED <<bstack, pgdir, code, started, i>> /\ Boot!Idle
    BY <1>a, <2>2, BootAssumption DEF Boot!Allocated
  <2>3. ASSUME NEW page \in Boot!Pages, used[page] = "process", Boot!Kfree(c, "process", page, "free"), UNCHANGED i PROVE TablesFollow'
    BY <1>a, <2>3, BootAssumption DEF Boot!Kfree
  <2>4. CASE bpc[c] = "free" /\ Boot!Freed(c) /\ Boot!Goto(c, "process")
             /\ UNCHANGED <<bstack, pgdir, code, started, i, runnable>> /\ Boot!Idle
    BY <1>a, <2>4, BootAssumption DEF Boot!Freed
  <2>q. QED
    BY <1>12, <2>1, <2>2, <2>3, <2>4 DEF Boot!Process, Boot!Running
<1>13. CASE UNCHANGED Boot!vars
  BY <1>a, <1>13 DEF Boot!vars
<1>q. QED
  BY <1>1, <1>2, <1>3, <1>4, <1>5, <1>6, <1>7, <1>8, <1>9, <1>10, <1>11, <1>12, <1>13 DEF Boot!Next

\* mpinit has found at least the first CPU, which is to fill the allocator.
LEMMA BootInit == Boot!Init => BootInv
<1> SUFFICES ASSUME Boot!Init PROVE BootInv
  OBVIOUS
<1>1. cpus \in Seq(Apics) /\ boot \in Apics
  <2>1. PICK table \in Boot!Orders : cpus = Boot!mpinit(table)
    BY DEF Boot!Init
  <2>2. Boot!Cardinality(Apics) \in Nat
    BY BootAssumption, FS_CardinalityType DEF Boot!Cardinality, Cardinality
  <2>3. table \in Seq(Apics)
    BY <2>1, <2>2 DEF Boot!Orders
  <2>4. cpus \in Seq(Apics)
    BY <2>1, <2>3, BootAssumption DEF Boot!mpinit
  <2>q. QED
    BY <2>4 DEF Boot!Init, Boot!Range
<1>2. /\ kmem = [use_lock |-> FALSE, lock |-> Boot!None, freelist |-> Boot!None]
      /\ next = [p \in Boot!Pages |-> Boot!None]
      /\ bpc = [c \in Apics |-> IF c = boot THEN "kinit1" ELSE "halted"]
      /\ br = [c \in Apics |-> Boot!NoPage] /\ bstack = [c \in Apics |-> Boot!None]
      /\ pgdir = [c \in Apics |-> IF c = boot THEN "entrypgdir" ELSE "none"]
      /\ used = [p \in Boot!Pages |-> "free"] /\ code = Boot!None /\ started = {} /\ i = 0 /\ runnable = 0
  BY DEF Boot!Init
<1> USE DEF Alone, Early, Allocating, Freeing, InScheduler, Boot!NoPage
<1>3. BootTypeOK
  BY <1>1, <1>2 DEF BootTypeOK
<1>4. MainIsFirst /\ ListIsHeld /\ TablesFollow
  BY <1>1, <1>2, BootAssumption DEF MainIsFirst, ListIsHeld, TablesFollow
<1>5. ListIsSound
  BY <1>1, <1>2, NoneIsNoPage DEF ListIsSound, Listed, Given
<1>6. HandsFollow /\ StacksFollow
  BY <1>1, <1>2 DEF HandsFollow, StacksFollow
<1>q. QED
  BY <1>3, <1>4, <1>5, <1>6 DEF BootInv

LEMMA BootInvariance == BootInv /\ [Boot!Next]_(Boot!vars) => BootInv'
  BY BootTypes, MainStep, HeldStep, ListStep, HandsStep, StacksStep, TablesStep DEF BootInv

LEMMA BootHolds == BootInv => Boot!CpusKeepApart
<1> SUFFICES ASSUME BootInv PROVE Boot!CpusKeepApart
  OBVIOUS
<1>1. BootTypeOK /\ MainIsFirst /\ ListIsHeld /\ HandsFollow /\ StacksFollow /\ TablesFollow
  BY DEF BootInv
<1>2. \A c, d \in Apics : bstack[c] # Boot!None => used[bstack[c]] = "stack" /\ (bstack[c] = bstack[d] => c = d)
  BY <1>1 DEF StacksFollow
<1>3. ASSUME NEW c \in Apics, pgdir[c] = "entrypgdir"
      PROVE  {bstack[c], br[c].page} \subseteq Boot!LowPages \cup {Boot!None}
  <2>1. bstack[c] \in Boot!LowPages \cup {Boot!None}
    BY <1>1, BootAssumption DEF StacksFollow, BootTypeOK, Boot!Pages, Boot!LowPages
  <2>2. CASE c = boot
    <3>1. bpc[boot] \in {"kinit1", "kinit1+", "kvmalloc", "kvmalloc+"}
      BY <1>1, <1>3, <2>2 DEF TablesFollow
    <3>2. Given <= Low /\ Given \in Int
      BY <1>1, <3>1, BootAssumption DEF Given, MainIsFirst, BootTypeOK, Alone
    <3>3. br[c].page # Boot!None => br[c].page <= Given
      BY <1>1 DEF HandsFollow
    <3>4. br[c].page \in Boot!LowPages \cup {Boot!None}
      BY <1>1, <3>2, <3>3, BootAssumption DEF BootTypeOK, Boot!Pages, Boot!LowPages
    <3>q. QED
      BY <2>1, <3>4
  <2>3. CASE c # boot
    <3>1. bpc[c] \in {"entryother+", "mpenter"}
      BY <1>1, <1>3, <2>3 DEF TablesFollow
    <3>2. br[c].page = Boot!None
      BY <1>1, <3>1 DEF ListIsHeld, Allocating, Freeing
    <3>q. QED
      BY <2>1, <3>2
  <2>q. QED
    BY <2>2, <2>3
<1>4. \A c \in Apics : br[c].page # Boot!None =>
        used[br[c].page] = "free" /\ \A d \in Apics : br[d].page = br[c].page => c = d
  BY <1>1 DEF HandsFollow, ListIsHeld
<1>q. QED
  BY <1>2, <1>3, <1>4 DEF Boot!CpusKeepApart

-----------------------------------------------------------------------------
(* The start of the CPUs as a part of the kernel *)

BootPart == part = "boot" => BootInv

LEMMA BootPartInvariance == KernelSpec => []BootPart
<1>1. KernelInit => BootPart
  BY BootInit DEF KernelInit, BootPart
<1>2. BootPart /\ [KernelNext]_kernel => BootPart'
  <2> SUFFICES ASSUME BootPart, [KernelNext]_kernel, part' = "boot" PROVE BootInv'
    BY DEF BootPart
  <2>1. part = "boot" /\ [Boot!Next]_(Boot!vars)
    BY DEF KernelNext, kernel, booting, Boot!vars
  <2>q. QED
    BY <2>1, BootInvariance DEF BootPart
<1>q. QED
  BY <1>1, <1>2, PTL DEF KernelSpec

\* However many CPUs main.c starts, and in whatever order the table lists them:
\* no two share a stack, none gets a page that its page table does not map, and
\* nobody else has the page that kalloc or kfree has in its hands.
THEOREM CpusAreApart == KernelSpec => []CpusKeepApart
<1>1. BootPart => CpusKeepApart
  BY BootHolds DEF BootPart, CpusKeepApart
<1>q. QED
  BY <1>1, BootPartInvariance, PTL
-----------------------------------------------------------------------------
(* The pages and the calls of Memory *)

Contained == Values \cup {Memory!Zero, Memory!Text, Memory!Junk}
PageOrNone == Memory!Pages \cup {Memory!None}
TableT == [Memory!Tables -> PageOrNone]
PteT == [pa : PageOrNone, user : BOOLEAN]
PtesT == [Memory!VPages -> PteT]
Spaces == [dir : PageOrNone, kern : PageOrNone, table : TableT, pte : PtesT]
States == {"unused", "embryo", "running", "zombie"}
Pcs == {"user", "kstack", "dir", "kern", "page", "map"}
Calls == {"none", "fork", "exec", "sbrk"}
Slots == Memory!Procs \cup {0}
ProcT == [state : States, parent : Slots, sz : Nat, kstack : PageOrNone, pc : Pcs,
          call : Calls, at : Nat, to : Nat, mem : PageOrNone, child : Slots]

MemTypes ==
  /\ free \subseteq Memory!Pages
  /\ data \in [Memory!Pages -> Contained]
  /\ space \in [Memory!Procs -> Spaces] /\ new \in [Memory!Procs -> Spaces]
  /\ proc \in [Memory!Procs -> ProcT]

\* Which user pages are there.
UpTo(s, k) == \A v \in Memory!VPages : Memory!Present(s, v) <=> v < k
OnlyPresent(s) == \A v \in Memory!VPages : ~Memory!Present(s, v) => ~s.pte[v].user

\* The call a process is in, and what it has made so far; x, s and n are its
\* entries in proc, space and new.
Stage(x, n) ==
  /\ x.state # "running" => x.call = "none"
  /\ x.call = "none" <=> x.pc = "user"
  /\ x.pc = "kstack" => x.call = "fork"
  /\ x.pc \in {"dir", "kern"} => x.call \in {"fork", "exec"}
  /\ x.pc = "map" <=> x.mem # Memory!None
  /\ x.call = "fork" <=> x.child # 0
  /\ x.pc \in {"user", "kstack", "dir", "kern"} => x.at = 0
  /\ x.call \notin {"fork", "exec"} \/ x.pc \in {"kstack", "dir"} => n = Memory!NoSpace
  /\ x.pc = "kern" => n.kern = Memory!None
  /\ x.call = "fork" => x.to = x.sz
  /\ x.call = "exec" => x.to = (ImageSize + 2) * PGSIZE
  /\ x.call # "none" => x.to < KERNBASE
  /\ x.sz < KERNBASE
  /\ x.pc = "map" => x.at < Memory!PGROUNDUP(x.to)
  /\ x.pc = "page" => x.at <= Memory!PGROUNDUP(x.to)
Fit(x, s, n) ==
  /\ x.state = "running" /\ x.call # "sbrk" => UpTo(s, Memory!PGROUNDUP(x.sz))
       \/ (x.call = "none" /\ UpTo(s, 0))
  /\ x.call = "sbrk" => UpTo(s, x.at) /\ Memory!PGROUNDUP(x.sz) <= x.at /\ x.sz <= x.to
  /\ x.call \in {"fork", "exec"} => UpTo(n, x.at)
  /\ OnlyPresent(s) /\ OnlyPresent(n)
Absent(x, s) ==
  /\ x.state = "unused" => x = Memory!Idle
  /\ x.state \in {"unused", "embryo"} => s = Memory!NoSpace
  /\ x.state \in {"running", "zombie"} => x.kstack # Memory!None

\* In an address space each page has one use.
KernPages(s) == ({s.dir, s.kern} \cup {s.table[t] : t \in Memory!Tables}) \ {Memory!None}
PtePages(s) == {s.pte[v].pa : v \in Memory!VPages} \ {Memory!None}
Inside(s) ==
  /\ KernPages(s) \cap PtePages(s) = {}
  /\ \A v, v2 \in Memory!VPages : v # v2 /\ Memory!Present(s, v) => s.pte[v].pa # s.pte[v2].pa

Local(x, s, n) == Stage(x, n) /\ Fit(x, s, n) /\ Absent(x, s) /\ Inside(s) /\ Inside(n)
Locals == \A p \in Memory!Procs : Local(proc[p], space[p], new[p])

\* A fork has a child of its own.
Children ==
  \A p \in Memory!Procs : proc[p].child # 0 =>
       /\ proc[proc[p].child].state = "embryo"
       /\ proc[proc[p].child].kstack = Memory!None <=> proc[p].pc = "kstack"
       /\ \A q \in Memory!Procs : proc[q].child = proc[p].child => q = p

\* The holders of pages, and what they hold.
G == [h \in Memory!Holders |-> Memory!Held(h)]
Sound(f, g) ==
  /\ \A h \in Memory!Holders : f \cap g[h] = {}
  /\ \A h, hh \in Memory!Holders : h # hh => g[h] \cap g[hh] = {}
Whole(f, g) == f \cup UNION {g[h] : h \in Memory!Holders}

MemInv == MemTypes /\ Locals /\ Children /\ Sound(free, G) /\ panic = FALSE
-----------------------------------------------------------------------------
(* Arithmetic *)

LEMMA DivMod ==
  ASSUME NEW a \in Int, NEW b \in Nat \ {0}
  PROVE  /\ a \div b \in Int /\ a % b \in 0..(b - 1)
         /\ a = b * (a \div b) + (a % b)
  BY SMT

LEMMA DivBelow ==
  ASSUME NEW a \in Int, NEW b \in Nat \ {0}, NEW k \in Int
  PROVE  k <= a \div b <=> k * b <= a
<1> DEFINE d == a \div b
<1>1. d \in Int /\ a % b \in 0..(b - 1) /\ a = b * d + (a % b)
  BY DivMod
<1>2. b * d <= a /\ a < b * d + b
  BY <1>1
<1>3. b * d + b = b * (d + 1)
  BY <1>1
<1>4. ASSUME k <= d PROVE k * b <= a
  <2>1. b * k <= b * d
    BY <1>1, <1>4
  <2>q. QED
    BY <1>1, <1>2, <2>1
<1>5. ASSUME ~(k <= d) PROVE ~(k * b <= a)
  <2>1. b * (d + 1) <= b * k
    BY <1>1, <1>5
  <2>q. QED
    BY <1>1, <1>2, <1>3, <2>1
<1>q. QED
  BY <1>4, <1>5

\* Page v begins below n exactly if it is among the first PGROUNDUP(n).
LEMMA RoundUp ==
  ASSUME NEW n \in Nat
  PROVE  Memory!PGROUNDUP(n) \in Nat /\ \A v \in Int : v < Memory!PGROUNDUP(n) <=> v * PGSIZE < n
<1>1. PGSIZE \in Nat \ {0} /\ n + PGSIZE - 1 \in Int
  BY MemoryAssumption
<1>2. Memory!PGROUNDUP(n) \in Int
  BY <1>1, DivMod DEF Memory!PGROUNDUP
<1>3. ASSUME NEW v \in Int PROVE v < Memory!PGROUNDUP(n) <=> v * PGSIZE < n
  <2>1. v + 1 <= Memory!PGROUNDUP(n) <=> (v + 1) * PGSIZE <= n + PGSIZE - 1
    BY <1>1, DivBelow DEF Memory!PGROUNDUP
  <2>2. (v + 1) * PGSIZE = v * PGSIZE + PGSIZE
    BY <1>1
  <2>3. v * PGSIZE \in Int
    BY <1>1
  <2>q. QED
    BY <1>1, <1>2, <2>1, <2>2, <2>3
<1>4. -1 < Memory!PGROUNDUP(n)
  BY <1>1, <1>3
<1>q. QED
  BY <1>2, <1>3, <1>4

LEMMA RoundUpGrows ==
  ASSUME NEW a \in Nat, NEW b \in Nat, a <= b
  PROVE  Memory!PGROUNDUP(a) <= Memory!PGROUNDUP(b)
<1>1. Memory!PGROUNDUP(a) \in Nat /\ Memory!PGROUNDUP(b) \in Nat
  BY RoundUp
<1>2. SUFFICES ASSUME Memory!PGROUNDUP(b) < Memory!PGROUNDUP(a) PROVE FALSE
  BY <1>1
<1>3. Memory!PGROUNDUP(b) * PGSIZE < a
  BY <1>1, <1>2, RoundUp
<1>4. ~(Memory!PGROUNDUP(b) * PGSIZE < b)
  BY <1>1, RoundUp
<1>5. Memory!PGROUNDUP(b) * PGSIZE \in Int
  BY <1>1, MemoryAssumption
<1>q. QED
  BY <1>3, <1>4, <1>5

\* The pages below a size that the user may have are pages of the user.
LEMMA BelowIsVPage ==
  ASSUME NEW n \in Nat, n < KERNBASE, NEW v \in Nat, v < Memory!PGROUNDUP(n)
  PROVE  v \in Memory!VPages /\ v \div PerTable \in Memory!Tables
<1>1. PGSIZE \in Nat \ {0} /\ PerTable \in Nat \ {0} /\ KERNBASE - 1 \in Int
  BY MemoryAssumption
<1>2. v * PGSIZE <= KERNBASE - 1
  <2>1. v * PGSIZE < n /\ v * PGSIZE \in Int
    BY RoundUp, <1>1
  <2>q. QED
    BY <2>1, MemoryAssumption
<1> DEFINE last == (KERNBASE - 1) \div PGSIZE
<1>3. last \in Int /\ v <= last
  BY <1>1, <1>2, DivBelow, DivMod
<1> HIDE DEF last
<1>4. v \in Memory!VPages
  BY <1>3 DEF Memory!VPages, last
<1> DEFINE t == v \div PerTable
<1>5. t \in Int /\ t * PerTable <= v
  <2>1. t \in Int
    BY <1>1, DivMod
  <2>2. t <= t <=> t * PerTable <= v
    BY <1>1, <2>1, DivBelow
  <2>q. QED
    BY <2>1, <2>2
<1>6. 0 <= t
  <2>1. 0 <= t <=> 0 * PerTable <= v
    BY <1>1, DivBelow
  <2>q. QED
    BY <1>1, <2>1
<1>7. t <= last \div PerTable /\ last \div PerTable \in Int
  <2>1. t * PerTable \in Int /\ t * PerTable <= last
    BY <1>1, <1>3, <1>5
  <2>q. QED
    BY <1>1, <1>3, <1>5, <2>1, DivBelow, DivMod
<1>8. t \in Memory!Tables
  BY <1>5, <1>6, <1>7 DEF Memory!Tables, last
<1>q. QED
  BY <1>4, <1>8
-----------------------------------------------------------------------------
(* Address spaces *)

LEMMA NoPageIsNone == Memory!None \notin Memory!Pages
  BY DEF Memory!None, Memory!Pages

LEMMA SpaceParts ==
  ASSUME NEW s \in Spaces
  PROVE  /\ s.dir \in PageOrNone /\ s.kern \in PageOrNone /\ s.table \in TableT /\ s.pte \in PtesT
         /\ \A t \in Memory!Tables : s.table[t] \in PageOrNone
         /\ \A v \in Memory!VPages : s.pte[v] \in PteT /\ s.pte[v].pa \in PageOrNone
              /\ s.pte[v].user \in BOOLEAN
<1>1. s.dir \in PageOrNone /\ s.kern \in PageOrNone /\ s.table \in TableT /\ s.pte \in PtesT
  BY DEF Spaces
<1>q. QED
  BY <1>1 DEF TableT, PtesT, PteT

LEMMA OwnIs ==
  ASSUME NEW s \in Spaces
  PROVE  /\ Memory!OwnPages(s) = KernPages(s) \cup PtePages(s)
         /\ Memory!OwnPages(s) \subseteq Memory!Pages
         /\ \A v \in Memory!VPages : Memory!Present(s, v) => s.pte[v].pa \in PtePages(s)
         /\ \A pg \in PtePages(s) : \E v \in Memory!VPages : Memory!Present(s, v) /\ s.pte[v].pa = pg
<1>1. Memory!OwnPages(s) = KernPages(s) \cup PtePages(s)
  BY DEF Memory!OwnPages, KernPages, PtePages
<1>2. Memory!OwnPages(s) \subseteq PageOrNone \ {Memory!None}
  BY SpaceParts DEF Memory!OwnPages
<1>q. QED
  BY <1>1, <1>2 DEF PageOrNone, PtePages, Memory!Present

LEMMA NoSpaceIs ==
  /\ Memory!NoSpace \in Spaces /\ Memory!OwnPages(Memory!NoSpace) = {} /\ Inside(Memory!NoSpace)
  /\ UpTo(Memory!NoSpace, 0) /\ OnlyPresent(Memory!NoSpace) /\ Memory!NoSpace.dir = Memory!None
  /\ Memory!NoSpace.kern = Memory!None
<1>1. Memory!NoPte \in PteT /\ Memory!NoPte.pa = Memory!None /\ Memory!NoPte.user = FALSE
  BY DEF Memory!NoPte, PteT, PageOrNone
<1>2. [v \in Memory!VPages |-> Memory!NoPte] \in PtesT
        /\ [t \in Memory!Tables |-> Memory!None] \in TableT
  BY <1>1 DEF PtesT, TableT, PageOrNone
<1>3. Memory!NoSpace \in Spaces
  BY <1>2 DEF Memory!NoSpace, Spaces, PageOrNone
<1>4. /\ Memory!NoSpace.dir = Memory!None /\ Memory!NoSpace.kern = Memory!None
      /\ \A t \in Memory!Tables : Memory!NoSpace.table[t] = Memory!None
      /\ \A v \in Memory!VPages : Memory!NoSpace.pte[v] = Memory!NoPte
  BY DEF Memory!NoSpace
<1>5. \A v \in Memory!VPages : v \in Nat
  BY DEF Memory!VPages
<1>6. UpTo(Memory!NoSpace, 0) /\ OnlyPresent(Memory!NoSpace)
  BY <1>1, <1>4, <1>5 DEF UpTo, OnlyPresent, Memory!Present
<1>7. Memory!OwnPages(Memory!NoSpace) = {} /\ Inside(Memory!NoSpace)
  BY <1>1, <1>4 DEF Memory!OwnPages, Inside, KernPages, PtePages, Memory!Present
<1>q. QED
  BY <1>3, <1>4, <1>6, <1>7

\* A page for the directory or for a table of the kernel's or the user's part.
LEMMA KernGrows ==
  ASSUME NEW s \in Spaces, NEW z \in Spaces, NEW pg \in Memory!Pages, z.pte = s.pte,
         KernPages(z) = KernPages(s) \cup {pg}, pg \notin Memory!OwnPages(s), Inside(s)
  PROVE  /\ Memory!OwnPages(z) = Memory!OwnPages(s) \cup {pg} /\ Inside(z)
         /\ \A v \in Memory!VPages : Memory!Present(z, v) <=> Memory!Present(s, v)
         /\ OnlyPresent(s) => OnlyPresent(z)
<1>1. PtePages(z) = PtePages(s) /\ \A v \in Memory!VPages : Memory!Present(z, v)
        <=> Memory!Present(s, v)
  BY DEF PtePages, Memory!Present
<1>2. Memory!OwnPages(z) = Memory!OwnPages(s) \cup {pg}
  BY <1>1, OwnIs
<1>3. pg \notin PtePages(s)
  BY OwnIs
<1>4. Inside(z)
  BY <1>1, <1>3 DEF Inside
<1>q. QED
  BY <1>1, <1>2, <1>4 DEF OnlyPresent

LEMMA DirIsSet ==
  ASSUME NEW s \in Spaces, NEW pg \in Memory!Pages, s.dir = Memory!None
  PROVE  /\ [s EXCEPT !.dir = pg] \in Spaces /\ [s EXCEPT !.dir = pg].pte = s.pte
         /\ [s EXCEPT !.dir = pg].kern = s.kern
         /\ KernPages([s EXCEPT !.dir = pg]) = KernPages(s) \cup {pg}
<1> DEFINE z == [s EXCEPT !.dir = pg]
<1>1. z \in Spaces /\ z.pte = s.pte /\ z.dir = pg /\ z.kern = s.kern /\ z.table = s.table
  BY DEF Spaces, PageOrNone
<1> HIDE DEF z
<1>2. KernPages(z) = KernPages(s) \cup {pg}
  BY <1>1, NoPageIsNone DEF KernPages
<1>q. QED
  BY <1>1, <1>2 DEF z

LEMMA KernIsSet ==
  ASSUME NEW s \in Spaces, NEW pg \in Memory!Pages, s.kern = Memory!None
  PROVE  /\ [s EXCEPT !.kern = pg] \in Spaces /\ [s EXCEPT !.kern = pg].pte = s.pte
         /\ KernPages([s EXCEPT !.kern = pg]) = KernPages(s) \cup {pg}
<1> DEFINE z == [s EXCEPT !.kern = pg]
<1>1. z \in Spaces /\ z.pte = s.pte /\ z.dir = s.dir /\ z.kern = pg /\ z.table = s.table
  BY DEF Spaces, PageOrNone
<1> HIDE DEF z
<1>2. KernPages(z) = KernPages(s) \cup {pg}
  BY <1>1, NoPageIsNone DEF KernPages
<1>q. QED
  BY <1>1, <1>2 DEF z

LEMMA TableIsSet ==
  ASSUME NEW s \in Spaces, NEW pg \in Memory!Pages, NEW t \in Memory!Tables, s.table[t] = Memory!None
  PROVE  /\ [s EXCEPT !.table[t] = pg] \in Spaces /\ [s EXCEPT !.table[t] = pg].pte = s.pte
         /\ [s EXCEPT !.table[t] = pg].kern = s.kern
         /\ KernPages([s EXCEPT !.table[t] = pg]) = KernPages(s) \cup {pg}
<1> DEFINE z == [s EXCEPT !.table[t] = pg]
<1>0. s.table \in TableT
  BY SpaceParts
<1>1. z \in Spaces /\ z.pte = s.pte /\ z.dir = s.dir /\ z.kern = s.kern
        /\ z.table = [s.table EXCEPT ![t] = pg]
  <2>1. [s.table EXCEPT ![t] = pg] \in TableT
    BY <1>0 DEF TableT, PageOrNone
  <2>q. QED
    BY <2>1 DEF Spaces
<1> HIDE DEF z
<1>2. \A u \in Memory!Tables : z.table[u] = IF u = t THEN pg ELSE s.table[u]
  BY <1>0, <1>1 DEF TableT
<1>3. {z.table[u] : u \in Memory!Tables} \ {Memory!None}
         = ({s.table[u] : u \in Memory!Tables} \ {Memory!None}) \cup {pg}
  <2>1. ASSUME NEW y \in {z.table[u] : u \in Memory!Tables} \ {Memory!None}
               PROVE y \in ({s.table[u] : u \in Memory!Tables} \ {Memory!None}) \cup {pg}
    BY <1>2
  <2>2. ASSUME NEW y \in {s.table[u] : u \in Memory!Tables} \ {Memory!None}
               PROVE y \in {z.table[u] : u \in Memory!Tables} \ {Memory!None}
    <3>1. PICK u \in Memory!Tables : y = s.table[u] /\ u # t
      OBVIOUS
    <3>q. QED
      BY <1>2, <3>1
  <2>3. pg \in {z.table[u] : u \in Memory!Tables} \ {Memory!None}
    BY <1>2, NoPageIsNone
  <2>q. QED
    BY <2>1, <2>2, <2>3
<1>4. KernPages(z) = KernPages(s) \cup {pg}
  BY <1>1, <1>3, NoPageIsNone DEF KernPages
<1>q. QED
  BY <1>1, <1>4 DEF z

\* A page at v, where none is.
WithPte(z, s, pg, v, u, entry) == entry = [pa |-> pg, user |-> u] /\ z = [s EXCEPT !.pte[v] = entry]
LEMMA PteIsSet ==
  ASSUME NEW s \in Spaces, NEW pg \in Memory!Pages, NEW v \in Memory!VPages, NEW u \in BOOLEAN,
         ~Memory!Present(s, v), pg \notin Memory!OwnPages(s), Inside(s),
         NEW entry, NEW z, WithPte(z, s, pg, v, u, entry)
  PROVE  /\ z \in Spaces /\ Memory!OwnPages(z) = Memory!OwnPages(s) \cup {pg} /\ Inside(z)
         /\ \A y \in Memory!VPages : z.pte[y] = IF y = v THEN entry ELSE s.pte[y]
         /\ \A y \in Memory!VPages : Memory!Present(z, y) <=> y = v \/ Memory!Present(s, y)
         /\ OnlyPresent(s) => OnlyPresent(z)
         /\ z.kern = s.kern
<1>z. entry = [pa |-> pg, user |-> u] /\ z = [s EXCEPT !.pte[v] = entry]
  BY DEF WithPte
<1>0. s.pte \in PtesT
  BY SpaceParts
<1>1. entry \in PteT /\ entry.pa = pg
  BY <1>z DEF PteT, PageOrNone
<1>2. z \in Spaces /\ z.dir = s.dir /\ z.kern = s.kern /\ z.table = s.table
        /\ z.pte = [s.pte EXCEPT ![v] = entry]
  <2>1. [s.pte EXCEPT ![v] = entry] \in PtesT
    BY <1>0, <1>1 DEF PtesT
  <2>q. QED
    BY <1>z, <2>1 DEF Spaces
<1>3. \A y \in Memory!VPages : z.pte[y] = IF y = v THEN entry ELSE s.pte[y]
  BY <1>0, <1>2 DEF PtesT
<1>4. KernPages(z) = KernPages(s)
  BY <1>2 DEF KernPages
<1>5. \A y \in Memory!VPages : Memory!Present(z, y) <=> y = v \/ Memory!Present(s, y)
  BY <1>1, <1>3, NoPageIsNone DEF Memory!Present
<1>6. PtePages(z) = PtePages(s) \cup {pg}
  <2>1. ASSUME NEW a \in PtePages(z) PROVE a \in PtePages(s) \cup {pg}
    BY <1>1, <1>3 DEF PtePages
  <2>2. ASSUME NEW a \in PtePages(s) PROVE a \in PtePages(z)
    <3>1. PICK y \in Memory!VPages : a = s.pte[y].pa /\ a # Memory!None
      BY DEF PtePages
    <3>2. y # v
      BY <3>1 DEF Memory!Present
    <3>q. QED
      BY <1>3, <3>1, <3>2 DEF PtePages
  <2>3. pg \in PtePages(z)
    BY <1>1, <1>3, NoPageIsNone DEF PtePages
  <2>q. QED
    BY <2>1, <2>2, <2>3
<1>7. Memory!OwnPages(z) = Memory!OwnPages(s) \cup {pg}
  BY <1>2, <1>4, <1>6, OwnIs
<1>8. Inside(z)
  <2>1. KernPages(z) \cap PtePages(z) = {}
    BY <1>4, <1>6, OwnIs DEF Inside
  <2>2. ASSUME NEW y \in Memory!VPages, NEW v2 \in Memory!VPages, y # v2, Memory!Present(z, y)
               PROVE z.pte[y].pa # z.pte[v2].pa
    <3>1. Memory!Present(s, y) => s.pte[y].pa # pg
      BY OwnIs
    <3>2. Memory!Present(s, v2) => s.pte[v2].pa # pg
      BY OwnIs
    <3>3. ~Memory!Present(s, v2) => s.pte[v2].pa = Memory!None
      BY DEF Memory!Present
    <3>q. QED
      BY <1>1, <1>3, <1>5, <2>2, <3>1, <3>2, <3>3, NoPageIsNone DEF Inside
  <2>q. QED
    BY <2>1, <2>2 DEF Inside
<1>9. OnlyPresent(s) => OnlyPresent(z)
  BY <1>3, <1>5 DEF OnlyPresent
<1>q. QED
  BY <1>2, <1>3, <1>5, <1>7, <1>8, <1>9

\* deallocuvm takes the pages from one size up to the other out of the image.
LEMMA DeallocIs ==
  ASSUME NEW s \in Spaces, NEW a \in Nat, NEW b \in Nat, Inside(s)
  PROVE  LET z == Memory!Dealloc(s, a, b).space
             S == Memory!Dealloc(s, a, b).pages
         IN  /\ z \in Spaces /\ Memory!OwnPages(z) = Memory!OwnPages(s) \ S
             /\ S \subseteq Memory!OwnPages(s) /\ Inside(z)
             /\ \A v \in Memory!VPages : ~(Memory!PGROUNDUP(b) <= v /\ v < Memory!PGROUNDUP(a))
                  => z.pte[v] = s.pte[v]
             /\ \A v \in Memory!VPages : Memory!Present(z, v) <=> Memory!Present(s, v)
                  /\ ~(Memory!PGROUNDUP(b) <= v /\ v < Memory!PGROUNDUP(a))
             /\ OnlyPresent(s) => OnlyPresent(z)
             /\ Memory!None \notin S
<1> DEFINE gone == Memory!UserPages(s, Memory!FirstGone(b), Memory!PGROUNDUP(a))
           z == [s EXCEPT !.pte = [v \in Memory!VPages |-> IF v \in gone THEN Memory!NoPte ELSE @[v]]]
           S == {s.pte[v].pa : v \in gone}
<1>1. Memory!Dealloc(s, a, b) = [space |-> z, pages |-> S]
  BY DEF Memory!Dealloc
<1>2. Memory!NoPte \in PteT /\ Memory!NoPte.pa = Memory!None /\ Memory!NoPte.user = FALSE
  BY DEF Memory!NoPte, PteT, PageOrNone
<1>3. \A v \in Memory!VPages : v \in gone <=> Memory!PGROUNDUP(b) <= v /\ v < Memory!PGROUNDUP(a)
        /\ Memory!Present(s, v)
  BY DEF Memory!UserPages, Memory!FirstGone
<1>4. gone \subseteq Memory!VPages
  BY DEF Memory!UserPages
<1> HIDE DEF gone
<1>5. z \in Spaces /\ z.dir = s.dir /\ z.kern = s.kern /\ z.table = s.table
      /\ z.pte = [v \in Memory!VPages |-> IF v \in gone THEN Memory!NoPte ELSE s.pte[v]]
  <2>1. [v \in Memory!VPages |-> IF v \in gone THEN Memory!NoPte ELSE s.pte[v]] \in PtesT
    BY <1>2, SpaceParts DEF PtesT
  <2>q. QED
    BY <2>1 DEF Spaces
<1> HIDE DEF z
<1>6. \A v \in Memory!VPages : z.pte[v] = IF v \in gone THEN Memory!NoPte ELSE s.pte[v]
  BY <1>5
<1>7. KernPages(z) = KernPages(s)
  BY <1>5 DEF KernPages
<1>8. \A pg : pg \in S <=> \E v \in Memory!VPages : v \in gone /\ s.pte[v].pa = pg
  BY <1>4
<1> HIDE DEF S
<1>9. Memory!None \notin S
  BY <1>3, <1>8 DEF Memory!Present
<1>10. S \subseteq PtePages(s)
  BY <1>8, <1>9 DEF PtePages
<1>11. PtePages(z) = PtePages(s) \ S
  <2>1. ASSUME NEW pg \in PtePages(z) PROVE pg \in PtePages(s) \ S
    <3>1. PICK v \in Memory!VPages : pg = z.pte[v].pa /\ pg # Memory!None
      BY DEF PtePages
    <3>2. v \notin gone /\ pg = s.pte[v].pa
      BY <1>2, <1>6, <3>1
    <3>3. \A v2 \in Memory!VPages : v2 \in gone => s.pte[v2].pa # pg
      BY <3>1, <3>2 DEF Inside, Memory!Present
    <3>q. QED
      BY <1>8, <3>1, <3>2, <3>3 DEF PtePages
  <2>2. ASSUME NEW pg \in PtePages(s) \ S PROVE pg \in PtePages(z)
    <3>1. PICK v \in Memory!VPages : pg = s.pte[v].pa /\ pg # Memory!None
      BY DEF PtePages
    <3>2. v \notin gone
      BY <1>8, <2>2, <3>1
    <3>q. QED
      BY <1>6, <3>1, <3>2 DEF PtePages
  <2>q. QED
    BY <2>1, <2>2
<1>12. Memory!OwnPages(z) = Memory!OwnPages(s) \ S
  <2>1. KernPages(s) \cap S = {}
    BY <1>10 DEF Inside
  <2>q. QED
    BY <1>5, <1>7, <1>11, <2>1, OwnIs
<1>13. Inside(z)
  <2>1. KernPages(z) \cap PtePages(z) = {}
    BY <1>7, <1>11 DEF Inside
  <2>2. ASSUME NEW v \in Memory!VPages, NEW v2 \in Memory!VPages, v # v2, Memory!Present(z, v)
               PROVE z.pte[v].pa # z.pte[v2].pa
    <3>1. v \notin gone /\ Memory!Present(s, v)
      BY <1>2, <1>6, <2>2 DEF Memory!Present
    <3>2. s.pte[v].pa # Memory!None
      BY <3>1 DEF Memory!Present
    <3>q. QED
      BY <1>2, <1>6, <2>2, <3>1, <3>2 DEF Inside
  <2>q. QED
    BY <2>1, <2>2 DEF Inside
<1>14. /\ \A v \in Memory!VPages : ~(Memory!PGROUNDUP(b) <= v /\ v < Memory!PGROUNDUP(a))
            => z.pte[v] = s.pte[v]
       /\ \A v \in Memory!VPages : Memory!Present(z, v) <=> Memory!Present(s, v)
            /\ ~(Memory!PGROUNDUP(b) <= v /\ v < Memory!PGROUNDUP(a))
  BY <1>2, <1>3, <1>6 DEF Memory!Present
<1>15. OnlyPresent(s) => OnlyPresent(z)
  BY <1>2, <1>6 DEF OnlyPresent, Memory!Present
<1>16. S \subseteq Memory!OwnPages(s)
  BY <1>10, OwnIs
<1>17. Memory!Dealloc(s, a, b).space = z /\ Memory!Dealloc(s, a, b).pages = S
  BY <1>1 DEF z, S
<1>q. QED
  BY <1>17, <1>5, <1>9, <1>12, <1>13, <1>14, <1>15, <1>16
-----------------------------------------------------------------------------
(* Pages change hands *)

SpaceOf(p) == <<"space", p>>
NewOf(p) == <<"new", p>>
MemOf(p) == <<"mem", p>>
StackOf(p) == <<"kstack", p>>

LEMMA HoldersAre ==
  /\ \A p \in Memory!Procs : {SpaceOf(p), NewOf(p), MemOf(p), StackOf(p)} \subseteq Memory!Holders
  /\ \A h \in Memory!Holders : \E p \in Memory!Procs : h = SpaceOf(p) \/ h = NewOf(p) \/ h = MemOf(p)
       \/ h = StackOf(p)
  /\ \A p, q \in Memory!Procs :
       /\ SpaceOf(p) # NewOf(q) /\ SpaceOf(p) # MemOf(q) /\ SpaceOf(p) # StackOf(q)
       /\ NewOf(p) # MemOf(q) /\ NewOf(p) # StackOf(q) /\ MemOf(p) # StackOf(q)
       /\ SpaceOf(p) = SpaceOf(q) <=> p = q
       /\ NewOf(p) = NewOf(q) <=> p = q
       /\ MemOf(p) = MemOf(q) <=> p = q
       /\ StackOf(p) = StackOf(q) <=> p = q
  BY DEF Memory!Holders, SpaceOf, NewOf, MemOf, StackOf

LEMMA HeldIs ==
  /\ \A p \in Memory!Procs : /\ Memory!Held(SpaceOf(p)) = Memory!OwnPages(space[p])
                             /\ Memory!Held(NewOf(p)) = Memory!OwnPages(new[p])
                             /\ Memory!Held(MemOf(p)) = {proc[p].mem} \ {Memory!None}
                             /\ Memory!Held(StackOf(p)) = {proc[p].kstack} \ {Memory!None}
  BY DEF Memory!Held, SpaceOf, NewOf, MemOf, StackOf

LEMMA GIs ==
  /\ \A h \in Memory!Holders : G[h] = Memory!Held(h)
  /\ \A p \in Memory!Procs : /\ G[SpaceOf(p)] = Memory!OwnPages(space[p])
                             /\ G[NewOf(p)] = Memory!OwnPages(new[p])
                             /\ G[MemOf(p)] = {proc[p].mem} \ {Memory!None}
                             /\ G[StackOf(p)] = {proc[p].kstack} \ {Memory!None}
  BY HeldIs, HoldersAre DEF G

\* What every holder has says what G is.
LEMMA GBecomes ==
  ASSUME NEW g, g = [h \in Memory!Holders |-> g[h]],
         \A p \in Memory!Procs :
           /\ g[SpaceOf(p)] = Memory!OwnPages(space'[p]) /\ g[NewOf(p)] = Memory!OwnPages(new'[p])
           /\ g[MemOf(p)] = {proc'[p].mem} \ {Memory!None}
           /\ g[StackOf(p)] = {proc'[p].kstack} \ {Memory!None}
  PROVE  G' = g
<1>1. \A p \in Memory!Procs : /\ Memory!Held(SpaceOf(p))' = Memory!OwnPages(space'[p])
                              /\ Memory!Held(NewOf(p))' = Memory!OwnPages(new'[p])
                              /\ Memory!Held(MemOf(p))' = {proc'[p].mem} \ {Memory!None}
                              /\ Memory!Held(StackOf(p))' = {proc'[p].kstack} \ {Memory!None}
  BY DEF Memory!Held, SpaceOf, NewOf, MemOf, StackOf, Memory!OwnPages
<1>2. \A h \in Memory!Holders : Memory!Held(h)' = g[h]
  <2> SUFFICES ASSUME NEW h \in Memory!Holders PROVE Memory!Held(h)' = g[h]
    OBVIOUS
  <2>1. PICK p \in Memory!Procs : h = SpaceOf(p) \/ h = NewOf(p) \/ h = MemOf(p) \/ h = StackOf(p)
    BY HoldersAre
  <2>q. QED
    BY <1>1, <2>1, SMTT(30)
<1>3. G' = [h \in Memory!Holders |-> Memory!Held(h)']
  BY DEF G
<1>q. QED
  BY <1>2, <1>3

Taken(g, b, D) == [h \in Memory!Holders |-> IF h = b THEN g[h] \cup D ELSE g[h]]
Handed(g, a, b) == [h \in Memory!Holders |-> IF h = a THEN {} ELSE IF h = b THEN g[a] \cup g[b]
          ELSE g[h]]
Without(g, a, S) == [h \in Memory!Holders |-> IF h = a THEN g[h] \ S ELSE g[h]]
Lost(g, a) == [h \in Memory!Holders |-> IF h = a THEN {} ELSE g[h]]

\* kalloc.
LEMMA TakenIsSound ==
  ASSUME NEW f, NEW g, Sound(f, g), NEW D \in SUBSET f, NEW b \in Memory!Holders
  PROVE  /\ Sound(f \ D, Taken(g, b, D))
         /\ Whole(f \ D, Taken(g, b, D)) = Whole(f, g)
<1> DEFINE z == Taken(g, b, D)
<1>1. \A h \in Memory!Holders : z[h] = IF h = b THEN g[h] \cup D ELSE g[h]
  BY DEF Taken
<1> HIDE DEF z
<1>0. (\A h \in Memory!Holders : D \cap g[h] = {}) /\ \A h \in Memory!Holders : f \cap g[h] = {}
  BY DEF Sound
<1>2. Sound(f \ D, z)
  <2>1. ASSUME NEW h \in Memory!Holders PROVE (f \ D) \cap z[h] = {}
    BY <1>0, <1>1
  <2>2. ASSUME NEW h \in Memory!Holders, NEW hh \in Memory!Holders, h # hh PROVE z[h] \cap z[hh] = {}
    <3>1. g[h] \cap g[hh] = {}
      BY <2>2 DEF Sound
    <3>q. QED
      BY <1>0, <1>1, <2>2, <3>1
  <2>q. QED
    BY <2>1, <2>2 DEF Sound
<1>3. Whole(f \ D, z) = Whole(f, g)
  BY <1>1 DEF Whole
<1>q. QED
  BY <1>2, <1>3 DEF z

\* A holder hands what it has to another.
LEMMA HandedIsSound ==
  ASSUME NEW f, NEW g, Sound(f, g), NEW a \in Memory!Holders, NEW b \in Memory!Holders, a # b
  PROVE  /\ Sound(f, Handed(g, a, b))
         /\ Whole(f, Handed(g, a, b)) = Whole(f, g)
<1> DEFINE z == Handed(g, a, b)
<1>1. \A h \in Memory!Holders : z[h] = IF h = a THEN {} ELSE IF h = b THEN g[a] \cup g[b] ELSE g[h]
  BY DEF Handed
<1> HIDE DEF z
<1>2. Sound(f, z)
  BY <1>1 DEF Sound
<1>3. Whole(f, z) = Whole(f, g)
  <2>1. ASSUME NEW pg \in UNION {z[h] : h \in Memory!Holders}
               PROVE pg \in UNION {g[h] : h \in Memory!Holders}
    BY <1>1
  <2>2. ASSUME NEW pg \in UNION {g[h] : h \in Memory!Holders}
               PROVE pg \in UNION {z[h] : h \in Memory!Holders}
    <3>1. PICK h \in Memory!Holders : pg \in g[h]
      OBVIOUS
    <3>2. pg \in z[IF h = a THEN b ELSE h]
      BY <1>1, <3>1
    <3>q. QED
      BY <3>2
  <2>q. QED
    BY <2>1, <2>2 DEF Whole
<1>q. QED
  BY <1>2, <1>3 DEF z

\* kfree, of pages that a holder has.
LEMMA GivenIsSound ==
  ASSUME NEW f, NEW g, Sound(f, g), NEW a \in Memory!Holders, NEW S, S \subseteq g[a]
  PROVE  /\ Sound(f \cup S, Without(g, a, S))
         /\ Whole(f \cup S, Without(g, a, S)) = Whole(f, g)
<1> DEFINE z == Without(g, a, S)
<1>1. \A h \in Memory!Holders : z[h] = IF h = a THEN g[h] \ S ELSE g[h]
  BY DEF Without
<1> HIDE DEF z
<1>2. Sound(f \cup S, z)
  <2>1. ASSUME NEW h \in Memory!Holders PROVE (f \cup S) \cap z[h] = {}
    <3>1. f \cap g[h] = {} /\ (h # a => g[a] \cap g[h] = {})
      BY DEF Sound
    <3>q. QED
      BY <1>1, <3>1
  <2>2. ASSUME NEW h \in Memory!Holders, NEW hh \in Memory!Holders, h # hh PROVE z[h] \cap z[hh] = {}
    <3>1. g[h] \cap g[hh] = {}
      BY <2>2 DEF Sound
    <3>q. QED
      BY <1>1, <3>1
  <2>q. QED
    BY <2>1, <2>2 DEF Sound
<1>3. Whole(f \cup S, z) = Whole(f, g)
  <2>1. ASSUME NEW pg, pg \notin S, NEW h \in Memory!Holders PROVE pg \in z[h] <=> pg \in g[h]
    BY <1>1, <2>1
  <2>2. \A h \in Memory!Holders : z[h] \subseteq g[h]
    BY <1>1
  <2>q. QED
    BY <2>1, <2>2 DEF Whole
<1>q. QED
  BY <1>2, <1>3 DEF z

LEMMA LostIsSound ==
  ASSUME NEW f, NEW g, Sound(f, g), NEW a \in Memory!Holders
  PROVE  Sound(f, Lost(g, a)) /\ (g[a] = {} => Whole(f, Lost(g, a)) = Whole(f, g))
<1> DEFINE z == Lost(g, a)
<1>1. \A h \in Memory!Holders : z[h] = IF h = a THEN {} ELSE g[h]
  BY DEF Lost
<1> HIDE DEF z
<1>2. Sound(f, z)
  BY <1>1 DEF Sound
<1>3. ASSUME g[a] = {} PROVE Whole(f, z) = Whole(f, g)
  <2>1. \A h \in Memory!Holders : z[h] = g[h]
    BY <1>1, <1>3
  <2>q. QED
    BY <2>1 DEF Whole
<1>q. QED
  BY <1>2, <1>3 DEF z

LEMMA MinIs ==
  ASSUME free \subseteq Memory!Pages, free # {}
  PROVE  Memory!Min(free) \in free
<1>0. free \subseteq Nat
  BY DEF Memory!Pages
<1>1. PICK k \in free : \A m \in free : <<m, k>> \notin OpToRel(<, Nat)
  BY <1>0, WFMin, NatLessThanWellFounded, Zenon
<1>2. \A m \in free : k <= m
  <2> SUFFICES ASSUME NEW m \in free PROVE k <= m
    OBVIOUS
  <2>1. ~(m < k)
    BY <1>0, <1>1 DEF OpToRel
  <2>q. QED
    BY <1>0, <2>1
<1>q. QED
  BY <1>2 DEF Memory!Min
-----------------------------------------------------------------------------
(* Steps of one process *)

LEMMA ProcParts ==
  ASSUME NEW x \in ProcT
  PROVE  /\ x.state \in States /\ x.parent \in Slots /\ x.sz \in Nat /\ x.kstack \in PageOrNone
         /\ x.pc \in Pcs /\ x.call \in Calls /\ x.at \in Nat /\ x.to \in Nat /\ x.mem \in PageOrNone
         /\ x.child \in Slots
  BY DEF ProcT

LEMMA IdleIs ==
  /\ Memory!Idle \in ProcT /\ Memory!Idle.state = "unused" /\ Memory!Idle.child = 0
  /\ Memory!Idle.kstack = Memory!None /\ Memory!Idle.mem = Memory!None
  /\ Memory!Idle.call = "none" /\ Memory!Idle.pc = "user"
  /\ Local(Memory!Idle, Memory!NoSpace, Memory!NoSpace)
<1>1. /\ Memory!Idle.state = "unused" /\ Memory!Idle.child = 0 /\ Memory!Idle.kstack = Memory!None
      /\ Memory!Idle.mem = Memory!None
      /\ Memory!Idle.call = "none" /\ Memory!Idle.pc = "user" /\ Memory!Idle.at = 0
      /\ Memory!Idle.sz = 0
  BY DEF Memory!Idle, Memory!None
<1>2. Memory!Idle \in ProcT
  BY DEF Memory!Idle, ProcT, States, Slots, Pcs, Calls, PageOrNone, Memory!None
<1>3. 0 < KERNBASE
  <2>1. (ImageSize + 2) * PGSIZE \in Nat
    BY MemoryAssumption
  <2>q. QED
    BY <2>1, MemoryAssumption
<1>4. Stage(Memory!Idle, Memory!NoSpace)
  BY <1>1, <1>3 DEF Stage
<1>5. Fit(Memory!Idle, Memory!NoSpace, Memory!NoSpace)
  BY <1>1, NoSpaceIs DEF Fit
<1>6. Absent(Memory!Idle, Memory!NoSpace)
  BY <1>1 DEF Absent
<1>q. QED
  BY <1>1, <1>2, <1>4, <1>5, <1>6, NoSpaceIs DEF Local

Becomes(p, x, s, n) ==
  proc' = [proc EXCEPT ![p] = x] /\ space' = [space EXCEPT ![p] = s] /\ new' = [new EXCEPT ![p] = n]
IsBy(g, p, x, s, n) ==
  /\ g = [h \in Memory!Holders |-> g[h]]
  /\ g[SpaceOf(p)] = Memory!OwnPages(s) /\ g[NewOf(p)] = Memory!OwnPages(n)
  /\ g[MemOf(p)] = {x.mem} \ {Memory!None}
  /\ \A h \in Memory!Holders : h \notin {SpaceOf(p), NewOf(p), MemOf(p)} => g[h] = G[h]

\* What changes in one process, and leaves it its kernel stack.
LEMMA OneChanges ==
  ASSUME MemInv, NEW p \in Memory!Procs, NEW x \in ProcT, NEW s \in Spaces, NEW n \in Spaces,
         Becomes(p, x, s, n),
         Local(x, s, n), x.kstack = proc[p].kstack, x.state = proc[p].state,
         x.child = 0 \/ (x.child = proc[p].child /\ (x.pc = "kstack" <=> proc[p].pc = "kstack"))
  PROVE  /\ proc' \in [Memory!Procs -> ProcT] /\ space' \in [Memory!Procs -> Spaces]
         /\ new' \in [Memory!Procs -> Spaces]
         /\ Locals' /\ Children'
<1>1. proc \in [Memory!Procs -> ProcT] /\ space \in [Memory!Procs -> Spaces]
        /\ new \in [Memory!Procs -> Spaces]
  BY DEF MemInv, MemTypes
<1>2. proc' \in [Memory!Procs -> ProcT] /\ space' \in [Memory!Procs -> Spaces]
        /\ new' \in [Memory!Procs -> Spaces]
  BY <1>1 DEF Becomes
<1>3. /\ proc'[p] = x /\ space'[p] = s /\ new'[p] = n
      /\ \A q \in Memory!Procs : q # p => proc'[q] = proc[q] /\ space'[q] = space[q] /\ new'[q] = new[q]
  BY <1>1 DEF Becomes
<1>4. \A q \in Memory!Procs : Local(proc'[q], space'[q], new'[q])
  <2>1. \A q \in Memory!Procs : Local(proc[q], space[q], new[q])
    BY DEF MemInv, Locals
  <2>q. QED
    BY <1>3, <2>1
<1>5. Locals'
  BY <1>4 DEF Locals
<1>6. Children'
  <2> SUFFICES ASSUME NEW q \in Memory!Procs, proc'[q].child # 0
               PROVE  /\ proc'[proc'[q].child].state = "embryo"
                      /\ proc'[proc'[q].child].kstack = Memory!None <=> proc'[q].pc = "kstack"
                      /\ \A o \in Memory!Procs : proc'[o].child = proc'[q].child => o = q
    BY DEF Children
  <2>1. proc'[q].child = proc[q].child /\ (proc'[q].pc = "kstack" <=> proc[q].pc = "kstack")
    BY <1>3
  <2>2. proc[q].child \in Memory!Procs
    BY <1>1, <2>1 DEF ProcT, Slots
  <2>3. proc'[proc[q].child].state = proc[proc[q].child].state
          /\ proc'[proc[q].child].kstack = proc[proc[q].child].kstack
    BY <1>3, <2>2
  <2>4. \A o \in Memory!Procs : proc'[o].child # 0 => proc'[o].child = proc[o].child
    BY <1>3
  <2>5. /\ proc[proc[q].child].state = "embryo"
        /\ proc[proc[q].child].kstack = Memory!None <=> proc[q].pc = "kstack"
        /\ \A o \in Memory!Procs : proc[o].child = proc[q].child => o = q
    BY <2>1 DEF MemInv, Children
  <2>q. QED
    BY <2>1, <2>3, <2>4, <2>5
<1>q. QED
  BY <1>2, <1>5, <1>6

\* Who then holds what.
LEMMA OneHolds ==
  ASSUME MemInv, NEW p \in Memory!Procs, NEW x \in ProcT, NEW s \in Spaces, NEW n \in Spaces,
         Becomes(p, x, s, n),
         x.kstack = proc[p].kstack, NEW g, IsBy(g, p, x, s, n)
  PROVE  G' = g
<1>1. proc \in [Memory!Procs -> ProcT] /\ space \in [Memory!Procs -> Spaces]
        /\ new \in [Memory!Procs -> Spaces]
  BY DEF MemInv, MemTypes
<1>3. /\ proc'[p] = x /\ space'[p] = s /\ new'[p] = n
      /\ \A q \in Memory!Procs : q # p => proc'[q] = proc[q] /\ space'[q] = space[q] /\ new'[q] = new[q]
  BY <1>1 DEF Becomes
<1>0. /\ g = [h \in Memory!Holders |-> g[h]]
      /\ g[SpaceOf(p)] = Memory!OwnPages(s) /\ g[NewOf(p)] = Memory!OwnPages(n)
      /\ g[MemOf(p)] = {x.mem} \ {Memory!None}
      /\ \A h \in Memory!Holders : h \notin {SpaceOf(p), NewOf(p), MemOf(p)} => g[h] = G[h]
  BY DEF IsBy
<1>4. ASSUME NEW q \in Memory!Procs
      PROVE /\ g[SpaceOf(q)] = Memory!OwnPages(space'[q]) /\ g[NewOf(q)] = Memory!OwnPages(new'[q])
            /\ g[MemOf(q)] = {proc'[q].mem} \ {Memory!None}
            /\ g[StackOf(q)] = {proc'[q].kstack} \ {Memory!None}
  <2>1. {SpaceOf(q), NewOf(q), MemOf(q), StackOf(q)} \subseteq Memory!Holders
    BY HoldersAre
  <2>2. StackOf(q) \notin {SpaceOf(p), NewOf(p), MemOf(p)}
    BY HoldersAre
  <2>3. g[StackOf(q)] = {proc'[q].kstack} \ {Memory!None}
    BY <1>0, <1>3, <2>1, <2>2, GIs
  <2>4. CASE q = p
    BY <1>0, <1>3, <2>3, <2>4
  <2>5. CASE q # p
    <3>1. /\ SpaceOf(q) \notin {SpaceOf(p), NewOf(p), MemOf(p)}
          /\ NewOf(q) \notin {SpaceOf(p), NewOf(p), MemOf(p)}
          /\ MemOf(q) \notin {SpaceOf(p), NewOf(p), MemOf(p)}
      BY <2>5, HoldersAre
    <3>q. QED
      BY <1>0, <1>3, <2>1, <2>3, <2>5, <3>1, GIs
  <2>q. QED
    BY <2>4, <2>5
<1>q. QED
  BY <1>0, <1>4, GBecomes

\* Nobody's pages change.
LEMMA NobodyHolds ==
  ASSUME \A p \in Memory!Procs : /\ Memory!OwnPages(space'[p]) = Memory!OwnPages(space[p])
                                 /\ Memory!OwnPages(new'[p]) = Memory!OwnPages(new[p])
                                 /\ proc'[p].mem = proc[p].mem /\ proc'[p].kstack = proc[p].kstack
  PROVE  G' = G
<1>1. G = [h \in Memory!Holders |-> G[h]]
  BY DEF G
<1>q. QED
  BY <1>1, GIs, GBecomes

LEMMA FillTypes ==
  ASSUME data \in [Memory!Pages -> Contained], Memory!Fill
  PROVE  data' \in [Memory!Pages -> Contained]
  BY DEF Memory!Fill, Contained

LEMMA WholeIs == free \cup Memory!Owned = Whole(free, G) /\ (free \cup Memory!Owned)' = Whole(free', G')
<1>1. UNION {G[h] : h \in Memory!Holders} = Memory!Owned
  BY GIs DEF Memory!Owned
<1>2. (UNION {G[h] : h \in Memory!Holders})' = Memory!Owned'
  <2>1. \A h \in Memory!Holders : G'[h] = Memory!Held(h)'
    BY DEF G
  <2>q. QED
    BY <2>1 DEF Memory!Owned
<1>q. QED
  BY <1>1, <1>2 DEF Whole

LEMMA FreshPage ==
  ASSUME MemInv, NEW pg \in free
  PROVE  pg \in Memory!Pages /\ pg # Memory!None
           /\ \A p \in Memory!Procs : pg \notin Memory!OwnPages(space[p])
           /\ pg \notin Memory!OwnPages(new[p])
<1>1. pg \in Memory!Pages /\ pg # Memory!None
  BY NoPageIsNone DEF MemInv, MemTypes
<1>2. \A h \in Memory!Holders : pg \notin G[h]
  BY DEF MemInv, Sound
<1>q. QED
  BY <1>1, <1>2, GIs, HoldersAre

LEMMA AtIs ==
  ASSUME MemInv, NEW p \in Memory!Procs, proc[p].state = "running"
  PROVE  /\ proc[p] \in ProcT /\ space[p] \in Spaces /\ new[p] \in Spaces
         /\ Stage(proc[p], new[p]) /\ Fit(proc[p], space[p], new[p]) /\ Absent(proc[p], space[p])
         /\ Inside(space[p]) /\ Inside(new[p])
         /\ proc = [proc EXCEPT ![p] = proc[p]]
         /\ space = [space EXCEPT ![p] = space[p]] /\ new = [new EXCEPT ![p] = new[p]]
<1>1. proc \in [Memory!Procs -> ProcT] /\ space \in [Memory!Procs -> Spaces]
        /\ new \in [Memory!Procs -> Spaces]
  BY DEF MemInv, MemTypes
<1>2. Local(proc[p], space[p], new[p])
  BY DEF MemInv, Locals
<1>q. QED
  BY <1>1, <1>2 DEF Local

LEMMA InUserIs ==
  ASSUME MemInv, NEW p \in Memory!Procs, Memory!InUser(p)
  PROVE  /\ proc[p].state = "running" /\ proc[p].pc = "user" /\ proc[p].call = "none"
         /\ proc[p].mem = Memory!None
         /\ proc[p].child = 0 /\ proc[p].at = 0 /\ new[p] = Memory!NoSpace /\ 0 \in Memory!VPages
         /\ Memory!Present(space[p], 0)
         /\ UpTo(space[p], Memory!PGROUNDUP(proc[p].sz)) /\ proc[p].kstack # Memory!None
<1>1. proc[p].state = "running" /\ proc[p].pc = "user" /\ Memory!Present(space[p], 0)
  BY DEF Memory!InUser, Memory!At, Memory!Running
<1>2. 0 \in Memory!VPages
  <2>1. (ImageSize + 2) * PGSIZE \in Nat /\ 0 < KERNBASE
    <3>1. (ImageSize + 2) * PGSIZE \in Nat
      BY MemoryAssumption
    <3>q. QED
      BY <3>1, MemoryAssumption
  <2>2. 0 <= (KERNBASE - 1) \div PGSIZE <=> 0 * PGSIZE <= KERNBASE - 1
    BY DivBelow, MemoryAssumption
  <2>3. (KERNBASE - 1) \div PGSIZE \in Int
    BY DivMod, MemoryAssumption
  <2>q. QED
    BY <2>1, <2>2, <2>3, MemoryAssumption DEF Memory!VPages
<1>3. Stage(proc[p], new[p]) /\ Fit(proc[p], space[p], new[p]) /\ Absent(proc[p], space[p])
        /\ proc[p] \in ProcT
  BY <1>1, AtIs
<1>4. proc[p].call = "none" /\ proc[p].mem = Memory!None /\ proc[p].child = 0 /\ proc[p].at = 0
        /\ new[p] = Memory!NoSpace
  BY <1>1, <1>3 DEF Stage
<1>5. ~UpTo(space[p], 0)
  BY <1>1, <1>2 DEF UpTo
<1>q. QED
  BY <1>1, <1>2, <1>3, <1>4, <1>5 DEF Fit, Absent

Keeps == MemInv' /\ Whole(free', G') = Whole(free, G)

LEMMA ExecKeeps == ASSUME MemInv, NEW p \in Memory!Procs, Memory!Exec(p) PROVE Keeps
<1> DEFINE x == [proc[p] EXCEPT !.pc = "dir", !.call = "exec", !.to = (ImageSize + 2) * PGSIZE]
<1>1. Memory!InUser(p) /\ proc' = [proc EXCEPT ![p] = x] /\ UNCHANGED <<free, data, space, new, panic>>
  BY DEF Memory!Exec
<1>2. proc[p].state = "running" /\ proc[p].pc = "user" /\ proc[p].call = "none"
        /\ proc[p].mem = Memory!None
         /\ proc[p].child = 0 /\ proc[p].at = 0 /\ new[p] = Memory!NoSpace
         /\ UpTo(space[p], Memory!PGROUNDUP(proc[p].sz))
  BY <1>1, InUserIs
<1>3. /\ proc[p] \in ProcT /\ space[p] \in Spaces /\ new[p] \in Spaces
      /\ Stage(proc[p], new[p]) /\ Fit(proc[p], space[p], new[p]) /\ Absent(proc[p], space[p])
      /\ Inside(space[p]) /\ Inside(new[p])
      /\ space' = [space EXCEPT ![p] = space[p]] /\ new' = [new EXCEPT ![p] = new[p]]
  BY <1>1, <1>2, AtIs
<1>0. (ImageSize + 2) * PGSIZE \in Nat /\ (ImageSize + 2) * PGSIZE < KERNBASE
  <2>1. (ImageSize + 2) * PGSIZE \in Nat
    BY MemoryAssumption
  <2>q. QED
    BY <2>1, MemoryAssumption
<1>4. x \in ProcT
  BY <1>0, <1>3 DEF ProcT, Pcs, Calls
<1>5. /\ x.pc = "dir" /\ x.call = "exec" /\ x.to = (ImageSize + 2) * PGSIZE /\ x.state = proc[p].state
      /\ x.sz = proc[p].sz /\ x.kstack = proc[p].kstack /\ x.at = proc[p].at /\ x.mem = proc[p].mem
      /\ x.child = proc[p].child
  BY <1>3 DEF ProcT
<1> HIDE DEF x
<1>6. Local(x, space[p], new[p])
  <2>1. Stage(x, new[p])
    BY <1>0, <1>2, <1>3, <1>5 DEF Stage
  <2>2. Fit(x, space[p], new[p])
    BY <1>2, <1>3, <1>5, NoSpaceIs DEF Fit
  <2>3. Absent(x, space[p])
    BY <1>2, <1>3, <1>5 DEF Absent
  <2>q. QED
    BY <1>3, <2>1, <2>2, <2>3 DEF Local
<1>u. Becomes(p, x, space[p], new[p])
  BY <1>1, <1>3 DEF Becomes
<1>7. /\ proc' \in [Memory!Procs -> ProcT] /\ space' \in [Memory!Procs -> Spaces]
      /\ new' \in [Memory!Procs -> Spaces]
      /\ Locals' /\ Children'
  BY <1>u, <1>3, <1>4, <1>5, <1>6, <1>2, OneChanges
<1>8. G' = G
  <2>1. \A q \in Memory!Procs : proc'[q].mem = proc[q].mem /\ proc'[q].kstack = proc[q].kstack
    BY <1>1, <1>5 DEF MemInv, MemTypes
  <2>q. QED
    BY <1>1, <2>1, NobodyHolds
<1>9. MemTypes'
  BY <1>1, <1>7 DEF MemInv, MemTypes
<1>q. QED
  BY <1>1, <1>7, <1>8, <1>9 DEF MemInv, Keeps

LEMMA DirKeeps == ASSUME MemInv, NEW p \in Memory!Procs, Memory!Dir(p), free # {} PROVE Keeps
<1> DEFINE x == [proc[p] EXCEPT !.pc = "kern"]
           s == space[p]
           n == [new[p] EXCEPT !.dir = Memory!Min(free)]
<1>1. /\ free # {} /\ Memory!Running(p) /\ proc[p].pc = "dir"
      /\ free' = free \ {Memory!Min(free)} /\ proc' = [proc EXCEPT ![p] = x]
      /\ new' = [new EXCEPT ![p] = n] /\ UNCHANGED <<space, panic>> /\ Memory!Fill
  BY DEF Memory!Dir, Memory!Kalloc, Memory!At, Memory!Go
<1>2. /\ proc[p].state = "running" /\ proc[p].call \in {"fork", "exec"} /\ proc[p].call # "none"
      /\ proc[p].mem = Memory!None /\ proc[p].at = 0 /\ new[p] = Memory!NoSpace /\ proc[p].pc = "dir"
  <2>1. proc[p].state = "running"
    BY <1>1 DEF Memory!Running
  <2>q. QED
    BY <1>1, <2>1, AtIs DEF Stage
<1>3. /\ proc[p] \in ProcT /\ space[p] \in Spaces /\ new[p] \in Spaces
      /\ Stage(proc[p], new[p]) /\ Fit(proc[p], space[p], new[p]) /\ Absent(proc[p], space[p])
      /\ Inside(space[p]) /\ Inside(new[p])
      /\ space = [space EXCEPT ![p] = space[p]] /\ new = [new EXCEPT ![p] = new[p]]
  BY <1>2, AtIs
<1>e. /\ Memory!Min(free) \in free /\ n \in Spaces
      /\ Memory!OwnPages(n) = Memory!OwnPages(new[p]) \cup {Memory!Min(free)} /\ Inside(n)
      /\ OnlyPresent(n) /\ UpTo(n, 0) /\ n.kern = Memory!None
  <2>2. Memory!Min(free) \in free
    BY <1>1, MinIs DEF MemInv, MemTypes
  <2>3. /\ Memory!Min(free) \in Memory!Pages /\ Memory!Min(free) # Memory!None
        /\ Memory!Min(free) \notin Memory!OwnPages(space[p])
        /\ Memory!Min(free) \notin Memory!OwnPages(new[p])
    BY <2>2, FreshPage
  <2>4. n \in Spaces /\ n.pte = new[p].pte /\ n.kern = Memory!None
          /\ KernPages(n) = KernPages(new[p]) \cup {Memory!Min(free)}
    BY <1>2, <1>3, <2>3, DirIsSet, NoSpaceIs
  <2> HIDE DEF n
  <2>5. Memory!OwnPages(n) = Memory!OwnPages(new[p]) \cup {Memory!Min(free)} /\ Inside(n)
         /\ (\A v \in Memory!VPages : Memory!Present(n, v) <=> Memory!Present(new[p], v))
              /\ (OnlyPresent(new[p]) => OnlyPresent(n))
    BY <1>3, <2>3, <2>4, KernGrows
  <2>q. QED
    BY <1>2, <2>2, <2>4, <2>5, NoSpaceIs DEF UpTo
<1>4. x \in ProcT
  BY <1>1, <1>2, <1>3, <1>e DEF ProcT, Pcs, Calls, PageOrNone, Slots
<1>5. /\ x.state = proc[p].state /\ x.parent = proc[p].parent /\ x.sz = proc[p].sz
      /\ x.kstack = proc[p].kstack /\ x.pc = "kern" /\ x.call = proc[p].call
      /\ x.at = proc[p].at /\ x.to = proc[p].to /\ x.mem = proc[p].mem /\ x.child = proc[p].child
  BY <1>3 DEF ProcT
<1>u. Becomes(p, x, s, n) /\ s \in Spaces /\ n \in Spaces
  BY <1>1, <1>3, <1>e DEF Becomes, s
<1> HIDE DEF x, s, n
<1>6. Local(x, s, n)
  <2>1. Stage(x, n)
    BY <1>1, <1>2, <1>3, <1>5, <1>e DEF Stage, s
  <2>2. Fit(x, s, n)
    BY <1>1, <1>2, <1>3, <1>5, <1>e, NoSpaceIs DEF Fit, s
  <2>3. Absent(x, s)
    BY <1>2, <1>3, <1>5 DEF Absent, s
  <2>q. QED
    BY <1>3, <1>e, <2>1, <2>2, <2>3 DEF Local, s
<1>g. G' = Taken(G, NewOf(p), {Memory!Min(free)})
  <2> DEFINE g == Taken(G, NewOf(p), {Memory!Min(free)})
  <2>1. g = [h \in Memory!Holders |-> g[h]]
    BY DEF Taken
  <2>2. /\ g[SpaceOf(p)] = Memory!OwnPages(s) /\ g[NewOf(p)] = Memory!OwnPages(n)
        /\ g[MemOf(p)] = {x.mem} \ {Memory!None}
        /\ \A h \in Memory!Holders : h \notin {SpaceOf(p), NewOf(p), MemOf(p)} => g[h] = G[h]
    BY <1>1, <1>2, <1>5, <1>e, GIs, HoldersAre DEF Taken, s
  <2> HIDE DEF g
  <2>4. IsBy(g, p, x, s, n)
    BY <2>1, <2>2 DEF IsBy
  <2>3. G' = g
    BY <1>4, <1>5, <1>u, <2>4, OneHolds
  <2>q. QED
    BY <2>3 DEF g
<1>s. Sound(free', G') /\ Whole(free', G') = Whole(free, G) /\ free' \subseteq Memory!Pages
  <2>1. Sound(free, G) /\ free \subseteq Memory!Pages
    BY DEF MemInv, MemTypes
  <2>q. QED
    BY <1>1, <1>e, <1>g, <2>1, TakenIsSound, HoldersAre
<1>7. /\ proc' \in [Memory!Procs -> ProcT] /\ space' \in [Memory!Procs -> Spaces]
      /\ new' \in [Memory!Procs -> Spaces]
      /\ Locals' /\ Children'
  BY <1>2, <1>4, <1>5, <1>6, <1>u, OneChanges
<1>9. MemTypes'
  <2>1. data' \in [Memory!Pages -> Contained]
    BY <1>1, <1>e, FillTypes DEF MemInv, MemTypes, Contained
  <2>q. QED
    BY <1>7, <1>s, <2>1 DEF MemTypes
<1>q. QED
  BY <1>1, <1>7, <1>9, <1>s DEF MemInv, Keeps

LEMMA KernKeeps == ASSUME MemInv, NEW p \in Memory!Procs, Memory!Kern(p), free # {} PROVE Keeps
<1> DEFINE x == [proc[p] EXCEPT !.pc = "page"]
           s == space[p]
           n == [new[p] EXCEPT !.kern = Memory!Min(free)]
<1>1. /\ free # {} /\ Memory!Running(p) /\ proc[p].pc = "kern"
      /\ free' = free \ {Memory!Min(free)} /\ proc' = [proc EXCEPT ![p] = x]
      /\ new' = [new EXCEPT ![p] = n] /\ UNCHANGED <<space, panic>> /\ Memory!Fill
  BY DEF Memory!Kern, Memory!Kalloc, Memory!At, Memory!Go
<1>2. /\ proc[p].state = "running" /\ proc[p].call \in {"fork", "exec"} /\ proc[p].call # "none"
      /\ proc[p].mem = Memory!None /\ proc[p].at = 0 /\ new[p].kern = Memory!None /\ proc[p].pc = "kern"
  <2>1. proc[p].state = "running"
    BY <1>1 DEF Memory!Running
  <2>q. QED
    BY <1>1, <2>1, AtIs DEF Stage
<1>3. /\ proc[p] \in ProcT /\ space[p] \in Spaces /\ new[p] \in Spaces
      /\ Stage(proc[p], new[p]) /\ Fit(proc[p], space[p], new[p]) /\ Absent(proc[p], space[p])
      /\ Inside(space[p]) /\ Inside(new[p])
      /\ space = [space EXCEPT ![p] = space[p]] /\ new = [new EXCEPT ![p] = new[p]]
  BY <1>2, AtIs
<1>e. /\ Memory!Min(free) \in free /\ n \in Spaces
      /\ Memory!OwnPages(n) = Memory!OwnPages(new[p]) \cup {Memory!Min(free)} /\ Inside(n)
      /\ OnlyPresent(n) /\ UpTo(n, 0) /\ 0 <= Memory!PGROUNDUP(proc[p].to)
  <2>2. Memory!Min(free) \in free
    BY <1>1, MinIs DEF MemInv, MemTypes
  <2>3. /\ Memory!Min(free) \in Memory!Pages /\ Memory!Min(free) # Memory!None
        /\ Memory!Min(free) \notin Memory!OwnPages(space[p])
        /\ Memory!Min(free) \notin Memory!OwnPages(new[p])
    BY <2>2, FreshPage
  <2>4. n \in Spaces /\ n.pte = new[p].pte /\ KernPages(n) = KernPages(new[p]) \cup {Memory!Min(free)}
    BY <1>2, <1>3, <2>3, KernIsSet
  <2> HIDE DEF n
  <2>5. Memory!OwnPages(n) = Memory!OwnPages(new[p]) \cup {Memory!Min(free)} /\ Inside(n)
         /\ (\A v \in Memory!VPages : Memory!Present(n, v) <=> Memory!Present(new[p], v))
              /\ (OnlyPresent(new[p]) => OnlyPresent(n))
    BY <1>3, <2>3, <2>4, KernGrows
  <2>6. UpTo(new[p], 0) /\ OnlyPresent(new[p])
    BY <1>2, <1>3 DEF Fit
  <2>7. Memory!PGROUNDUP(proc[p].to) \in Nat
    BY <1>3, RoundUp, ProcParts
  <2>q. QED
    BY <1>2, <2>2, <2>4, <2>5, <2>6, <2>7 DEF UpTo
<1>4. x \in ProcT
  BY <1>1, <1>2, <1>3, <1>e DEF ProcT, Pcs, Calls, PageOrNone, Slots
<1>5. /\ x.state = proc[p].state /\ x.parent = proc[p].parent /\ x.sz = proc[p].sz
      /\ x.kstack = proc[p].kstack /\ x.pc = "page" /\ x.call = proc[p].call
      /\ x.at = proc[p].at /\ x.to = proc[p].to /\ x.mem = proc[p].mem /\ x.child = proc[p].child
  BY <1>3 DEF ProcT
<1>u. Becomes(p, x, s, n) /\ s \in Spaces /\ n \in Spaces
  BY <1>1, <1>3, <1>e DEF Becomes, s
<1> HIDE DEF x, s, n
<1>6. Local(x, s, n)
  <2>1. Stage(x, n)
    BY <1>1, <1>2, <1>3, <1>5, <1>e DEF Stage, s
  <2>2. Fit(x, s, n)
    BY <1>1, <1>2, <1>3, <1>5, <1>e, NoSpaceIs DEF Fit, s
  <2>3. Absent(x, s)
    BY <1>2, <1>3, <1>5 DEF Absent, s
  <2>q. QED
    BY <1>3, <1>e, <2>1, <2>2, <2>3 DEF Local, s
<1>g. G' = Taken(G, NewOf(p), {Memory!Min(free)})
  <2> DEFINE g == Taken(G, NewOf(p), {Memory!Min(free)})
  <2>1. g = [h \in Memory!Holders |-> g[h]]
    BY DEF Taken
  <2>2. /\ g[SpaceOf(p)] = Memory!OwnPages(s) /\ g[NewOf(p)] = Memory!OwnPages(n)
        /\ g[MemOf(p)] = {x.mem} \ {Memory!None}
        /\ \A h \in Memory!Holders : h \notin {SpaceOf(p), NewOf(p), MemOf(p)} => g[h] = G[h]
    BY <1>1, <1>2, <1>5, <1>e, GIs, HoldersAre DEF Taken, s
  <2> HIDE DEF g
  <2>4. IsBy(g, p, x, s, n)
    BY <2>1, <2>2 DEF IsBy
  <2>3. G' = g
    BY <1>4, <1>5, <1>u, <2>4, OneHolds
  <2>q. QED
    BY <2>3 DEF g
<1>s. Sound(free', G') /\ Whole(free', G') = Whole(free, G) /\ free' \subseteq Memory!Pages
  <2>1. Sound(free, G) /\ free \subseteq Memory!Pages
    BY DEF MemInv, MemTypes
  <2>q. QED
    BY <1>1, <1>e, <1>g, <2>1, TakenIsSound, HoldersAre
<1>7. /\ proc' \in [Memory!Procs -> ProcT] /\ space' \in [Memory!Procs -> Spaces]
      /\ new' \in [Memory!Procs -> Spaces]
      /\ Locals' /\ Children'
  BY <1>2, <1>4, <1>5, <1>6, <1>u, OneChanges
<1>9. MemTypes'
  <2>1. data' \in [Memory!Pages -> Contained]
    BY <1>1, <1>e, FillTypes DEF MemInv, MemTypes, Contained
  <2>q. QED
    BY <1>7, <1>s, <2>1 DEF MemTypes
<1>q. QED
  BY <1>1, <1>7, <1>9, <1>s DEF MemInv, Keeps

\* In the loop of allocuvm or copyuvm.
LEMMA InLoop ==
  ASSUME MemInv, NEW p \in Memory!Procs, proc[p].state = "running", proc[p].pc \in {"page", "map"},
         proc[p].at < Memory!PGROUNDUP(proc[p].to)
  PROVE  /\ proc[p].call # "none" /\ proc[p].at \in Memory!VPages
         /\ proc[p].at \div PerTable \in Memory!Tables
         /\ Memory!PGROUNDUP(proc[p].to) \in Nat
         /\ proc[p].call = "fork" => Memory!Present(space[p], proc[p].at)
              /\ space[p].pte[proc[p].at].pa \in Memory!Pages
<1>1. proc[p] \in ProcT /\ space[p] \in Spaces /\ Stage(proc[p], new[p])
        /\ Fit(proc[p], space[p], new[p])
  BY AtIs
<1>2. proc[p].call # "none" /\ proc[p].to < KERNBASE
  BY <1>1 DEF Stage
<1>3. proc[p].at \in Nat /\ proc[p].to \in Nat
  BY <1>1, ProcParts
<1>4. proc[p].at \in Memory!VPages /\ proc[p].at \div PerTable \in Memory!Tables
        /\ Memory!PGROUNDUP(proc[p].to) \in Nat
  BY <1>2, <1>3, BelowIsVPage, RoundUp
<1>5. ASSUME proc[p].call = "fork" PROVE Memory!Present(space[p], proc[p].at)
             /\ space[p].pte[proc[p].at].pa \in Memory!Pages
  <2>1. UpTo(space[p], Memory!PGROUNDUP(proc[p].sz)) /\ proc[p].to = proc[p].sz
    BY <1>1, <1>2, <1>5 DEF Stage, Fit
  <2>2. Memory!Present(space[p], proc[p].at)
    BY <1>4, <2>1 DEF UpTo
  <2>3. space[p].pte[proc[p].at].pa \in PageOrNone
    BY <1>1, <1>4, SpaceParts
  <2>q. QED
    BY <2>2, <2>3 DEF Memory!Present, PageOrNone
<1>q. QED
  BY <1>2, <1>4, <1>5

\* copyuvm finds each page of the parent, so it does not panic.
LEMMA PageIs ==
  ASSUME MemInv, NEW p \in Memory!Procs, Memory!Page(p)
  PROVE  /\ proc[p].state = "running" /\ proc[p].pc = "page"
         /\ proc[p].at < Memory!PGROUNDUP(proc[p].to)
         /\ \/ /\ free # {} /\ free' = free \ {Memory!Min(free)}
              /\ data' = [data EXCEPT ![Memory!Min(free)] = Memory!Contents(p)]
               /\ proc' = [Memory!Go(p, "map") EXCEPT ![p].mem = Memory!Min(free)]
               /\ UNCHANGED <<space, new>>
            \/ free = {} /\ proc[p].call # "sbrk" /\ Memory!Undo(p, {}) /\ Memory!Fill
              /\ UNCHANGED space
            \/ /\ free = {} /\ proc[p].call = "sbrk"
               /\ LET less == Memory!Dealloc(space[p], proc[p].to, proc[p].sz)
                  IN  space' = [space EXCEPT ![p] = less.space] /\ free' = free \cup less.pages
               /\ proc' = Memory!Back(p) /\ Memory!Fill /\ UNCHANGED new
         /\ UNCHANGED panic
<1>1. proc[p].state = "running" /\ proc[p].pc = "page" /\ proc[p].at < Memory!PGROUNDUP(proc[p].to)
  BY DEF Memory!Page, Memory!At, Memory!Running
<1>2. ~(proc[p].call = "fork" /\ ~Memory!Present(space[p], proc[p].at))
  BY <1>1, InLoop
<1>q. QED
  BY <1>1, <1>2 DEF Memory!Page, Memory!Kalloc

LEMMA PageFoundKeeps == ASSUME MemInv, NEW p \in Memory!Procs, Memory!Page(p), free # {} PROVE Keeps
<1> DEFINE x == [proc[p] EXCEPT !.pc = "map", !.mem = Memory!Min(free)]
           s == space[p]
           n == new[p]
<1>1. /\ free # {} /\ proc[p].state = "running" /\ proc[p].pc = "page"
      /\ proc[p].at < Memory!PGROUNDUP(proc[p].to)
      /\ free' = free \ {Memory!Min(free)}
      /\ data' = [data EXCEPT ![Memory!Min(free)] = Memory!Contents(p)]
      /\ proc' = [proc EXCEPT ![p] = x] /\ UNCHANGED <<space, new, panic>>
  BY PageIs DEF Memory!Go
<1>2. /\ proc[p].state = "running" /\ proc[p].call # "none" /\ proc[p].mem = Memory!None
      /\ proc[p].pc = "page"
  <2>q. QED
    BY <1>1, AtIs, InLoop DEF Stage
<1>3. /\ proc[p] \in ProcT /\ space[p] \in Spaces /\ new[p] \in Spaces
      /\ Stage(proc[p], new[p]) /\ Fit(proc[p], space[p], new[p]) /\ Absent(proc[p], space[p])
      /\ Inside(space[p]) /\ Inside(new[p])
      /\ space = [space EXCEPT ![p] = space[p]] /\ new = [new EXCEPT ![p] = new[p]]
  BY <1>2, AtIs
<1>e. /\ Memory!Min(free) \in free /\ Memory!Min(free) \in Memory!Pages
      /\ Memory!Min(free) # Memory!None
      /\ data' \in [Memory!Pages -> Contained]
  <2>2. Memory!Min(free) \in free
    BY <1>1, MinIs DEF MemInv, MemTypes
  <2>3. /\ Memory!Min(free) \in Memory!Pages /\ Memory!Min(free) # Memory!None
        /\ Memory!Min(free) \notin Memory!OwnPages(space[p])
        /\ Memory!Min(free) \notin Memory!OwnPages(new[p])
    BY <2>2, FreshPage
  <2>4. Memory!Contents(p) \in Contained
    <3>1. proc[p].call = "fork" => data[space[p].pte[proc[p].at].pa] \in Contained
      BY <1>1, InLoop DEF MemInv, MemTypes
    <3>q. QED
      BY <3>1 DEF Memory!Contents, Contained
  <2>5. data \in [Memory!Pages -> Contained]
    BY DEF MemInv, MemTypes
  <2>q. QED
    BY <1>1, <2>2, <2>3, <2>4, <2>5
<1>4. x \in ProcT
  BY <1>1, <1>2, <1>3, <1>e DEF ProcT, Pcs, Calls, PageOrNone, Slots
<1>5. /\ x.state = proc[p].state /\ x.parent = proc[p].parent /\ x.sz = proc[p].sz
      /\ x.kstack = proc[p].kstack /\ x.pc = "map" /\ x.call = proc[p].call
      /\ x.at = proc[p].at /\ x.to = proc[p].to /\ x.mem = Memory!Min(free) /\ x.child = proc[p].child
  BY <1>3 DEF ProcT
<1>u. Becomes(p, x, s, n) /\ s \in Spaces /\ n \in Spaces
  BY <1>1, <1>3, <1>e DEF Becomes, s, n
<1> HIDE DEF x, s, n
<1>6. Local(x, s, n)
  <2>1. Stage(x, n)
    BY <1>1, <1>2, <1>3, <1>5, <1>e DEF Stage, s, n
  <2>2. Fit(x, s, n)
    BY <1>1, <1>2, <1>3, <1>5, <1>e, NoSpaceIs DEF Fit, s, n
  <2>3. Absent(x, s)
    BY <1>2, <1>3, <1>5 DEF Absent, s, n
  <2>q. QED
    BY <1>3, <1>e, <2>1, <2>2, <2>3 DEF Local, s, n
<1>g. G' = Taken(G, MemOf(p), {Memory!Min(free)})
  <2> DEFINE g == Taken(G, MemOf(p), {Memory!Min(free)})
  <2>1. g = [h \in Memory!Holders |-> g[h]]
    BY DEF Taken
  <2>2. /\ g[SpaceOf(p)] = Memory!OwnPages(s) /\ g[NewOf(p)] = Memory!OwnPages(n)
        /\ g[MemOf(p)] = {x.mem} \ {Memory!None}
        /\ \A h \in Memory!Holders : h \notin {SpaceOf(p), NewOf(p), MemOf(p)} => g[h] = G[h]
    BY <1>1, <1>2, <1>5, <1>e, GIs, HoldersAre DEF Taken, s, n
  <2> HIDE DEF g
  <2>4. IsBy(g, p, x, s, n)
    BY <2>1, <2>2 DEF IsBy
  <2>3. G' = g
    BY <1>4, <1>5, <1>u, <2>4, OneHolds
  <2>q. QED
    BY <2>3 DEF g
<1>s. Sound(free', G') /\ Whole(free', G') = Whole(free, G) /\ free' \subseteq Memory!Pages
  <2>1. Sound(free, G) /\ free \subseteq Memory!Pages
    BY DEF MemInv, MemTypes
  <2>q. QED
    BY <1>1, <1>e, <1>g, <2>1, TakenIsSound, HoldersAre
<1>7. /\ proc' \in [Memory!Procs -> ProcT] /\ space' \in [Memory!Procs -> Spaces]
      /\ new' \in [Memory!Procs -> Spaces]
      /\ Locals' /\ Children'
  BY <1>2, <1>4, <1>5, <1>6, <1>u, OneChanges
<1>9. MemTypes'
  <2>1. data' \in [Memory!Pages -> Contained]
    BY <1>1, <1>e, FillTypes DEF MemInv, MemTypes, Contained
  <2>q. QED
    BY <1>7, <1>s, <2>1 DEF MemTypes
<1>q. QED
  BY <1>1, <1>7, <1>9, <1>s DEF MemInv, Keeps

Entry(p) == [pa |-> proc[p].mem,
             user |-> CASE proc[p].call = "fork" -> space[p].pte[proc[p].at].user
                        [] proc[p].call = "exec" -> proc[p].at # ImageSize
                        [] OTHER -> TRUE]

\* mappages enters the page where none is: no "remap".
LEMMA MapIs ==
  ASSUME MemInv, NEW p \in Memory!Procs, Memory!Map(p)
  PROVE  /\ proc[p].state = "running" /\ proc[p].pc = "map" /\ proc[p].at < Memory!PGROUNDUP(proc[p].to)
         /\ proc[p].mem \in Memory!Pages
         /\ \E D \in SUBSET free, z \in Spaces :
              /\ free' = free \ D
              /\ Memory!OwnPages(z) = Memory!OwnPages(Memory!Target(p)) \cup {proc[p].mem} \cup D
              /\ Inside(z)
              /\ UpTo(z, proc[p].at + 1) /\ OnlyPresent(z)
              /\ \A y \in Memory!VPages : z.pte[y] = IF y = proc[p].at THEN Entry(p)
                   ELSE Memory!Target(p).pte[y]
              /\ Memory!Put(p, z)
         /\ proc' = Memory!Mapping(p) /\ UNCHANGED <<data, panic>>
<1> DEFINE a == proc[p].at
           s == Memory!Target(p)
           t == a \div PerTable
<1>1. proc[p].state = "running" /\ proc[p].pc = "map"
  BY DEF Memory!Map, Memory!At, Memory!Running
<1>2. /\ proc[p] \in ProcT /\ space[p] \in Spaces /\ new[p] \in Spaces
      /\ Stage(proc[p], new[p]) /\ Fit(proc[p], space[p], new[p])
      /\ Inside(space[p]) /\ Inside(new[p])
  BY <1>1, AtIs
<1>3. a < Memory!PGROUNDUP(proc[p].to) /\ proc[p].mem # Memory!None
  BY <1>1, <1>2 DEF Stage
<1>4. a \in Memory!VPages /\ t \in Memory!Tables /\ proc[p].call # "none" /\ a \in Nat
  BY <1>1, <1>2, <1>3, InLoop, ProcParts
<1>5. proc[p].mem \in Memory!Pages
  BY <1>2, <1>3, ProcParts DEF PageOrNone
<1>6. s \in Spaces /\ Inside(s) /\ UpTo(s, a) /\ OnlyPresent(s)
  BY <1>2, <1>4, ProcParts DEF Memory!Target, Fit, Calls
<1>7. proc[p].mem \notin Memory!OwnPages(s) /\ proc[p].mem \notin free
  <2>1. G[MemOf(p)] = {proc[p].mem} /\ G[SpaceOf(p)] = Memory!OwnPages(space[p])
          /\ G[NewOf(p)] = Memory!OwnPages(new[p])
    BY <1>3, GIs
  <2>2. /\ {MemOf(p), SpaceOf(p), NewOf(p)} \subseteq Memory!Holders /\ MemOf(p) # SpaceOf(p)
        /\ MemOf(p) # NewOf(p)
    BY HoldersAre
  <2>3. G[MemOf(p)] \cap G[SpaceOf(p)] = {} /\ G[MemOf(p)] \cap G[NewOf(p)] = {}
          /\ free \cap G[MemOf(p)] = {}
    BY <2>2 DEF MemInv, Sound
  <2>q. QED
    BY <2>1, <2>3 DEF Memory!Target
<1>8. ~Memory!Present(s, a)
  BY <1>4, <1>6 DEF UpTo
<1> DEFINE entry == Entry(p)
           u == entry.user
<1>9. entry = [pa |-> proc[p].mem, user |-> u] /\ u \in BOOLEAN
  <2>1. space[p].pte[a].user \in BOOLEAN
    BY <1>2, <1>4, SpaceParts
  <2>2. entry.user \in BOOLEAN
    BY <2>1 DEF Entry
  <2>q. QED
    BY <2>2 DEF Entry
<1>10. \A built : Memory!Mapped(p, built) = [built EXCEPT !.pte[a] = entry]
  BY DEF Memory!Mapped, Entry
<1> HIDE DEF u, entry, s
<1>11. ASSUME NEW D \in SUBSET free, NEW built \in Spaces, built.pte = s.pte,
              Memory!OwnPages(built) = Memory!OwnPages(s) \cup D, Inside(built),
              OnlyPresent(built)
       PROVE  LET z == Memory!Mapped(p, built)
              IN  /\ z \in Spaces
                  /\ Memory!OwnPages(z) = Memory!OwnPages(s) \cup {proc[p].mem} \cup D /\ Inside(z)
                  /\ UpTo(z, a + 1) /\ OnlyPresent(z)
                  /\ \A y \in Memory!VPages : z.pte[y] = IF y = a THEN entry ELSE s.pte[y]
  <2> DEFINE z == Memory!Mapped(p, built)
  <2>0. ~Memory!Present(built, a) /\ proc[p].mem \notin Memory!OwnPages(built)
    BY <1>7, <1>8, <1>11 DEF Memory!Present
  <2>1. z = [built EXCEPT !.pte[a] = [pa |-> proc[p].mem, user |-> u]]
    BY <1>9, <1>10
  <2> HIDE DEF z
  <2>2. /\ z \in Spaces /\ Memory!OwnPages(z) = Memory!OwnPages(built) \cup {proc[p].mem} /\ Inside(z)
        /\ \A y \in Memory!VPages : z.pte[y] = IF y = a THEN entry ELSE built.pte[y]
        /\ \A y \in Memory!VPages : Memory!Present(z, y) <=> y = a \/ Memory!Present(built, y)
        /\ OnlyPresent(z)
    <3>1. WithPte(z, built, proc[p].mem, a, u, entry)
      BY <1>9, <1>10 DEF WithPte, z
    <3>q. QED
      BY <1>4, <1>5, <1>9, <1>11, <2>0, <3>1, PteIsSet
  <2>3. UpTo(z, a + 1)
    <3>1. \A y \in Memory!VPages : Memory!Present(built, y) <=> y < a
      BY <1>6, <1>11 DEF UpTo, Memory!Present
    <3>2. \A y \in Memory!VPages : y \in Nat
      BY DEF Memory!VPages
    <3>q. QED
      BY <1>4, <2>2, <3>1, <3>2 DEF UpTo
  <2>q. QED
    BY <1>11, <2>2, <2>3 DEF z
<1> DEFINE pg == Memory!Min(free)
           r1 == [s EXCEPT !.table[t] = pg]
<1>12. /\ \/ s.table[t] # Memory!None /\ Memory!Put(p, Memory!Mapped(p, s)) /\ free' = free
          \/ s.table[t] = Memory!None /\ free # {} /\ free' = free \ {pg}
            /\ Memory!Put(p, Memory!Mapped(p, r1))
       /\ proc' = Memory!Mapping(p) /\ UNCHANGED <<data, panic>>
  BY <1>8 DEF Memory!Map, Memory!Kalloc, s
<1>13. CASE s.table[t] # Memory!None
  <2>1. Memory!Put(p, Memory!Mapped(p, s)) /\ free' = free \ {}
    BY <1>12, <1>13
  <2>2. {} \in SUBSET free /\ Memory!OwnPages(s) = Memory!OwnPages(s) \cup {}
    OBVIOUS
  <2> DEFINE z == Memory!Mapped(p, s)
  <2>3. /\ z \in Spaces
        /\ Memory!OwnPages(z) = Memory!OwnPages(s) \cup {proc[p].mem} \cup {} /\ Inside(z)
        /\ UpTo(z, a + 1) /\ OnlyPresent(z)
        /\ \A y \in Memory!VPages : z.pte[y] = IF y = a THEN entry ELSE s.pte[y]
    BY <1>6, <1>11, <2>2
  <2> HIDE DEF z
  <2>q. QED
    BY <1>1, <1>3, <1>5, <1>12, <2>1, <2>2, <2>3 DEF z, entry, s
<1>14. CASE s.table[t] = Memory!None
  <2>1. Memory!Put(p, Memory!Mapped(p, r1)) /\ free' = free \ {pg} /\ pg \in free
    <3>1. free \subseteq Memory!Pages
      BY DEF MemInv, MemTypes
    <3>q. QED
      BY <1>12, <1>14, <3>1, MinIs
  <2>2. pg \in Memory!Pages /\ pg \notin Memory!OwnPages(s)
    BY <2>1, FreshPage DEF s, Memory!Target
  <2>3. r1 \in Spaces /\ r1.pte = s.pte /\ KernPages(r1) = KernPages(s) \cup {pg}
    BY <1>4, <1>6, <1>14, <2>2, TableIsSet
  <2> HIDE DEF r1, pg
  <2>4. Memory!OwnPages(r1) = Memory!OwnPages(s) \cup {pg} /\ Inside(r1) /\ OnlyPresent(r1)
    BY <1>6, <2>2, <2>3, KernGrows
  <2> DEFINE z == Memory!Mapped(p, r1)
  <2>5. /\ z \in Spaces
        /\ Memory!OwnPages(z) = Memory!OwnPages(s) \cup {proc[p].mem} \cup {pg} /\ Inside(z)
        /\ UpTo(z, a + 1) /\ OnlyPresent(z)
        /\ \A y \in Memory!VPages : z.pte[y] = IF y = a THEN entry ELSE s.pte[y]
    BY <1>11, <2>1, <2>3, <2>4
  <2> HIDE DEF z
  <2>q. QED
    BY <1>1, <1>3, <1>5, <1>12, <2>1, <2>5 DEF z, entry, s
<1>q. QED
  BY <1>13, <1>14

MapsTo(p, D, z) ==
  /\ free' = free \ D
  /\ Memory!OwnPages(z) = Memory!OwnPages(Memory!Target(p)) \cup {proc[p].mem} \cup D /\ Inside(z)
  /\ UpTo(z, proc[p].at + 1) /\ OnlyPresent(z)
  /\ proc[p].state = "running" /\ proc[p].pc = "map" /\ proc[p].at < Memory!PGROUNDUP(proc[p].to)
  /\ proc[p].mem \in Memory!Pages
  /\ Memory!Put(p, z) /\ proc' = Memory!Mapping(p) /\ UNCHANGED <<data, panic>>

LEMMA MapOldKeeps == ASSUME MemInv, NEW p \in Memory!Procs, NEW D \in SUBSET free, NEW z \in Spaces,
  MapsTo(p, D, z), proc[p].call = "sbrk" PROVE Keeps
<1> DEFINE x == [proc[p] EXCEPT !.pc = "page", !.at = proc[p].at + 1, !.mem = Memory!None]
           s == z
           n == new[p]
<1>1. /\ free' = free \ D /\ UNCHANGED <<data, panic>> /\ proc' = [proc EXCEPT ![p] = x]
      /\ Memory!OwnPages(z) = Memory!OwnPages(space[p]) \cup {proc[p].mem} \cup D /\ Inside(z)
      /\ UpTo(z, proc[p].at + 1) /\ OnlyPresent(z) /\ proc[p].call = "sbrk"
      /\ proc[p].state = "running" /\ proc[p].pc = "map" /\ proc[p].at < Memory!PGROUNDUP(proc[p].to)
      /\ proc[p].mem \in Memory!Pages /\ space' = [space EXCEPT ![p] = z] /\ UNCHANGED new
  <2>1. /\ Memory!Put(p, z) /\ proc' = Memory!Mapping(p)
        /\ Memory!OwnPages(z) = Memory!OwnPages(Memory!Target(p)) \cup {proc[p].mem} \cup D
    BY DEF MapsTo
  <2>2. Memory!Target(p) = space[p]
    BY DEF Memory!Target
  <2>3. proc' = [proc EXCEPT ![p] = x]
    <3>1. proc \in [Memory!Procs -> ProcT]
      BY DEF MemInv, MemTypes
    <3>q. QED
      BY <2>1, <3>1 DEF Memory!Mapping, Memory!Go
  <2>4. /\ space' = [space EXCEPT ![p] = z] /\ UNCHANGED new
    BY <2>1 DEF Memory!Put
  <2> HIDE DEF x
  <2>q. QED
    BY <2>1, <2>2, <2>3, <2>4, SMTT(30) DEF MapsTo
<1>2. proc[p].call # "none" /\ proc[p].state = "running" /\ proc[p].pc = "map"
  BY <1>1, AtIs DEF Stage
<1>3. /\ proc[p] \in ProcT /\ space[p] \in Spaces /\ new[p] \in Spaces
      /\ Stage(proc[p], new[p]) /\ Fit(proc[p], space[p], new[p]) /\ Absent(proc[p], space[p])
      /\ Inside(space[p]) /\ Inside(new[p])
      /\ space = [space EXCEPT ![p] = space[p]] /\ new = [new EXCEPT ![p] = new[p]]
  BY <1>2, AtIs
<1>e. /\ proc[p].at \in Nat /\ proc[p].at + 1 \in Nat /\ Inside(z)
      /\ Memory!PGROUNDUP(proc[p].to) \in Nat /\ Memory!PGROUNDUP(proc[p].sz) \in Nat
      /\ proc[p].at + 1 <= Memory!PGROUNDUP(proc[p].to)
           /\ (proc[p].call \in {"fork", "exec"} \/ proc[p].call = "sbrk")
      /\ \A m \in Nat : m <= proc[p].at => m <= proc[p].at + 1
  <2>1. proc[p].at \in Nat /\ Memory!PGROUNDUP(proc[p].to) \in Nat
          /\ Memory!PGROUNDUP(proc[p].sz) \in Nat
    BY <1>3, RoundUp, ProcParts
  <2>q. QED
    BY <1>1, <1>2, <1>3, <2>1, ProcParts DEF Calls
<1>4. x \in ProcT
  BY <1>1, <1>2, <1>3, <1>e DEF ProcT, Pcs, Calls, PageOrNone, Slots
<1>5. /\ x.state = proc[p].state /\ x.parent = proc[p].parent /\ x.sz = proc[p].sz
      /\ x.kstack = proc[p].kstack /\ x.pc = "page" /\ x.call = proc[p].call
      /\ x.at = proc[p].at + 1 /\ x.to = proc[p].to /\ x.mem = Memory!None /\ x.child = proc[p].child
  BY <1>3 DEF ProcT
<1>u. Becomes(p, x, s, n) /\ s \in Spaces /\ n \in Spaces
  BY <1>1, <1>3, <1>e DEF Becomes, s, n
<1> HIDE DEF x, s, n
<1>6. Local(x, s, n)
  <2>1. Stage(x, n)
    BY <1>1, <1>2, <1>3, <1>5, <1>e DEF Stage, s, n
  <2>2. Fit(x, s, n)
    BY <1>1, <1>2, <1>3, <1>5, <1>e, NoSpaceIs DEF Fit, s, n
  <2>3. Absent(x, s)
    BY <1>2, <1>3, <1>5 DEF Absent, s, n
  <2>q. QED
    BY <1>3, <1>e, <2>1, <2>2, <2>3 DEF Local, s, n
<1>g. G' = Handed(Taken(G, SpaceOf(p), D), MemOf(p), SpaceOf(p))
  <2> DEFINE g == Handed(Taken(G, SpaceOf(p), D), MemOf(p), SpaceOf(p))
  <2>1. g = [h \in Memory!Holders |-> g[h]]
    BY DEF Handed, Taken
  <2>2. /\ g[SpaceOf(p)] = Memory!OwnPages(s) /\ g[NewOf(p)] = Memory!OwnPages(n)
        /\ g[MemOf(p)] = {x.mem} \ {Memory!None}
        /\ \A h \in Memory!Holders : h \notin {SpaceOf(p), NewOf(p), MemOf(p)} => g[h] = G[h]
    <3> DEFINE g0 == Taken(G, SpaceOf(p), D)
    <3>1. \A h \in Memory!Holders : g0[h] = IF h = SpaceOf(p) THEN G[h] \cup D ELSE G[h]
      BY DEF Taken
    <3>2. \A h \in Memory!Holders : g[h] = IF h = MemOf(p) THEN {} ELSE IF h = SpaceOf(p)
            THEN g0[MemOf(p)] \cup g0[SpaceOf(p)] ELSE g0[h]
      BY DEF Handed
    <3> HIDE DEF g0, g
    <3>3. /\ {SpaceOf(p), NewOf(p), MemOf(p)} \subseteq Memory!Holders
          /\ SpaceOf(p) # NewOf(p) /\ SpaceOf(p) # MemOf(p) /\ NewOf(p) # MemOf(p)
      BY HoldersAre
    <3>4. G[SpaceOf(p)] = Memory!OwnPages(space[p]) /\ G[NewOf(p)] = Memory!OwnPages(new[p])
            /\ G[MemOf(p)] = {proc[p].mem}
      BY <1>1, GIs, NoPageIsNone
    <3>q. QED
      BY <1>1, <1>5, <3>1, <3>2, <3>3, <3>4 DEF s, n
  <2> HIDE DEF g
  <2>4. IsBy(g, p, x, s, n)
    BY <2>1, <2>2 DEF IsBy
  <2>3. G' = g
    BY <1>4, <1>5, <1>u, <2>4, OneHolds
  <2>q. QED
    BY <2>3 DEF g
<1>s. Sound(free', G') /\ Whole(free', G') = Whole(free, G) /\ free' \subseteq Memory!Pages
  <2>1. Sound(free, G) /\ free \subseteq Memory!Pages
    BY DEF MemInv, MemTypes
  <2>2. SpaceOf(p) \in Memory!Holders /\ MemOf(p) \in Memory!Holders /\ SpaceOf(p) # MemOf(p)
    BY HoldersAre
  <2>3. /\ Sound(free \ D, Taken(G, SpaceOf(p), D))
        /\ Whole(free \ D, Taken(G, SpaceOf(p), D)) = Whole(free, G)
    BY <2>1, <2>2, TakenIsSound
  <2>q. QED
    BY <1>1, <1>g, <2>1, <2>2, <2>3, HandedIsSound
<1>7. /\ proc' \in [Memory!Procs -> ProcT] /\ space' \in [Memory!Procs -> Spaces]
      /\ new' \in [Memory!Procs -> Spaces]
      /\ Locals' /\ Children'
  BY <1>2, <1>4, <1>5, <1>6, <1>u, OneChanges
<1>9. MemTypes'
  <2>1. data' \in [Memory!Pages -> Contained]
    BY <1>1, <1>e, FillTypes DEF MemInv, MemTypes, Contained
  <2>q. QED
    BY <1>7, <1>s, <2>1 DEF MemTypes
<1>q. QED
  BY <1>1, <1>7, <1>9, <1>s DEF MemInv, Keeps

LEMMA MapNewKeeps == ASSUME MemInv, NEW p \in Memory!Procs, NEW D \in SUBSET free, NEW z \in Spaces,
  MapsTo(p, D, z), proc[p].call # "sbrk" PROVE Keeps
<1> DEFINE x == [proc[p] EXCEPT !.pc = "page", !.at = proc[p].at + 1, !.mem = Memory!None]
           s == space[p]
           n == z
<1>1. /\ free' = free \ D /\ UNCHANGED <<data, panic>> /\ proc' = [proc EXCEPT ![p] = x]
      /\ Memory!OwnPages(z) = Memory!OwnPages(new[p]) \cup {proc[p].mem} \cup D /\ Inside(z)
      /\ UpTo(z, proc[p].at + 1) /\ OnlyPresent(z) /\ proc[p].call # "sbrk"
      /\ proc[p].state = "running" /\ proc[p].pc = "map" /\ proc[p].at < Memory!PGROUNDUP(proc[p].to)
      /\ proc[p].mem \in Memory!Pages /\ new' = [new EXCEPT ![p] = z] /\ UNCHANGED space
  <2>1. /\ Memory!Put(p, z) /\ proc' = Memory!Mapping(p)
        /\ Memory!OwnPages(z) = Memory!OwnPages(Memory!Target(p)) \cup {proc[p].mem} \cup D
    BY DEF MapsTo
  <2>2. Memory!Target(p) = new[p]
    BY DEF Memory!Target
  <2>3. proc' = [proc EXCEPT ![p] = x]
    <3>1. proc \in [Memory!Procs -> ProcT]
      BY DEF MemInv, MemTypes
    <3>q. QED
      BY <2>1, <3>1 DEF Memory!Mapping, Memory!Go
  <2>4. /\ new' = [new EXCEPT ![p] = z] /\ UNCHANGED space
    BY <2>1 DEF Memory!Put
  <2> HIDE DEF x
  <2>q. QED
    BY <2>1, <2>2, <2>3, <2>4, SMTT(30) DEF MapsTo
<1>2. proc[p].call # "none" /\ proc[p].state = "running" /\ proc[p].pc = "map"
  BY <1>1, AtIs DEF Stage
<1>3. /\ proc[p] \in ProcT /\ space[p] \in Spaces /\ new[p] \in Spaces
      /\ Stage(proc[p], new[p]) /\ Fit(proc[p], space[p], new[p]) /\ Absent(proc[p], space[p])
      /\ Inside(space[p]) /\ Inside(new[p])
      /\ space = [space EXCEPT ![p] = space[p]] /\ new = [new EXCEPT ![p] = new[p]]
  BY <1>2, AtIs
<1>e. /\ proc[p].at \in Nat /\ proc[p].at + 1 \in Nat /\ Inside(z)
      /\ Memory!PGROUNDUP(proc[p].to) \in Nat /\ Memory!PGROUNDUP(proc[p].sz) \in Nat
      /\ proc[p].at + 1 <= Memory!PGROUNDUP(proc[p].to)
           /\ (proc[p].call \in {"fork", "exec"} \/ proc[p].call = "sbrk")
      /\ \A m \in Nat : m <= proc[p].at => m <= proc[p].at + 1
  <2>1. proc[p].at \in Nat /\ Memory!PGROUNDUP(proc[p].to) \in Nat
          /\ Memory!PGROUNDUP(proc[p].sz) \in Nat
    BY <1>3, RoundUp, ProcParts
  <2>q. QED
    BY <1>1, <1>2, <1>3, <2>1, ProcParts DEF Calls
<1>4. x \in ProcT
  BY <1>1, <1>2, <1>3, <1>e DEF ProcT, Pcs, Calls, PageOrNone, Slots
<1>5. /\ x.state = proc[p].state /\ x.parent = proc[p].parent /\ x.sz = proc[p].sz
      /\ x.kstack = proc[p].kstack /\ x.pc = "page" /\ x.call = proc[p].call
      /\ x.at = proc[p].at + 1 /\ x.to = proc[p].to /\ x.mem = Memory!None /\ x.child = proc[p].child
  BY <1>3 DEF ProcT
<1>u. Becomes(p, x, s, n) /\ s \in Spaces /\ n \in Spaces
  BY <1>1, <1>3, <1>e DEF Becomes, s, n
<1> HIDE DEF x, s, n
<1>6. Local(x, s, n)
  <2>1. Stage(x, n)
    BY <1>1, <1>2, <1>3, <1>5, <1>e DEF Stage, s, n
  <2>2. Fit(x, s, n)
    BY <1>1, <1>2, <1>3, <1>5, <1>e, NoSpaceIs DEF Fit, s, n
  <2>3. Absent(x, s)
    BY <1>2, <1>3, <1>5 DEF Absent, s, n
  <2>q. QED
    BY <1>3, <1>e, <2>1, <2>2, <2>3 DEF Local, s, n
<1>g. G' = Handed(Taken(G, NewOf(p), D), MemOf(p), NewOf(p))
  <2> DEFINE g == Handed(Taken(G, NewOf(p), D), MemOf(p), NewOf(p))
  <2>1. g = [h \in Memory!Holders |-> g[h]]
    BY DEF Handed, Taken
  <2>2. /\ g[SpaceOf(p)] = Memory!OwnPages(s) /\ g[NewOf(p)] = Memory!OwnPages(n)
        /\ g[MemOf(p)] = {x.mem} \ {Memory!None}
        /\ \A h \in Memory!Holders : h \notin {SpaceOf(p), NewOf(p), MemOf(p)} => g[h] = G[h]
    <3> DEFINE g0 == Taken(G, NewOf(p), D)
    <3>1. \A h \in Memory!Holders : g0[h] = IF h = NewOf(p) THEN G[h] \cup D ELSE G[h]
      BY DEF Taken
    <3>2. \A h \in Memory!Holders : g[h] = IF h = MemOf(p) THEN {} ELSE IF h = NewOf(p)
            THEN g0[MemOf(p)] \cup g0[NewOf(p)] ELSE g0[h]
      BY DEF Handed
    <3> HIDE DEF g0, g
    <3>3. /\ {SpaceOf(p), NewOf(p), MemOf(p)} \subseteq Memory!Holders
          /\ SpaceOf(p) # NewOf(p) /\ SpaceOf(p) # MemOf(p) /\ NewOf(p) # MemOf(p)
      BY HoldersAre
    <3>4. G[SpaceOf(p)] = Memory!OwnPages(space[p]) /\ G[NewOf(p)] = Memory!OwnPages(new[p])
            /\ G[MemOf(p)] = {proc[p].mem}
      BY <1>1, GIs, NoPageIsNone
    <3>q. QED
      BY <1>1, <1>5, <3>1, <3>2, <3>3, <3>4 DEF s, n
  <2> HIDE DEF g
  <2>4. IsBy(g, p, x, s, n)
    BY <2>1, <2>2 DEF IsBy
  <2>3. G' = g
    BY <1>4, <1>5, <1>u, <2>4, OneHolds
  <2>q. QED
    BY <2>3 DEF g
<1>s. Sound(free', G') /\ Whole(free', G') = Whole(free, G) /\ free' \subseteq Memory!Pages
  <2>1. Sound(free, G) /\ free \subseteq Memory!Pages
    BY DEF MemInv, MemTypes
  <2>2. NewOf(p) \in Memory!Holders /\ MemOf(p) \in Memory!Holders /\ NewOf(p) # MemOf(p)
    BY HoldersAre
  <2>3. /\ Sound(free \ D, Taken(G, NewOf(p), D))
        /\ Whole(free \ D, Taken(G, NewOf(p), D)) = Whole(free, G)
    BY <2>1, <2>2, TakenIsSound
  <2>q. QED
    BY <1>1, <1>g, <2>1, <2>2, <2>3, HandedIsSound
<1>7. /\ proc' \in [Memory!Procs -> ProcT] /\ space' \in [Memory!Procs -> Spaces]
      /\ new' \in [Memory!Procs -> Spaces]
      /\ Locals' /\ Children'
  BY <1>2, <1>4, <1>5, <1>6, <1>u, OneChanges
<1>9. MemTypes'
  <2>1. data' \in [Memory!Pages -> Contained]
    BY <1>1, <1>e, FillTypes DEF MemInv, MemTypes, Contained
  <2>q. QED
    BY <1>7, <1>s, <2>1 DEF MemTypes
<1>q. QED
  BY <1>1, <1>7, <1>9, <1>s DEF MemInv, Keeps

LEMMA MapKeeps == ASSUME MemInv, NEW p \in Memory!Procs, Memory!Map(p) PROVE Keeps
<1>1. \E D \in SUBSET free, z \in Spaces : MapsTo(p, D, z)
  BY MapIs DEF MapsTo
<1>q. QED
  BY <1>1, MapOldKeeps, MapNewKeeps

LEMMA PageShortKeeps == ASSUME MemInv, NEW p \in Memory!Procs, Memory!Page(p), free = {},
  proc[p].call = "sbrk" PROVE Keeps
<1> DEFINE x == [proc[p] EXCEPT !.pc = "user", !.call = "none", !.at = 0, !.to = 0,
            !.mem = Memory!None, !.child = 0]
           s == Memory!Dealloc(space[p], proc[p].to, proc[p].sz).space
           S == Memory!Dealloc(space[p], proc[p].to, proc[p].sz).pages
           n == new[p]
<1>1. /\ proc[p].call = "sbrk" /\ proc[p].state = "running" /\ proc[p].pc = "page"
      /\ space' = [space EXCEPT ![p] = s] /\ free' = free \cup S
      /\ proc' = [proc EXCEPT ![p] = x] /\ Memory!Fill /\ UNCHANGED new /\ UNCHANGED panic
  BY PageIs, ZenonT(60) DEF Memory!Back
<1>2. /\ proc[p].call # "none" /\ proc[p].mem = Memory!None /\ new[p] = Memory!NoSpace
      /\ proc[p].child = 0
      /\ UpTo(space[p], proc[p].at) /\ Memory!PGROUNDUP(proc[p].sz) <= proc[p].at
      /\ proc[p].at <= Memory!PGROUNDUP(proc[p].to)
      /\ proc[p].state = "running"
  BY <1>1, AtIs DEF Stage, Fit
<1>3. /\ proc[p] \in ProcT /\ space[p] \in Spaces /\ new[p] \in Spaces
      /\ Stage(proc[p], new[p]) /\ Fit(proc[p], space[p], new[p]) /\ Absent(proc[p], space[p])
      /\ Inside(space[p]) /\ Inside(new[p])
      /\ space = [space EXCEPT ![p] = space[p]] /\ new = [new EXCEPT ![p] = new[p]]
  BY <1>2, AtIs
<1>e. /\ s \in Spaces /\ Memory!OwnPages(s) = Memory!OwnPages(space[p]) \ S
      /\ S \subseteq Memory!OwnPages(space[p]) /\ Inside(s)
      /\ OnlyPresent(s) /\ UpTo(s, Memory!PGROUNDUP(proc[p].sz))
  <2>1. /\ s \in Spaces /\ Memory!OwnPages(s) = Memory!OwnPages(space[p]) \ S
        /\ S \subseteq Memory!OwnPages(space[p]) /\ Inside(s)
        /\ \A v \in Memory!VPages : Memory!Present(s, v) <=> Memory!Present(space[p], v)
             /\ ~(Memory!PGROUNDUP(proc[p].sz) <= v /\ v < Memory!PGROUNDUP(proc[p].to))
        /\ OnlyPresent(space[p]) => OnlyPresent(s)
    BY <1>3, ProcParts, DeallocIs
  <2> HIDE DEF s, S
  <2>2. Memory!PGROUNDUP(proc[p].to) \in Nat /\ Memory!PGROUNDUP(proc[p].sz) \in Nat
          /\ proc[p].at \in Nat /\ \A v \in Memory!VPages : v \in Nat
    BY <1>3, RoundUp, ProcParts DEF Memory!VPages
  <2>3. UpTo(s, Memory!PGROUNDUP(proc[p].sz))
    BY <1>2, <2>1, <2>2 DEF UpTo
  <2>q. QED
    BY <1>3, <2>1, <2>3 DEF Fit
<1> HIDE DEF S
<1>4. x \in ProcT
  BY <1>1, <1>2, <1>3, <1>e DEF ProcT, Pcs, Calls, PageOrNone, Slots
<1>5. /\ x.state = proc[p].state /\ x.parent = proc[p].parent /\ x.sz = proc[p].sz
      /\ x.kstack = proc[p].kstack /\ x.pc = "user" /\ x.call = "none"
      /\ x.at = 0 /\ x.to = 0 /\ x.mem = Memory!None /\ x.child = 0
  BY <1>3 DEF ProcT
<1>u. Becomes(p, x, s, n) /\ s \in Spaces /\ n \in Spaces
  BY <1>1, <1>3, <1>e DEF Becomes, n
<1> HIDE DEF x, s, n
<1>6. Local(x, s, n)
  <2>1. Stage(x, n)
    BY <1>1, <1>2, <1>3, <1>5, <1>e DEF Stage, n
  <2>2. Fit(x, s, n)
    BY <1>1, <1>2, <1>3, <1>5, <1>e, NoSpaceIs DEF Fit, n
  <2>3. Absent(x, s)
    BY <1>2, <1>3, <1>5 DEF Absent, n
  <2>q. QED
    BY <1>3, <1>e, <2>1, <2>2, <2>3 DEF Local, n
<1>g. G' = Without(G, SpaceOf(p), S)
  <2> DEFINE g == Without(G, SpaceOf(p), S)
  <2>1. g = [h \in Memory!Holders |-> g[h]]
    BY DEF Without
  <2>2. /\ g[SpaceOf(p)] = Memory!OwnPages(s) /\ g[NewOf(p)] = Memory!OwnPages(n)
        /\ g[MemOf(p)] = {x.mem} \ {Memory!None}
        /\ \A h \in Memory!Holders : h \notin {SpaceOf(p), NewOf(p), MemOf(p)} => g[h] = G[h]
    BY <1>1, <1>2, <1>5, <1>e, GIs, HoldersAre DEF Without, n
  <2> HIDE DEF g
  <2>4. IsBy(g, p, x, s, n)
    BY <2>1, <2>2 DEF IsBy
  <2>3. G' = g
    BY <1>4, <1>5, <1>u, <2>4, OneHolds
  <2>q. QED
    BY <2>3 DEF g
<1>s. Sound(free', G') /\ Whole(free', G') = Whole(free, G) /\ free' \subseteq Memory!Pages
  <2>1. Sound(free, G) /\ free \subseteq Memory!Pages /\ S \subseteq Memory!Pages
    BY <1>3, <1>e, OwnIs DEF MemInv, MemTypes
  <2>2. SpaceOf(p) \in Memory!Holders /\ S \subseteq G[SpaceOf(p)]
    BY <1>e, GIs, HoldersAre
  <2>q. QED
    BY <1>1, <1>g, <2>1, <2>2, GivenIsSound
<1>7. /\ proc' \in [Memory!Procs -> ProcT] /\ space' \in [Memory!Procs -> Spaces]
      /\ new' \in [Memory!Procs -> Spaces]
      /\ Locals' /\ Children'
  BY <1>2, <1>4, <1>5, <1>6, <1>u, OneChanges
<1>9. MemTypes'
  <2>1. data' \in [Memory!Pages -> Contained]
    BY <1>1, <1>e, FillTypes DEF MemInv, MemTypes, Contained
  <2>q. QED
    BY <1>7, <1>s, <2>1 DEF MemTypes
<1>q. QED
  BY <1>1, <1>7, <1>9, <1>s, SMTT(30) DEF MemInv, Keeps

\* sbrk: the system call begins to allocate, or frees.
Grows(p, n) ==
  /\ Memory!InUser(p) /\ n > 0 /\ proc[p].sz + n < KERNBASE
  /\ proc' = [proc EXCEPT ![p].pc = "page", ![p].call = "sbrk",
                          ![p].at = Memory!PGROUNDUP(proc[p].sz), ![p].to = proc[p].sz + n]
  /\ UNCHANGED <<free, space>> /\ Memory!Fill /\ UNCHANGED <<new, panic>>
Shrinks(p, n) ==
  /\ Memory!InUser(p) /\ n < 0 /\ proc[p].sz + n >= 0
  /\ space' = [space EXCEPT ![p] = Memory!Dealloc(space[p], proc[p].sz, proc[p].sz + n).space]
  /\ free' = free \cup Memory!Dealloc(space[p], proc[p].sz, proc[p].sz + n).pages
  /\ proc' = [proc EXCEPT ![p].sz = IF proc[p].sz + n = 0 THEN proc[p].sz ELSE proc[p].sz + n]
  /\ Memory!Fill /\ UNCHANGED <<new, panic>>

LEMMA SbrkGrowKeeps == ASSUME MemInv, NEW p \in Memory!Procs, NEW k \in Amounts, Grows(p, k) PROVE Keeps
<1> DEFINE x == [proc[p] EXCEPT !.pc = "page", !.call = "sbrk", !.at = Memory!PGROUNDUP(proc[p].sz),
            !.to = proc[p].sz + k]
           s == space[p]
           n == new[p]
<1>1. /\ Memory!InUser(p) /\ k \in Int /\ k > 0 /\ proc[p].sz + k < KERNBASE
      /\ proc' = [proc EXCEPT ![p] = x]
      /\ UNCHANGED <<free, space>> /\ Memory!Fill /\ UNCHANGED <<new, panic>>
  BY MemoryAssumption DEF Grows
<1>2. /\ proc[p].state = "running" /\ proc[p].pc = "user" /\ proc[p].call = "none"
      /\ proc[p].mem = Memory!None
      /\ proc[p].child = 0 /\ proc[p].at = 0 /\ new[p] = Memory!NoSpace
      /\ UpTo(space[p], Memory!PGROUNDUP(proc[p].sz))
  BY <1>1, InUserIs
<1>3. /\ proc[p] \in ProcT /\ space[p] \in Spaces /\ new[p] \in Spaces
      /\ Stage(proc[p], new[p]) /\ Fit(proc[p], space[p], new[p]) /\ Absent(proc[p], space[p])
      /\ Inside(space[p]) /\ Inside(new[p])
      /\ space = [space EXCEPT ![p] = space[p]] /\ new = [new EXCEPT ![p] = new[p]]
  BY <1>2, AtIs
<1>e. /\ proc[p].sz \in Nat /\ proc[p].sz + k \in Nat /\ proc[p].sz <= proc[p].sz + k
      /\ Memory!PGROUNDUP(proc[p].sz) \in Nat
      /\ Memory!PGROUNDUP(proc[p].sz) <= Memory!PGROUNDUP(proc[p].sz + k)
  <2>1. proc[p].sz \in Nat
    BY <1>3, ProcParts
  <2>2. proc[p].sz + k \in Nat /\ proc[p].sz <= proc[p].sz + k
    BY <1>1, <2>1
  <2>q. QED
    BY <2>1, <2>2, RoundUp, RoundUpGrows
<1>4. x \in ProcT
  BY <1>1, <1>2, <1>3, <1>e DEF ProcT, Pcs, Calls, PageOrNone, Slots
<1>5. /\ x.state = proc[p].state /\ x.parent = proc[p].parent /\ x.sz = proc[p].sz
      /\ x.kstack = proc[p].kstack /\ x.pc = "page" /\ x.call = "sbrk"
      /\ x.at = Memory!PGROUNDUP(proc[p].sz) /\ x.to = proc[p].sz + k /\ x.mem = proc[p].mem
      /\ x.child = proc[p].child
  BY <1>3 DEF ProcT
<1>u. Becomes(p, x, s, n) /\ s \in Spaces /\ n \in Spaces
  BY <1>1, <1>3, <1>e DEF Becomes, s, n
<1> HIDE DEF x, s, n
<1>6. Local(x, s, n)
  <2>1. Stage(x, n)
    BY <1>1, <1>2, <1>3, <1>5, <1>e DEF Stage, s, n
  <2>2. Fit(x, s, n)
    BY <1>1, <1>2, <1>3, <1>5, <1>e, NoSpaceIs DEF Fit, s, n
  <2>3. Absent(x, s)
    BY <1>2, <1>3, <1>5 DEF Absent, s, n
  <2>q. QED
    BY <1>3, <1>e, <2>1, <2>2, <2>3 DEF Local, s, n
<1>g. G' = G
  <2> DEFINE g == G
  <2>1. g = [h \in Memory!Holders |-> g[h]]
    BY DEF G
  <2>2. /\ g[SpaceOf(p)] = Memory!OwnPages(s) /\ g[NewOf(p)] = Memory!OwnPages(n)
        /\ g[MemOf(p)] = {x.mem} \ {Memory!None}
        /\ \A h \in Memory!Holders : h \notin {SpaceOf(p), NewOf(p), MemOf(p)} => g[h] = G[h]
    <3>1. /\ {SpaceOf(p), NewOf(p), MemOf(p)} \subseteq Memory!Holders
          /\ G[SpaceOf(p)] = Memory!OwnPages(space[p]) /\ G[NewOf(p)] = Memory!OwnPages(new[p])
          /\ G[MemOf(p)] = {proc[p].mem} \ {Memory!None}
      BY GIs, HoldersAre
    <3>q. QED
      BY <1>2, <1>5, <3>1 DEF s, n
  <2> HIDE DEF g
  <2>4. IsBy(g, p, x, s, n)
    BY <2>1, <2>2 DEF IsBy
  <2>3. G' = g
    BY <1>4, <1>5, <1>u, <2>4, OneHolds
  <2>q. QED
    BY <2>3 DEF g
<1>s. Sound(free', G') /\ Whole(free', G') = Whole(free, G) /\ free' \subseteq Memory!Pages
  <2>q. QED
    BY <1>1, <1>g DEF MemInv, MemTypes
<1>7. /\ proc' \in [Memory!Procs -> ProcT] /\ space' \in [Memory!Procs -> Spaces]
      /\ new' \in [Memory!Procs -> Spaces]
      /\ Locals' /\ Children'
  BY <1>2, <1>4, <1>5, <1>6, <1>u, OneChanges
<1>9. MemTypes'
  <2>1. data' \in [Memory!Pages -> Contained]
    BY <1>1, <1>e, FillTypes DEF MemInv, MemTypes, Contained
  <2>q. QED
    BY <1>7, <1>s, <2>1 DEF MemTypes
<1>q. QED
  BY <1>1, <1>7, <1>9, <1>s DEF MemInv, Keeps

LEMMA SbrkShrinkKeeps == ASSUME MemInv, NEW p \in Memory!Procs, NEW k \in Amounts, Shrinks(p, k)
  PROVE Keeps
<1> DEFINE x == [proc[p] EXCEPT !.sz = IF proc[p].sz + k = 0 THEN proc[p].sz ELSE proc[p].sz + k]
           s == Memory!Dealloc(space[p], proc[p].sz, proc[p].sz + k).space
           S == Memory!Dealloc(space[p], proc[p].sz, proc[p].sz + k).pages
           z == IF proc[p].sz + k = 0 THEN proc[p].sz ELSE proc[p].sz + k
           n == new[p]
<1>1. /\ Memory!InUser(p) /\ k \in Int /\ k < 0 /\ proc[p].sz + k >= 0 /\ proc' = [proc EXCEPT ![p] = x]
      /\ space' = [space EXCEPT ![p] = s] /\ free' = free \cup S
      /\ Memory!Fill /\ UNCHANGED <<new, panic>>
  BY MemoryAssumption DEF Shrinks
<1>2. /\ proc[p].state = "running" /\ proc[p].pc = "user" /\ proc[p].call = "none"
      /\ proc[p].mem = Memory!None
      /\ proc[p].child = 0 /\ proc[p].at = 0 /\ new[p] = Memory!NoSpace
      /\ UpTo(space[p], Memory!PGROUNDUP(proc[p].sz))
  BY <1>1, InUserIs
<1>3. /\ proc[p] \in ProcT /\ space[p] \in Spaces /\ new[p] \in Spaces
      /\ Stage(proc[p], new[p]) /\ Fit(proc[p], space[p], new[p]) /\ Absent(proc[p], space[p])
      /\ Inside(space[p]) /\ Inside(new[p])
      /\ space = [space EXCEPT ![p] = space[p]] /\ new = [new EXCEPT ![p] = new[p]]
  BY <1>2, AtIs
<1>e. /\ s \in Spaces /\ Memory!OwnPages(s) = Memory!OwnPages(space[p]) \ S
      /\ S \subseteq Memory!OwnPages(space[p]) /\ Inside(s)
      /\ OnlyPresent(s) /\ (UpTo(s, Memory!PGROUNDUP(z)) \/ UpTo(s, 0)) /\ z \in Nat /\ z < KERNBASE
  <2>0. proc[p].sz \in Nat /\ proc[p].sz + k \in Nat /\ proc[p].sz + k <= proc[p].sz
    BY <1>1, <1>3, ProcParts
  <2>1. /\ s \in Spaces /\ Memory!OwnPages(s) = Memory!OwnPages(space[p]) \ S
        /\ S \subseteq Memory!OwnPages(space[p]) /\ Inside(s)
        /\ \A v \in Memory!VPages : Memory!Present(s, v) <=> Memory!Present(space[p], v)
             /\ ~(Memory!PGROUNDUP(proc[p].sz + k) <= v /\ v < Memory!PGROUNDUP(proc[p].sz))
        /\ OnlyPresent(space[p]) => OnlyPresent(s)
    BY <1>3, <2>0, DeallocIs
  <2> HIDE DEF s, S
  <2>2. /\ Memory!PGROUNDUP(proc[p].sz) \in Nat /\ Memory!PGROUNDUP(proc[p].sz + k) \in Nat
             /\ \A v \in Memory!VPages : v \in Nat
        /\ Memory!PGROUNDUP(proc[p].sz + k) <= Memory!PGROUNDUP(proc[p].sz)
    BY <2>0, RoundUp, RoundUpGrows DEF Memory!VPages
  <2>3. UpTo(s, Memory!PGROUNDUP(proc[p].sz + k))
    BY <1>2, <2>1, <2>2 DEF UpTo
  <2>4. z \in Nat /\ z < KERNBASE
    BY <1>3, <2>0, MemoryAssumption DEF Stage
  <2>5. proc[p].sz + k = 0 => Memory!PGROUNDUP(proc[p].sz + k) = 0
    <3> SUFFICES ASSUME proc[p].sz + k = 0 PROVE Memory!PGROUNDUP(0) = 0
      OBVIOUS
    <3>1. ~(0 < Memory!PGROUNDUP(0)) /\ Memory!PGROUNDUP(0) \in Nat
      <4>1. 0 < Memory!PGROUNDUP(0) <=> 0 * PGSIZE < 0
        BY RoundUp
      <4>q. QED
        BY <4>1, RoundUp, MemoryAssumption
    <3>q. QED
      BY <3>1
  <2>q. QED
    BY <1>3, <2>1, <2>3, <2>4, <2>5 DEF Fit
<1>z. x = [proc[p] EXCEPT !.sz = z]
  OBVIOUS
<1> HIDE DEF S, z
<1>4. x \in ProcT
  BY <1>2, <1>3, <1>e, <1>z DEF ProcT, Pcs, Calls, PageOrNone, Slots
<1>5. /\ x.state = proc[p].state /\ x.parent = proc[p].parent /\ x.sz = z
      /\ x.kstack = proc[p].kstack /\ x.pc = proc[p].pc /\ x.call = proc[p].call
      /\ x.at = proc[p].at /\ x.to = proc[p].to /\ x.mem = proc[p].mem /\ x.child = proc[p].child
  BY <1>3, <1>e, <1>z DEF ProcT
<1>u. Becomes(p, x, s, n) /\ s \in Spaces /\ n \in Spaces
  BY <1>1, <1>3, <1>e DEF Becomes, n
<1> HIDE DEF x, s, n
<1>6. Local(x, s, n)
  <2>1. Stage(x, n)
    BY <1>1, <1>2, <1>3, <1>5, <1>e DEF Stage, n
  <2>2. Fit(x, s, n)
    BY <1>1, <1>2, <1>3, <1>5, <1>e, NoSpaceIs DEF Fit, n
  <2>3. Absent(x, s)
    BY <1>2, <1>3, <1>5 DEF Absent, n
  <2>q. QED
    BY <1>3, <1>e, <2>1, <2>2, <2>3 DEF Local, n
<1>g. G' = Without(G, SpaceOf(p), S)
  <2> DEFINE g == Without(G, SpaceOf(p), S)
  <2>1. g = [h \in Memory!Holders |-> g[h]]
    BY DEF Without
  <2>2. /\ g[SpaceOf(p)] = Memory!OwnPages(s) /\ g[NewOf(p)] = Memory!OwnPages(n)
        /\ g[MemOf(p)] = {x.mem} \ {Memory!None}
        /\ \A h \in Memory!Holders : h \notin {SpaceOf(p), NewOf(p), MemOf(p)} => g[h] = G[h]
    BY <1>1, <1>2, <1>5, <1>e, GIs, HoldersAre DEF Without, n
  <2> HIDE DEF g
  <2>4. IsBy(g, p, x, s, n)
    BY <2>1, <2>2 DEF IsBy
  <2>3. G' = g
    BY <1>4, <1>5, <1>u, <2>4, OneHolds
  <2>q. QED
    BY <2>3 DEF g
<1>s. Sound(free', G') /\ Whole(free', G') = Whole(free, G) /\ free' \subseteq Memory!Pages
  <2>1. Sound(free, G) /\ free \subseteq Memory!Pages /\ S \subseteq Memory!Pages
    BY <1>3, <1>e, OwnIs DEF MemInv, MemTypes
  <2>2. SpaceOf(p) \in Memory!Holders /\ S \subseteq G[SpaceOf(p)]
    BY <1>e, GIs, HoldersAre
  <2>q. QED
    BY <1>1, <1>g, <2>1, <2>2, GivenIsSound
<1>7. /\ proc' \in [Memory!Procs -> ProcT] /\ space' \in [Memory!Procs -> Spaces]
      /\ new' \in [Memory!Procs -> Spaces]
      /\ Locals' /\ Children'
  BY <1>2, <1>4, <1>5, <1>6, <1>u, OneChanges
<1>9. MemTypes'
  <2>1. data' \in [Memory!Pages -> Contained]
    BY <1>1, <1>e, FillTypes DEF MemInv, MemTypes, Contained
  <2>q. QED
    BY <1>7, <1>s, <2>1 DEF MemTypes
<1>q. QED
  BY <1>1, <1>7, <1>9, <1>s DEF MemInv, Keeps

LEMMA SbrkDoneKeeps == ASSUME MemInv, NEW p \in Memory!Procs, Memory!SbrkDone(p) PROVE Keeps
<1> DEFINE x == [proc[p] EXCEPT !.pc = "user", !.call = "none", !.at = 0, !.to = 0,
            !.mem = Memory!None, !.child = 0, !.sz = proc[p].to]
           s == space[p]
           n == new[p]
<1>1. /\ proc[p].call = "sbrk" /\ proc[p].state = "running" /\ proc[p].pc = "page"
      /\ proc[p].at >= Memory!PGROUNDUP(proc[p].to) /\ proc' = [proc EXCEPT ![p] = x]
      /\ UNCHANGED <<free, data, space, new, panic>>
  BY DEF Memory!SbrkDone, Memory!At, Memory!Running, Memory!Back
<1>2. /\ proc[p].call # "none" /\ proc[p].mem = Memory!None /\ new[p] = Memory!NoSpace
      /\ proc[p].child = 0
      /\ UpTo(space[p], proc[p].at) /\ proc[p].at <= Memory!PGROUNDUP(proc[p].to)
      /\ proc[p].to < KERNBASE
      /\ proc[p].state = "running"
  BY <1>1, AtIs DEF Stage, Fit
<1>3. /\ proc[p] \in ProcT /\ space[p] \in Spaces /\ new[p] \in Spaces
      /\ Stage(proc[p], new[p]) /\ Fit(proc[p], space[p], new[p]) /\ Absent(proc[p], space[p])
      /\ Inside(space[p]) /\ Inside(new[p])
      /\ space = [space EXCEPT ![p] = space[p]] /\ new = [new EXCEPT ![p] = new[p]]
  BY <1>2, AtIs
<1>e. proc[p].to \in Nat /\ UpTo(space[p], Memory!PGROUNDUP(proc[p].to))
  <2>1. proc[p].to \in Nat /\ Memory!PGROUNDUP(proc[p].to) \in Nat /\ proc[p].at \in Nat
    BY <1>3, ProcParts, RoundUp
  <2>q. QED
    BY <1>1, <1>2, <2>1
<1>4. x \in ProcT
  BY <1>1, <1>2, <1>3, <1>e, ZenonT(60) DEF ProcT, Pcs, Calls, PageOrNone, Slots
<1>5. /\ x.state = proc[p].state /\ x.parent = proc[p].parent /\ x.sz = proc[p].to
      /\ x.kstack = proc[p].kstack /\ x.pc = "user" /\ x.call = "none"
      /\ x.at = 0 /\ x.to = 0 /\ x.mem = Memory!None /\ x.child = 0
  BY <1>3 DEF ProcT
<1>u. Becomes(p, x, s, n) /\ s \in Spaces /\ n \in Spaces
  BY <1>1, <1>3, <1>e DEF Becomes, s, n
<1> HIDE DEF x, s, n
<1>6. Local(x, s, n)
  <2>1. Stage(x, n)
    BY <1>1, <1>2, <1>3, <1>5, <1>e DEF Stage, s, n
  <2>2. Fit(x, s, n)
    BY <1>1, <1>2, <1>3, <1>5, <1>e, NoSpaceIs DEF Fit, s, n
  <2>3. Absent(x, s)
    BY <1>2, <1>3, <1>5 DEF Absent, s, n
  <2>q. QED
    BY <1>3, <1>e, <2>1, <2>2, <2>3 DEF Local, s, n
<1>g. G' = G
  <2> DEFINE g == G
  <2>1. g = [h \in Memory!Holders |-> g[h]]
    BY DEF G
  <2>2. /\ g[SpaceOf(p)] = Memory!OwnPages(s) /\ g[NewOf(p)] = Memory!OwnPages(n)
        /\ g[MemOf(p)] = {x.mem} \ {Memory!None}
        /\ \A h \in Memory!Holders : h \notin {SpaceOf(p), NewOf(p), MemOf(p)} => g[h] = G[h]
    <3>1. /\ {SpaceOf(p), NewOf(p), MemOf(p)} \subseteq Memory!Holders
          /\ G[SpaceOf(p)] = Memory!OwnPages(space[p]) /\ G[NewOf(p)] = Memory!OwnPages(new[p])
          /\ G[MemOf(p)] = {proc[p].mem} \ {Memory!None}
      BY GIs, HoldersAre
    <3>q. QED
      BY <1>2, <1>5, <3>1 DEF s, n
  <2> HIDE DEF g
  <2>4. IsBy(g, p, x, s, n)
    BY <2>1, <2>2 DEF IsBy
  <2>3. G' = g
    BY <1>4, <1>5, <1>u, <2>4, OneHolds
  <2>q. QED
    BY <2>3 DEF g
<1>s. Sound(free', G') /\ Whole(free', G') = Whole(free, G) /\ free' \subseteq Memory!Pages
  <2>q. QED
    BY <1>1, <1>g DEF MemInv, MemTypes
<1>7. /\ proc' \in [Memory!Procs -> ProcT] /\ space' \in [Memory!Procs -> Spaces]
      /\ new' \in [Memory!Procs -> Spaces]
      /\ Locals' /\ Children'
  BY <1>2, <1>4, <1>5, <1>6, <1>u, OneChanges
<1>9. MemTypes'
  <2>1. data' \in [Memory!Pages -> Contained]
    BY <1>1, <1>e, FillTypes DEF MemInv, MemTypes, Contained
  <2>q. QED
    BY <1>7, <1>s, <2>1 DEF MemTypes
<1>q. QED
  BY <1>1, <1>7, <1>9, <1>s DEF MemInv, Keeps

Replaces(p) ==
  /\ space' = [space EXCEPT ![p] = new[p]]
  /\ free' = free \cup Memory!OwnPages(space[p])
  /\ new' = [new EXCEPT ![p] = Memory!NoSpace]
  /\ proc' = [Memory!Back(p) EXCEPT ![p].sz = proc[p].to]
  /\ Memory!Fill /\ UNCHANGED panic

LEMMA ExecReplaceKeeps == ASSUME MemInv, NEW p \in Memory!Procs, Memory!Complete(p, "exec"),
  Replaces(p) PROVE Keeps
<1> DEFINE x == [proc[p] EXCEPT !.pc = "user", !.call = "none", !.at = 0, !.to = 0,
            !.mem = Memory!None, !.child = 0, !.sz = proc[p].to]
           s == new[p]
           n == Memory!NoSpace
<1>1. /\ proc[p].call = "exec" /\ proc[p].state = "running" /\ proc[p].pc = "page"
      /\ proc[p].at = Memory!PGROUNDUP(proc[p].to) /\ proc' = [proc EXCEPT ![p] = x]
      /\ space' = [space EXCEPT ![p] = new[p]] /\ free' = free \cup Memory!OwnPages(space[p])
      /\ new' = [new EXCEPT ![p] = Memory!NoSpace] /\ Memory!Fill /\ UNCHANGED panic
  BY DEF Replaces, Memory!Complete, Memory!At, Memory!Running, Memory!Back
<1>2. /\ proc[p].call # "none" /\ proc[p].mem = Memory!None /\ proc[p].child = 0
      /\ UpTo(new[p], Memory!PGROUNDUP(proc[p].to)) /\ proc[p].to < KERNBASE
      /\ proc[p].state = "running" /\ proc[p].pc = "page"
  BY <1>1, AtIs DEF Stage, Fit
<1>3. /\ proc[p] \in ProcT /\ space[p] \in Spaces /\ new[p] \in Spaces
      /\ Stage(proc[p], new[p]) /\ Fit(proc[p], space[p], new[p]) /\ Absent(proc[p], space[p])
      /\ Inside(space[p]) /\ Inside(new[p])
      /\ space = [space EXCEPT ![p] = space[p]] /\ new = [new EXCEPT ![p] = new[p]]
  BY <1>2, AtIs
<1>e. proc[p].to \in Nat /\ Memory!OwnPages(Memory!NoSpace) = {} /\ Inside(Memory!NoSpace)
        /\ OnlyPresent(Memory!NoSpace) /\ Memory!NoSpace \in Spaces
  BY <1>3, ProcParts, NoSpaceIs
<1>4. x \in ProcT
  BY <1>1, <1>2, <1>3, <1>e, ZenonT(60) DEF ProcT, Pcs, Calls, PageOrNone, Slots
<1>5. /\ x.state = proc[p].state /\ x.parent = proc[p].parent /\ x.sz = proc[p].to
      /\ x.kstack = proc[p].kstack /\ x.pc = "user" /\ x.call = "none"
      /\ x.at = 0 /\ x.to = 0 /\ x.mem = Memory!None /\ x.child = 0
  BY <1>3 DEF ProcT
<1>u. Becomes(p, x, s, n) /\ s \in Spaces /\ n \in Spaces
  BY <1>1, <1>3, <1>e DEF Becomes, s, n
<1> HIDE DEF x, s, n
<1>6. Local(x, s, n)
  <2>1. Stage(x, n)
    BY <1>1, <1>2, <1>3, <1>5, <1>e DEF Stage, s, n
  <2>2. Fit(x, s, n)
    BY <1>1, <1>2, <1>3, <1>5, <1>e, NoSpaceIs DEF Fit, s, n
  <2>3. Absent(x, s)
    BY <1>2, <1>3, <1>5 DEF Absent, s, n
  <2>q. QED
    BY <1>3, <1>e, <2>1, <2>2, <2>3 DEF Local, s, n
<1>g. G' = Handed(Without(G, SpaceOf(p), Memory!OwnPages(space[p])), NewOf(p), SpaceOf(p))
  <2> DEFINE g == Handed(Without(G, SpaceOf(p), Memory!OwnPages(space[p])), NewOf(p), SpaceOf(p))
  <2>1. g = [h \in Memory!Holders |-> g[h]]
    BY DEF Handed, Without
  <2>2. /\ g[SpaceOf(p)] = Memory!OwnPages(s) /\ g[NewOf(p)] = Memory!OwnPages(n)
        /\ g[MemOf(p)] = {x.mem} \ {Memory!None}
        /\ \A h \in Memory!Holders : h \notin {SpaceOf(p), NewOf(p), MemOf(p)} => g[h] = G[h]
    <3> DEFINE g0 == Without(G, SpaceOf(p), Memory!OwnPages(space[p]))
    <3>1. \A h \in Memory!Holders : g0[h] = IF h = SpaceOf(p) THEN G[h] \ Memory!OwnPages(space[p])
            ELSE G[h]
      BY DEF Without
    <3>2. \A h \in Memory!Holders : g[h] = IF h = NewOf(p) THEN {} ELSE IF h = SpaceOf(p)
            THEN g0[NewOf(p)] \cup g0[SpaceOf(p)] ELSE g0[h]
      BY DEF Handed
    <3> HIDE DEF g0, g
    <3>3. /\ {SpaceOf(p), NewOf(p), MemOf(p)} \subseteq Memory!Holders
          /\ SpaceOf(p) # NewOf(p) /\ SpaceOf(p) # MemOf(p) /\ NewOf(p) # MemOf(p)
      BY HoldersAre
    <3>4. G[SpaceOf(p)] = Memory!OwnPages(space[p]) /\ G[NewOf(p)] = Memory!OwnPages(new[p])
            /\ G[MemOf(p)] = {proc[p].mem} \ {Memory!None}
      BY GIs
    <3>5. g0[SpaceOf(p)] = {} /\ g0[NewOf(p)] = Memory!OwnPages(new[p])
            /\ g0[MemOf(p)] = {proc[p].mem} \ {Memory!None}
      BY <3>1, <3>3, <3>4
    <3>q. QED
      BY <1>2, <1>5, <1>e, <3>1, <3>2, <3>3, <3>5 DEF s, n
  <2> HIDE DEF g
  <2>4. IsBy(g, p, x, s, n)
    BY <2>1, <2>2 DEF IsBy
  <2>3. G' = g
    BY <1>4, <1>5, <1>u, <2>4, OneHolds
  <2>q. QED
    BY <2>3 DEF g
<1>s. Sound(free', G') /\ Whole(free', G') = Whole(free, G) /\ free' \subseteq Memory!Pages
  <2>1. Sound(free, G) /\ free \subseteq Memory!Pages
          /\ Memory!OwnPages(space[p]) \subseteq Memory!Pages
    BY <1>3, <1>e, OwnIs DEF MemInv, MemTypes
  <2>2. SpaceOf(p) \in Memory!Holders /\ NewOf(p) \in Memory!Holders /\ SpaceOf(p) # NewOf(p)
          /\ Memory!OwnPages(space[p]) \subseteq G[SpaceOf(p)]
    BY GIs, HoldersAre
  <2>3. LET f == free \cup Memory!OwnPages(space[p])
            g == Without(G, SpaceOf(p), Memory!OwnPages(space[p]))
        IN  Sound(f, g) /\ Whole(f, g) = Whole(free, G)
    BY <2>1, <2>2, GivenIsSound
  <2>q. QED
    BY <1>1, <1>g, <2>1, <2>2, <2>3, HandedIsSound
<1>7. /\ proc' \in [Memory!Procs -> ProcT] /\ space' \in [Memory!Procs -> Spaces]
      /\ new' \in [Memory!Procs -> Spaces]
      /\ Locals' /\ Children'
  BY <1>2, <1>4, <1>5, <1>6, <1>u, OneChanges
<1>9. MemTypes'
  <2>1. data' \in [Memory!Pages -> Contained]
    BY <1>1, <1>e, FillTypes DEF MemInv, MemTypes, Contained
  <2>q. QED
    BY <1>7, <1>s, <2>1 DEF MemTypes
<1>q. QED
  BY <1>1, <1>7, <1>9, <1>s DEF MemInv, Keeps

LEMMA ExecUndoKeeps == ASSUME MemInv, NEW p \in Memory!Procs, NEW F, F = {proc[p].mem} \ {Memory!None},
  proc[p].state = "running", proc[p].call = "exec", proc[p].pc # "kstack", Memory!Undo(p, F),
  Memory!Fill, UNCHANGED <<space, panic>> PROVE Keeps
<1> DEFINE x == [proc[p] EXCEPT !.pc = "user", !.call = "none", !.at = 0, !.to = 0,
            !.mem = Memory!None, !.child = 0]
           s == space[p]
           n == Memory!NoSpace
<1>1. /\ proc[p].state = "running" /\ proc[p].call = "exec" /\ proc[p].pc # "kstack"
      /\ proc' = [proc EXCEPT ![p] = x]
      /\ free' = free \cup Memory!OwnPages(new[p]) \cup F
      /\ new' = [new EXCEPT ![p] = n] /\ Memory!Fill /\ UNCHANGED <<space, panic>>
  <2>1. proc[p].child = 0
    BY AtIs DEF Stage
  <2>2. proc' = [q \in Memory!Procs |-> Memory!Back(p)[q]] /\ proc \in [Memory!Procs -> ProcT]
    BY <2>1 DEF Memory!Undo, MemInv, MemTypes, Memory!Procs
  <2>3. proc' = [proc EXCEPT ![p] = x]
    BY <2>2 DEF Memory!Back
  <2>q. QED
    BY <2>1, <2>3 DEF Memory!Undo
<1>2. /\ proc[p].call # "none" /\ proc[p].child = 0 /\ F = {proc[p].mem} \ {Memory!None}
      /\ UpTo(space[p], Memory!PGROUNDUP(proc[p].sz))
      /\ proc[p].state = "running" /\ proc[p].pc # "kstack"
  BY <1>1, AtIs DEF Stage, Fit
<1>3. /\ proc[p] \in ProcT /\ space[p] \in Spaces /\ new[p] \in Spaces
      /\ Stage(proc[p], new[p]) /\ Fit(proc[p], space[p], new[p]) /\ Absent(proc[p], space[p])
      /\ Inside(space[p]) /\ Inside(new[p])
      /\ space = [space EXCEPT ![p] = space[p]] /\ new = [new EXCEPT ![p] = new[p]]
  BY <1>2, AtIs
<1>e. Memory!OwnPages(Memory!NoSpace) = {} /\ Inside(Memory!NoSpace) /\ OnlyPresent(Memory!NoSpace)
        /\ Memory!NoSpace \in Spaces
  BY NoSpaceIs
<1>4. x \in ProcT
  BY <1>1, <1>2, <1>3, <1>e DEF ProcT, Pcs, Calls, PageOrNone, Slots
<1>5. /\ x.state = proc[p].state /\ x.parent = proc[p].parent /\ x.sz = proc[p].sz
      /\ x.kstack = proc[p].kstack /\ x.pc = "user" /\ x.call = "none"
      /\ x.at = 0 /\ x.to = 0 /\ x.mem = Memory!None /\ x.child = 0
  BY <1>3 DEF ProcT
<1>u. Becomes(p, x, s, n) /\ s \in Spaces /\ n \in Spaces
  BY <1>1, <1>3, <1>e DEF Becomes, s, n
<1> HIDE DEF x, s, n
<1>6. Local(x, s, n)
  <2>1. Stage(x, n)
    BY <1>1, <1>2, <1>3, <1>5, <1>e DEF Stage, s, n
  <2>2. Fit(x, s, n)
    BY <1>1, <1>2, <1>3, <1>5, <1>e, NoSpaceIs DEF Fit, s, n
  <2>3. Absent(x, s)
    BY <1>2, <1>3, <1>5 DEF Absent, s, n
  <2>q. QED
    BY <1>3, <1>e, <2>1, <2>2, <2>3 DEF Local, s, n
<1>g. G' = Without(Without(G, NewOf(p), Memory!OwnPages(new[p])), MemOf(p), F)
  <2> DEFINE g == Without(Without(G, NewOf(p), Memory!OwnPages(new[p])), MemOf(p), F)
  <2>1. g = [h \in Memory!Holders |-> g[h]]
    BY DEF Without
  <2>2. /\ g[SpaceOf(p)] = Memory!OwnPages(s) /\ g[NewOf(p)] = Memory!OwnPages(n)
        /\ g[MemOf(p)] = {x.mem} \ {Memory!None}
        /\ \A h \in Memory!Holders : h \notin {SpaceOf(p), NewOf(p), MemOf(p)} => g[h] = G[h]
    <3>1. \A h \in Memory!Holders : g[h] = IF h = MemOf(p) THEN {} ELSE IF h = NewOf(p)
            THEN G[h] \ Memory!OwnPages(new[p]) ELSE G[h]
      <4>1. \A h \in Memory!Holders : g[h] = IF h = MemOf(p)
              THEN (IF h = NewOf(p) THEN G[h] \ Memory!OwnPages(new[p]) ELSE G[h]) \ F
              ELSE IF h = NewOf(p) THEN G[h] \ Memory!OwnPages(new[p]) ELSE G[h]
        BY DEF Without
      <4>2. G[MemOf(p)] \ F = {} /\ NewOf(p) # MemOf(p)
        BY <1>2, GIs, HoldersAre
      <4> HIDE DEF g
      <4>q. QED
        BY <4>1, <4>2
    <3> HIDE DEF g
    <3>3. /\ {SpaceOf(p), NewOf(p), MemOf(p)} \subseteq Memory!Holders
          /\ SpaceOf(p) # NewOf(p) /\ SpaceOf(p) # MemOf(p) /\ NewOf(p) # MemOf(p)
      BY HoldersAre
    <3>4. G[SpaceOf(p)] = Memory!OwnPages(space[p]) /\ G[NewOf(p)] = Memory!OwnPages(new[p])
      BY GIs
    <3>q. QED
      BY <1>1, <1>2, <1>5, <1>e, <3>1, <3>3, <3>4 DEF s, n
  <2> HIDE DEF g
  <2>4. IsBy(g, p, x, s, n)
    BY <2>1, <2>2 DEF IsBy
  <2>3. G' = g
    BY <1>4, <1>5, <1>u, <2>4, OneHolds
  <2>q. QED
    BY <2>3 DEF g
<1>s. Sound(free', G') /\ Whole(free', G') = Whole(free, G) /\ free' \subseteq Memory!Pages
  <2>1. Sound(free, G) /\ free \subseteq Memory!Pages /\ Memory!OwnPages(new[p]) \subseteq Memory!Pages
          /\ F \subseteq Memory!Pages
    BY <1>2, <1>3, <1>e, OwnIs, ProcParts DEF MemInv, MemTypes, PageOrNone
  <2>2. /\ NewOf(p) \in Memory!Holders /\ MemOf(p) \in Memory!Holders /\ NewOf(p) # MemOf(p)
        /\ Memory!OwnPages(new[p]) \subseteq G[NewOf(p)] /\ F \subseteq G[MemOf(p)]
    BY <1>2, <1>e, GIs, HoldersAre
  <2>3. LET f == free \cup Memory!OwnPages(new[p])
            g == Without(G, NewOf(p), Memory!OwnPages(new[p]))
        IN  Sound(f, g) /\ Whole(f, g) = Whole(free, G)
    BY <2>1, <2>2, GivenIsSound
  <2>4. F \subseteq Without(G, NewOf(p), Memory!OwnPages(new[p]))[MemOf(p)]
    BY <2>2 DEF Without
  <2>5. LET f == free \cup Memory!OwnPages(new[p])
            g == Without(G, NewOf(p), Memory!OwnPages(new[p]))
        IN  Sound(f \cup F, Without(g, MemOf(p), F))
          /\ Whole(f \cup F, Without(g, MemOf(p), F)) = Whole(f, g)
    BY <2>2, <2>3, <2>4, GivenIsSound
  <2>6. free' = (free \cup Memory!OwnPages(new[p])) \cup F
    BY <1>1, <1>2
  <2>q. QED
    BY <1>g, <2>1, <2>3, <2>5, <2>6
<1>7. /\ proc' \in [Memory!Procs -> ProcT] /\ space' \in [Memory!Procs -> Spaces]
      /\ new' \in [Memory!Procs -> Spaces]
      /\ Locals' /\ Children'
  BY <1>2, <1>4, <1>5, <1>6, <1>u, OneChanges
<1>9. MemTypes'
  <2>1. data' \in [Memory!Pages -> Contained]
    BY <1>1, <1>e, FillTypes DEF MemInv, MemTypes, Contained
  <2>q. QED
    BY <1>7, <1>s, <2>1 DEF MemTypes
<1>q. QED
  BY <1>1, <1>7, <1>9, <1>s DEF MemInv, Keeps

LEMMA MapShortKeeps == ASSUME MemInv, NEW p \in Memory!Procs, Memory!MapFails(p), proc[p].call = "sbrk"
  PROVE Keeps
<1> DEFINE x == [proc[p] EXCEPT !.pc = "user", !.call = "none", !.at = 0, !.to = 0,
            !.mem = Memory!None, !.child = 0]
           s == Memory!Dealloc(space[p], proc[p].to, proc[p].sz).space
           S == Memory!Dealloc(space[p], proc[p].to, proc[p].sz).pages
           n == new[p]
<1>1. /\ proc[p].call = "sbrk" /\ proc[p].state = "running" /\ proc[p].pc = "map"
      /\ space' = [space EXCEPT ![p] = s] /\ free' = free \cup S \cup {proc[p].mem}
      /\ proc' = [proc EXCEPT ![p] = x] /\ Memory!Fill /\ UNCHANGED new /\ UNCHANGED panic
  BY DEF Memory!MapFails, Memory!At, Memory!Running, Memory!Saved, Memory!Back
<1>2. /\ proc[p].call # "none" /\ proc[p].mem # Memory!None /\ new[p] = Memory!NoSpace
      /\ proc[p].child = 0
      /\ UpTo(space[p], proc[p].at) /\ Memory!PGROUNDUP(proc[p].sz) <= proc[p].at
      /\ proc[p].at < Memory!PGROUNDUP(proc[p].to)
      /\ proc[p].state = "running" /\ proc[p].pc = "map"
  BY <1>1, AtIs DEF Stage, Fit
<1>3. /\ proc[p] \in ProcT /\ space[p] \in Spaces /\ new[p] \in Spaces
      /\ Stage(proc[p], new[p]) /\ Fit(proc[p], space[p], new[p]) /\ Absent(proc[p], space[p])
      /\ Inside(space[p]) /\ Inside(new[p])
      /\ space = [space EXCEPT ![p] = space[p]] /\ new = [new EXCEPT ![p] = new[p]]
  BY <1>2, AtIs
<1>e. /\ s \in Spaces /\ Memory!OwnPages(s) = Memory!OwnPages(space[p]) \ S
      /\ S \subseteq Memory!OwnPages(space[p]) /\ Inside(s)
      /\ OnlyPresent(s) /\ UpTo(s, Memory!PGROUNDUP(proc[p].sz))
  <2>1. /\ s \in Spaces /\ Memory!OwnPages(s) = Memory!OwnPages(space[p]) \ S
        /\ S \subseteq Memory!OwnPages(space[p]) /\ Inside(s)
        /\ \A v \in Memory!VPages : Memory!Present(s, v) <=> Memory!Present(space[p], v)
             /\ ~(Memory!PGROUNDUP(proc[p].sz) <= v /\ v < Memory!PGROUNDUP(proc[p].to))
        /\ OnlyPresent(space[p]) => OnlyPresent(s)
    BY <1>3, ProcParts, DeallocIs
  <2> HIDE DEF s, S
  <2>2. Memory!PGROUNDUP(proc[p].to) \in Nat /\ Memory!PGROUNDUP(proc[p].sz) \in Nat
          /\ proc[p].at \in Nat /\ \A v \in Memory!VPages : v \in Nat
    BY <1>3, RoundUp, ProcParts DEF Memory!VPages
  <2>3. UpTo(s, Memory!PGROUNDUP(proc[p].sz))
    BY <1>2, <2>1, <2>2 DEF UpTo
  <2>q. QED
    BY <1>3, <2>1, <2>3 DEF Fit
<1> HIDE DEF S
<1>4. x \in ProcT
  BY <1>1, <1>2, <1>3, <1>e DEF ProcT, Pcs, Calls, PageOrNone, Slots
<1>5. /\ x.state = proc[p].state /\ x.parent = proc[p].parent /\ x.sz = proc[p].sz
      /\ x.kstack = proc[p].kstack /\ x.pc = "user" /\ x.call = "none"
      /\ x.at = 0 /\ x.to = 0 /\ x.mem = Memory!None /\ x.child = 0
  BY <1>3 DEF ProcT
<1>u. Becomes(p, x, s, n) /\ s \in Spaces /\ n \in Spaces
  BY <1>1, <1>3, <1>e DEF Becomes, n
<1> HIDE DEF x, s, n
<1>6. Local(x, s, n)
  <2>1. Stage(x, n)
    BY <1>1, <1>2, <1>3, <1>5, <1>e DEF Stage, n
  <2>2. Fit(x, s, n)
    BY <1>1, <1>2, <1>3, <1>5, <1>e, NoSpaceIs DEF Fit, n
  <2>3. Absent(x, s)
    BY <1>2, <1>3, <1>5 DEF Absent, n
  <2>q. QED
    BY <1>3, <1>e, <2>1, <2>2, <2>3 DEF Local, n
<1>g. G' = Without(Without(G, SpaceOf(p), S), MemOf(p), {proc[p].mem})
  <2> DEFINE g == Without(Without(G, SpaceOf(p), S), MemOf(p), {proc[p].mem})
  <2>1. g = [h \in Memory!Holders |-> g[h]]
    BY DEF Without
  <2>2. /\ g[SpaceOf(p)] = Memory!OwnPages(s) /\ g[NewOf(p)] = Memory!OwnPages(n)
        /\ g[MemOf(p)] = {x.mem} \ {Memory!None}
        /\ \A h \in Memory!Holders : h \notin {SpaceOf(p), NewOf(p), MemOf(p)} => g[h] = G[h]
    <3>1. \A h \in Memory!Holders : g[h] = IF h = MemOf(p) THEN {} ELSE IF h = SpaceOf(p) THEN G[h] \ S
            ELSE G[h]
      <4>1. \A h \in Memory!Holders : g[h] = IF h = MemOf(p)
              THEN (IF h = SpaceOf(p) THEN G[h] \ S ELSE G[h]) \ {proc[p].mem} ELSE IF h = SpaceOf(p)
              THEN G[h] \ S ELSE G[h]
        BY DEF Without
      <4>2. G[MemOf(p)] \ {proc[p].mem} = {} /\ SpaceOf(p) # MemOf(p)
        BY <1>2, GIs, HoldersAre
      <4> HIDE DEF g
      <4>q. QED
        BY <4>1, <4>2
    <3> HIDE DEF g
    <3>3. /\ {SpaceOf(p), NewOf(p), MemOf(p)} \subseteq Memory!Holders
          /\ SpaceOf(p) # NewOf(p) /\ SpaceOf(p) # MemOf(p) /\ NewOf(p) # MemOf(p)
      BY HoldersAre
    <3>4. G[SpaceOf(p)] = Memory!OwnPages(space[p]) /\ G[NewOf(p)] = Memory!OwnPages(new[p])
      BY GIs
    <3>q. QED
      BY <1>1, <1>2, <1>5, <1>e, <3>1, <3>3, <3>4 DEF n
  <2> HIDE DEF g
  <2>4. IsBy(g, p, x, s, n)
    BY <2>1, <2>2 DEF IsBy
  <2>3. G' = g
    BY <1>4, <1>5, <1>u, <2>4, OneHolds
  <2>q. QED
    BY <2>3 DEF g
<1>s. Sound(free', G') /\ Whole(free', G') = Whole(free, G) /\ free' \subseteq Memory!Pages
  <2>1. Sound(free, G) /\ free \subseteq Memory!Pages /\ S \subseteq Memory!Pages
          /\ {proc[p].mem} \subseteq Memory!Pages
    BY <1>2, <1>3, <1>e, OwnIs, ProcParts DEF MemInv, MemTypes, PageOrNone
  <2>2. /\ SpaceOf(p) \in Memory!Holders /\ MemOf(p) \in Memory!Holders /\ SpaceOf(p) # MemOf(p)
        /\ S \subseteq G[SpaceOf(p)] /\ {proc[p].mem} \subseteq G[MemOf(p)]
    BY <1>2, <1>e, GIs, HoldersAre
  <2>3. LET f == free \cup S
            g == Without(G, SpaceOf(p), S)
        IN  Sound(f, g) /\ Whole(f, g) = Whole(free, G)
    BY <2>1, <2>2, GivenIsSound
  <2>4. {proc[p].mem} \subseteq Without(G, SpaceOf(p), S)[MemOf(p)]
    BY <2>2 DEF Without
  <2>5. LET f == free \cup S
            g == Without(G, SpaceOf(p), S)
        IN  Sound(f \cup {proc[p].mem}, Without(g, MemOf(p), {proc[p].mem}))
          /\ Whole(f \cup {proc[p].mem}, Without(g, MemOf(p), {proc[p].mem})) = Whole(f, g)
    BY <2>2, <2>3, <2>4, GivenIsSound
  <2>6. free' = (free \cup S) \cup {proc[p].mem}
    BY <1>1, <1>2
  <2>q. QED
    BY <1>g, <2>1, <2>3, <2>5, <2>6
<1>7. /\ proc' \in [Memory!Procs -> ProcT] /\ space' \in [Memory!Procs -> Spaces]
      /\ new' \in [Memory!Procs -> Spaces]
      /\ Locals' /\ Children'
  BY <1>2, <1>4, <1>5, <1>6, <1>u, OneChanges
<1>9. MemTypes'
  <2>1. data' \in [Memory!Pages -> Contained]
    BY <1>1, <1>e, FillTypes DEF MemInv, MemTypes, Contained
  <2>q. QED
    BY <1>7, <1>s, <2>1 DEF MemTypes
<1>q. QED
  BY <1>1, <1>7, <1>9, <1>s DEF MemInv, Keeps
-----------------------------------------------------------------------------
(* Steps of a process and its child *)

TwoBecome(p, x, n, c, y, t) ==
  /\ proc' = [proc EXCEPT ![p] = x, ![c] = y]
  /\ space' = [space EXCEPT ![c] = t] /\ new' = [new EXCEPT ![p] = n]
Childless(p, c) == \A q \in Memory!Procs : q # p => proc[q].child # c
IsByTwo(g, p, x, n, c, y, t) ==
  /\ g = [h \in Memory!Holders |-> g[h]]
  /\ g[NewOf(p)] = Memory!OwnPages(n) /\ g[MemOf(p)] = {x.mem} \ {Memory!None}
  /\ g[SpaceOf(c)] = Memory!OwnPages(t) /\ g[StackOf(c)] = {y.kstack} \ {Memory!None}
  /\ \A h \in Memory!Holders : h \notin {NewOf(p), MemOf(p), SpaceOf(c), StackOf(c)} => g[h] = G[h]

LEMMA TwoChange ==
  ASSUME MemInv, NEW p \in Memory!Procs, NEW c \in Memory!Procs, p # c, NEW x \in ProcT,
         NEW y \in ProcT,
         NEW n \in Spaces, NEW t \in Spaces, TwoBecome(p, x, n, c, y, t),
         Local(x, space[p], n), Local(y, t, new[c]), x.kstack = proc[p].kstack, x.state = proc[p].state,
         proc[p].state = "running", y.child = 0, x.child \in {0, c},
         x.child = c => y.state = "embryo" /\ (y.kstack = Memory!None <=> x.pc = "kstack"),
         Childless(p, c)
  PROVE  /\ proc' \in [Memory!Procs -> ProcT] /\ space' \in [Memory!Procs -> Spaces]
         /\ new' \in [Memory!Procs -> Spaces]
         /\ Locals' /\ Children'
<1>1. proc \in [Memory!Procs -> ProcT] /\ space \in [Memory!Procs -> Spaces]
        /\ new \in [Memory!Procs -> Spaces]
  BY DEF MemInv, MemTypes
<1>2. proc' \in [Memory!Procs -> ProcT] /\ space' \in [Memory!Procs -> Spaces]
        /\ new' \in [Memory!Procs -> Spaces]
  BY <1>1 DEF TwoBecome
<1>3. /\ proc'[p] = x /\ space'[p] = space[p] /\ new'[p] = n
      /\ proc'[c] = y /\ space'[c] = t /\ new'[c] = new[c]
      /\ \A q \in Memory!Procs : q # p /\ q # c => proc'[q] = proc[q] /\ space'[q] = space[q]
           /\ new'[q] = new[q]
  BY <1>1 DEF TwoBecome
<1>4. \A q \in Memory!Procs : Local(proc'[q], space'[q], new'[q])
  <2>1. \A q \in Memory!Procs : Local(proc[q], space[q], new[q])
    BY DEF MemInv, Locals
  <2>q. QED
    BY <1>3, <2>1
<1>5. Locals'
  BY <1>4 DEF Locals
<1>6. Children'
  <2> SUFFICES ASSUME NEW q \in Memory!Procs, proc'[q].child # 0
               PROVE  /\ proc'[proc'[q].child].state = "embryo"
                      /\ proc'[proc'[q].child].kstack = Memory!None <=> proc'[q].pc = "kstack"
                      /\ \A o \in Memory!Procs : proc'[o].child = proc'[q].child => o = q
    BY DEF Children
  <2>0. \A o \in Memory!Procs : o # p => proc'[o].child = 0 \/ (o # c /\ proc'[o] = proc[o])
    BY <1>3
  <2>1. CASE q = p
    <3>1. x.child = c
      BY <1>3, <2>1
    <3>2. \A o \in Memory!Procs : proc'[o].child = c => o = p
      BY <2>0, <3>1 DEF Childless, Memory!Procs
    <3>q. QED
      BY <1>3, <2>1, <3>1, <3>2
  <2>2. CASE q # p
    <3>1. q # c /\ proc'[q] = proc[q]
      BY <2>0, <2>2
    <3>2. proc[q].child \in Memory!Procs
      BY <1>1, <3>1 DEF ProcT, Slots
    <3>5. /\ proc[proc[q].child].state = "embryo"
          /\ proc[proc[q].child].kstack = Memory!None <=> proc[q].pc = "kstack"
          /\ \A o \in Memory!Procs : proc[o].child = proc[q].child => o = q
      BY <3>1 DEF MemInv, Children
    <3>3. proc[q].child # c /\ proc[q].child # p
      BY <2>2, <3>5 DEF Childless
    <3>4. proc'[proc[q].child] = proc[proc[q].child]
      BY <1>3, <3>2, <3>3
    <3>6. \A o \in Memory!Procs : proc'[o].child = proc[q].child => o = q
      BY <1>3, <2>0, <3>1, <3>3, <3>5
    <3>q. QED
      BY <3>1, <3>4, <3>5, <3>6
  <2>q. QED
    BY <2>1, <2>2
<1>q. QED
  BY <1>2, <1>5, <1>6

LEMMA TwoHold ==
  ASSUME MemInv, NEW p \in Memory!Procs, NEW c \in Memory!Procs, p # c, NEW x \in ProcT,
         NEW y \in ProcT,
         NEW n \in Spaces, NEW t \in Spaces, TwoBecome(p, x, n, c, y, t),
         x.kstack = proc[p].kstack, y.mem = proc[c].mem, NEW g, IsByTwo(g, p, x, n, c, y, t)
  PROVE  G' = g
<1>1. proc \in [Memory!Procs -> ProcT] /\ space \in [Memory!Procs -> Spaces]
        /\ new \in [Memory!Procs -> Spaces]
  BY DEF MemInv, MemTypes
<1>3. /\ proc'[p] = x /\ space'[p] = space[p] /\ new'[p] = n
      /\ proc'[c] = y /\ space'[c] = t /\ new'[c] = new[c]
      /\ \A q \in Memory!Procs : q # p /\ q # c => proc'[q] = proc[q] /\ space'[q] = space[q]
           /\ new'[q] = new[q]
  BY <1>1 DEF TwoBecome
<1>0. /\ g = [h \in Memory!Holders |-> g[h]]
      /\ g[NewOf(p)] = Memory!OwnPages(n) /\ g[MemOf(p)] = {x.mem} \ {Memory!None}
      /\ g[SpaceOf(c)] = Memory!OwnPages(t) /\ g[StackOf(c)] = {y.kstack} \ {Memory!None}
      /\ \A h \in Memory!Holders : h \notin {NewOf(p), MemOf(p), SpaceOf(c), StackOf(c)} => g[h] = G[h]
  BY DEF IsByTwo
<1>4. ASSUME NEW q \in Memory!Procs
      PROVE /\ g[SpaceOf(q)] = Memory!OwnPages(space'[q]) /\ g[NewOf(q)] = Memory!OwnPages(new'[q])
            /\ g[MemOf(q)] = {proc'[q].mem} \ {Memory!None}
            /\ g[StackOf(q)] = {proc'[q].kstack} \ {Memory!None}
  <2>1. {SpaceOf(q), NewOf(q), MemOf(q), StackOf(q)} \subseteq Memory!Holders
    BY HoldersAre
  <2>2. /\ q # c => {SpaceOf(q), StackOf(q)} \cap {NewOf(p), MemOf(p), SpaceOf(c), StackOf(c)} = {}
        /\ q # p => {NewOf(q), MemOf(q)} \cap {NewOf(p), MemOf(p), SpaceOf(c), StackOf(c)} = {}
    BY HoldersAre
  <2>3. q # c => g[SpaceOf(q)] = G[SpaceOf(q)] /\ g[StackOf(q)] = G[StackOf(q)]
    BY <1>0, <2>1, <2>2
  <2>4. q # p => g[NewOf(q)] = G[NewOf(q)] /\ g[MemOf(q)] = G[MemOf(q)]
    BY <1>0, <2>1, <2>2
  <2>5. /\ G[SpaceOf(q)] = Memory!OwnPages(space[q]) /\ G[NewOf(q)] = Memory!OwnPages(new[q])
        /\ G[MemOf(q)] = {proc[q].mem} \ {Memory!None}
        /\ G[StackOf(q)] = {proc[q].kstack} \ {Memory!None}
    BY GIs
  <2>6. CASE q = p
    BY <1>0, <1>3, <2>3, <2>5, <2>6
  <2>7. CASE q = c
    BY <1>0, <1>3, <2>4, <2>5, <2>7
  <2>8. CASE q # p /\ q # c
    BY <1>3, <2>3, <2>4, <2>5, <2>8
  <2>q. QED
    BY <2>6, <2>7, <2>8
<1>q. QED
  BY <1>0, <1>4, GBecomes

LEMMA PartsAre ==
  ASSUME MemInv, NEW c \in Memory!Procs
  PROVE  /\ proc[c] \in ProcT /\ space[c] \in Spaces /\ new[c] \in Spaces
         /\ Stage(proc[c], new[c]) /\ Fit(proc[c], space[c], new[c]) /\ Absent(proc[c], space[c])
         /\ Inside(space[c]) /\ Inside(new[c]) /\ Local(proc[c], space[c], new[c])
<1>1. proc \in [Memory!Procs -> ProcT] /\ space \in [Memory!Procs -> Spaces]
        /\ new \in [Memory!Procs -> Spaces]
  BY DEF MemInv, MemTypes
<1>2. Local(proc[c], space[c], new[c])
  BY DEF MemInv, Locals
<1>q. QED
  BY <1>1, <1>2 DEF Local

\* A process that is not running has nothing under way.
LEMMA RestIs ==
  ASSUME MemInv, NEW c \in Memory!Procs, proc[c].state # "running"
  PROVE  /\ proc[c].call = "none" /\ proc[c].pc = "user" /\ proc[c].mem = Memory!None
         /\ proc[c].child = 0 /\ proc[c].at = 0
         /\ new[c] = Memory!NoSpace
         /\ proc[c].state \in {"unused", "embryo"} => space[c] = Memory!NoSpace
         /\ proc[c].state = "unused" => proc[c] = Memory!Idle
         /\ proc[c].state = "zombie" => proc[c].kstack # Memory!None
  BY PartsAre DEF Stage, Absent

LEMMA ChildIs ==
  ASSUME MemInv, NEW p \in Memory!Procs, proc[p].state = "running", proc[p].call = "fork"
  PROVE  LET c == proc[p].child
         IN  /\ c \in Memory!Procs /\ c # p /\ c # 0 /\ proc[c].state = "embryo" /\ Childless(p, c)
             /\ proc[c].kstack = Memory!None <=> proc[p].pc = "kstack"
<1>1. proc[p].child # 0 /\ proc[p] \in ProcT
  BY PartsAre DEF Stage
<1>2. proc[p].child \in Memory!Procs
  BY <1>1, ProcParts DEF Slots
<1>q. QED
  BY <1>1, <1>2 DEF MemInv, Children, Childless

LEMMA NotYetChild ==
  ASSUME MemInv, NEW p \in Memory!Procs, NEW c \in Memory!Procs, proc[c].state # "embryo"
  PROVE  Childless(p, c)
  BY DEF MemInv, Children, Childless, Memory!Procs

Forks(p, c) ==
  /\ Memory!InUser(p)
  /\ proc' = [proc EXCEPT ![p].pc = "kstack", ![p].call = "fork", ![p].to = proc[p].sz,
                          ![p].child = c, ![c].state = "embryo"]
  /\ UNCHANGED <<free, data, space, new, panic>>

LEMMA ForkKeeps == ASSUME MemInv, NEW p \in Memory!Procs, NEW c \in Memory!Procs, p # c,
  proc[c].state = "unused", Forks(p, c) PROVE Keeps
<1> DEFINE x == [proc[p] EXCEPT !.pc = "kstack", !.call = "fork", !.to = proc[p].sz, !.child = c]
           y == [proc[c] EXCEPT !.state = "embryo"]
           n == new[p]
           t == space[c]
<1>1. /\ Memory!InUser(p) /\ proc' = [proc EXCEPT ![p] = x, ![c] = y]
      /\ UNCHANGED <<free, data, space, new, panic>>
  BY DEF Forks
<1>2. /\ proc[p].state = "running" /\ proc[p].pc = "user" /\ proc[p].call = "none"
      /\ proc[p].mem = Memory!None
      /\ proc[p].child = 0 /\ proc[p].at = 0 /\ new[p] = Memory!NoSpace
      /\ UpTo(space[p], Memory!PGROUNDUP(proc[p].sz)) /\ proc[p].kstack # Memory!None
      /\ proc[c] = Memory!Idle /\ space[c] = Memory!NoSpace /\ new[c] = Memory!NoSpace
      /\ Childless(p, c) /\ p # c
      /\ proc[c].state = "unused" /\ proc[c].kstack = Memory!None /\ proc[c].mem = Memory!None
      /\ proc[c].child = 0 /\ proc[c].call = "none"
  <2>1. /\ proc[c] = Memory!Idle /\ space[c] = Memory!NoSpace /\ new[c] = Memory!NoSpace
        /\ Childless(p, c)
    BY RestIs, NotYetChild
  <2>q. QED
    BY <1>1, <2>1, InUserIs, IdleIs
<1>3. /\ proc[p] \in ProcT /\ space[p] \in Spaces /\ new[p] \in Spaces
      /\ Stage(proc[p], new[p]) /\ Fit(proc[p], space[p], new[p]) /\ Absent(proc[p], space[p])
      /\ Inside(space[p]) /\ Inside(new[p])
      /\ proc = [proc EXCEPT ![p] = proc[p]]
      /\ space = [space EXCEPT ![c] = space[c]] /\ new = [new EXCEPT ![p] = new[p]]
  BY <1>2, AtIs, PartsAre DEF MemInv, MemTypes
<1>4. /\ proc[c] \in ProcT /\ space[c] \in Spaces /\ new[c] \in Spaces
      /\ Stage(proc[c], new[c]) /\ Fit(proc[c], space[c], new[c]) /\ Absent(proc[c], space[c])
      /\ Inside(space[c]) /\ Inside(new[c])
  BY PartsAre
<1>e. c \in Slots /\ c # 0
  BY DEF Slots, Memory!Procs
<1>5. x \in ProcT /\ y \in ProcT
  BY <1>1, <1>2, <1>3, <1>4, <1>e, IdleIs, ZenonT(60) DEF ProcT, Pcs, Calls, PageOrNone, Slots, States
<1>6. /\ x.state = proc[p].state /\ x.parent = proc[p].parent /\ x.sz = proc[p].sz
      /\ x.kstack = proc[p].kstack /\ x.pc = "kstack" /\ x.call = "fork"
      /\ x.at = proc[p].at /\ x.to = proc[p].sz /\ x.mem = proc[p].mem /\ x.child = c
      /\ y.state = "embryo" /\ y.parent = proc[c].parent /\ y.sz = proc[c].sz
      /\ y.kstack = proc[c].kstack /\ y.pc = proc[c].pc /\ y.call = proc[c].call
      /\ y.at = proc[c].at /\ y.to = proc[c].to /\ y.mem = proc[c].mem /\ y.child = proc[c].child
  BY <1>3, <1>4 DEF ProcT
<1>u. TwoBecome(p, x, n, c, y, t) /\ n \in Spaces /\ t \in Spaces
  BY <1>1, <1>3, <1>4, <1>e, NoSpaceIs DEF TwoBecome, n, t
<1> HIDE DEF x, y, n, t
<1>7. Local(x, space[p], n)
  <2>1. Stage(x, n)
    BY <1>1, <1>2, <1>3, <1>6, <1>e DEF Stage, n
  <2>2. Fit(x, space[p], n)
    BY <1>1, <1>2, <1>3, <1>6, <1>e, NoSpaceIs DEF Fit, n
  <2>3. Absent(x, space[p])
    BY <1>2, <1>3, <1>6 DEF Absent
  <2>q. QED
    BY <1>3, <1>e, <2>1, <2>2, <2>3, NoSpaceIs DEF Local, n
<1>8. Local(y, t, new[c])
  <2>1. Stage(y, new[c])
    BY <1>1, <1>2, <1>3, <1>4, <1>6, <1>e DEF Stage
  <2>2. Fit(y, t, new[c])
    BY <1>1, <1>2, <1>3, <1>4, <1>6, <1>e, NoSpaceIs DEF Fit, t
  <2>3. Absent(y, t)
    BY <1>1, <1>2, <1>4, <1>6, <1>e DEF Absent, t
  <2>q. QED
    BY <1>3, <1>4, <1>e, <2>1, <2>2, <2>3 DEF Local, t
<1>g. G' = G
  <2> DEFINE g == G
  <2>1. g = [h \in Memory!Holders |-> g[h]]
    BY DEF G
  <2>2. /\ g[NewOf(p)] = Memory!OwnPages(n) /\ g[MemOf(p)] = {x.mem} \ {Memory!None}
        /\ g[SpaceOf(c)] = Memory!OwnPages(t) /\ g[StackOf(c)] = {y.kstack} \ {Memory!None}
        /\ \A h \in Memory!Holders : h \notin {NewOf(p), MemOf(p), SpaceOf(c), StackOf(c)}
             => g[h] = G[h]
    <3>3. /\ {NewOf(p), MemOf(p), SpaceOf(c), StackOf(c)} \subseteq Memory!Holders
          /\ NewOf(p) # MemOf(p) /\ NewOf(p) # SpaceOf(c) /\ NewOf(p) # StackOf(c)
          /\ MemOf(p) # SpaceOf(c) /\ MemOf(p) # StackOf(c) /\ SpaceOf(c) # StackOf(c)
      BY HoldersAre
    <3>4. /\ G[NewOf(p)] = Memory!OwnPages(new[p]) /\ G[MemOf(p)] = {proc[p].mem} \ {Memory!None}
          /\ G[SpaceOf(c)] = Memory!OwnPages(space[c])
          /\ G[StackOf(c)] = {proc[c].kstack} \ {Memory!None}
      BY GIs
    <3>q. QED
      BY <1>1, <1>2, <1>6, <1>e, IdleIs, NoSpaceIs, <3>3, <3>4 DEF n, t
  <2> HIDE DEF g
  <2>4. IsByTwo(g, p, x, n, c, y, t)
    BY <2>1, <2>2 DEF IsByTwo
  <2>3. G' = g
    BY <1>2, <1>5, <1>6, <1>u, <2>4, IdleIs, TwoHold
  <2>q. QED
    BY <2>3 DEF g
<1>s. Sound(free', G') /\ Whole(free', G') = Whole(free, G) /\ free' \subseteq Memory!Pages
  <2>q. QED
    BY <1>1, <1>g DEF MemInv, MemTypes
<1>9. /\ proc' \in [Memory!Procs -> ProcT] /\ space' \in [Memory!Procs -> Spaces]
      /\ new' \in [Memory!Procs -> Spaces]
      /\ Locals' /\ Children'
  BY <1>2, <1>5, <1>6, <1>7, <1>8, <1>u, <1>e, IdleIs, TwoChange
<1>10. MemTypes'
  <2>1. data' \in [Memory!Pages -> Contained]
    BY <1>1, FillTypes DEF MemInv, MemTypes, Contained
  <2>q. QED
    BY <1>9, <1>s, <2>1 DEF MemTypes
<1>q. QED
  BY <1>1, <1>2, <1>9, <1>10, <1>s DEF MemInv, Keeps

LEMMA KStackFoundKeeps == ASSUME MemInv, NEW p \in Memory!Procs, NEW c \in Memory!Procs,
  c = proc[p].child, Memory!KStack(p), free # {} PROVE Keeps
<1> DEFINE x == [proc[p] EXCEPT !.pc = "dir"]
           y == [proc[c] EXCEPT !.kstack = Memory!Min(free)]
           n == new[p]
           t == space[c]
<1>1. /\ proc[p].pc = "kstack" /\ proc[p].state = "running" /\ c = proc[p].child /\ free # {}
      /\ free' = free \ {Memory!Min(free)} /\ proc' = [proc EXCEPT ![p] = x, ![c] = y]
      /\ UNCHANGED <<data, space, new, panic>>
  <2>1. proc[p].state = "running" /\ proc[p].call = "fork" /\ proc \in [Memory!Procs -> ProcT]
    BY PartsAre DEF Memory!KStack, Memory!At, Memory!Running, Stage, MemInv, MemTypes
  <2>2. c # p /\ c \in Memory!Procs
    BY <2>1, ChildIs
  <2>3. proc' = [Memory!Go(p, "dir") EXCEPT ![c].kstack = Memory!Min(free)]
    BY DEF Memory!KStack, Memory!Kalloc
  <2>4. proc' = [proc EXCEPT ![p] = x, ![c] = y]
    BY <2>1, <2>2, <2>3 DEF Memory!Go
  <2>q. QED
    BY <2>4 DEF Memory!KStack, Memory!Kalloc, Memory!At, Memory!Running
<1>2. /\ proc[p].state = "running" /\ proc[p].pc = "kstack" /\ proc[p].call = "fork"
      /\ proc[p].mem = Memory!None
      /\ proc[c].state = "embryo" /\ p # c /\ c # 0 /\ proc[p].child = c /\ Childless(p, c)
      /\ proc[c].call = "none" /\ proc[c].pc = "user" /\ proc[c].mem = Memory!None /\ proc[c].child = 0
      /\ proc[c].at = 0
      /\ new[c] = Memory!NoSpace /\ space[c] = Memory!NoSpace
           /\ (proc[c].kstack = Memory!None <=> proc[p].pc = "kstack")
      /\ new[p] = Memory!NoSpace /\ UpTo(space[p], Memory!PGROUNDUP(proc[p].sz)) /\ proc[p].at = 0
  <2>1. proc[p].state = "running" /\ proc[p].call = "fork" /\ proc[p].mem = Memory!None
        /\ UpTo(space[p], Memory!PGROUNDUP(proc[p].sz)) /\ new[p] = Memory!NoSpace /\ proc[p].at = 0
    BY <1>1, PartsAre DEF Stage, Fit
  <2>q. QED
    BY <1>1, <2>1, ChildIs, RestIs
<1>3. /\ proc[p] \in ProcT /\ space[p] \in Spaces /\ new[p] \in Spaces
      /\ Stage(proc[p], new[p]) /\ Fit(proc[p], space[p], new[p]) /\ Absent(proc[p], space[p])
      /\ Inside(space[p]) /\ Inside(new[p])
      /\ proc = [proc EXCEPT ![p] = proc[p]]
      /\ space = [space EXCEPT ![c] = space[c]] /\ new = [new EXCEPT ![p] = new[p]]
  BY <1>2, AtIs, PartsAre DEF MemInv, MemTypes
<1>4. /\ proc[c] \in ProcT /\ space[c] \in Spaces /\ new[c] \in Spaces
      /\ Stage(proc[c], new[c]) /\ Fit(proc[c], space[c], new[c]) /\ Absent(proc[c], space[c])
      /\ Inside(space[c]) /\ Inside(new[c])
  BY PartsAre
<1>e. Memory!Min(free) \in free /\ Memory!Min(free) \in Memory!Pages /\ Memory!Min(free) # Memory!None
  <2>2. Memory!Min(free) \in free
    BY <1>1, MinIs DEF MemInv, MemTypes
  <2>q. QED
    BY <2>2, FreshPage
<1>5. x \in ProcT /\ y \in ProcT
  BY <1>1, <1>2, <1>3, <1>4, <1>e, IdleIs DEF ProcT, Pcs, Calls, PageOrNone, Slots, States
<1>6. /\ x.state = proc[p].state /\ x.parent = proc[p].parent /\ x.sz = proc[p].sz
      /\ x.kstack = proc[p].kstack /\ x.pc = "dir" /\ x.call = proc[p].call
      /\ x.at = proc[p].at /\ x.to = proc[p].to /\ x.mem = proc[p].mem /\ x.child = proc[p].child
      /\ y.state = proc[c].state /\ y.parent = proc[c].parent /\ y.sz = proc[c].sz
      /\ y.kstack = Memory!Min(free) /\ y.pc = proc[c].pc /\ y.call = proc[c].call
      /\ y.at = proc[c].at /\ y.to = proc[c].to /\ y.mem = proc[c].mem /\ y.child = proc[c].child
  BY <1>3, <1>4 DEF ProcT
<1>u. TwoBecome(p, x, n, c, y, t) /\ n \in Spaces /\ t \in Spaces
  BY <1>1, <1>3, <1>4, <1>e, NoSpaceIs DEF TwoBecome, n, t
<1> HIDE DEF x, y, n, t
<1>7. Local(x, space[p], n)
  <2>1. Stage(x, n)
    BY <1>1, <1>2, <1>3, <1>6, <1>e DEF Stage, n
  <2>2. Fit(x, space[p], n)
    BY <1>1, <1>2, <1>3, <1>6, <1>e, NoSpaceIs DEF Fit, n
  <2>3. Absent(x, space[p])
    BY <1>2, <1>3, <1>6 DEF Absent
  <2>q. QED
    BY <1>3, <1>e, <2>1, <2>2, <2>3, NoSpaceIs DEF Local, n
<1>8. Local(y, t, new[c])
  <2>1. Stage(y, new[c])
    BY <1>1, <1>2, <1>3, <1>4, <1>6, <1>e DEF Stage
  <2>2. Fit(y, t, new[c])
    BY <1>1, <1>2, <1>3, <1>4, <1>6, <1>e, NoSpaceIs DEF Fit, t
  <2>3. Absent(y, t)
    BY <1>1, <1>2, <1>4, <1>6, <1>e DEF Absent, t
  <2>q. QED
    BY <1>3, <1>4, <1>e, <2>1, <2>2, <2>3 DEF Local, t
<1>g. G' = Taken(G, StackOf(c), {Memory!Min(free)})
  <2> DEFINE g == Taken(G, StackOf(c), {Memory!Min(free)})
  <2>1. g = [h \in Memory!Holders |-> g[h]]
    BY DEF Taken
  <2>2. /\ g[NewOf(p)] = Memory!OwnPages(n) /\ g[MemOf(p)] = {x.mem} \ {Memory!None}
        /\ g[SpaceOf(c)] = Memory!OwnPages(t) /\ g[StackOf(c)] = {y.kstack} \ {Memory!None}
        /\ \A h \in Memory!Holders : h \notin {NewOf(p), MemOf(p), SpaceOf(c), StackOf(c)}
             => g[h] = G[h]
    <3>1. \A h \in Memory!Holders : g[h] = IF h = StackOf(c) THEN G[h] \cup {Memory!Min(free)} ELSE G[h]
      BY DEF Taken
    <3> HIDE DEF g
    <3>3. /\ {NewOf(p), MemOf(p), SpaceOf(c), StackOf(c)} \subseteq Memory!Holders
          /\ NewOf(p) # MemOf(p) /\ NewOf(p) # SpaceOf(c) /\ NewOf(p) # StackOf(c)
          /\ MemOf(p) # SpaceOf(c) /\ MemOf(p) # StackOf(c) /\ SpaceOf(c) # StackOf(c)
      BY HoldersAre
    <3>4. /\ G[NewOf(p)] = Memory!OwnPages(new[p]) /\ G[MemOf(p)] = {proc[p].mem} \ {Memory!None}
          /\ G[SpaceOf(c)] = Memory!OwnPages(space[c])
          /\ G[StackOf(c)] = {proc[c].kstack} \ {Memory!None}
      BY GIs
    <3>q. QED
      BY <1>1, <1>2, <1>6, <1>e, IdleIs, NoSpaceIs, <3>1, <3>3, <3>4 DEF n, t
  <2> HIDE DEF g
  <2>4. IsByTwo(g, p, x, n, c, y, t)
    BY <2>1, <2>2 DEF IsByTwo
  <2>3. G' = g
    BY <1>2, <1>5, <1>6, <1>u, <2>4, IdleIs, TwoHold
  <2>q. QED
    BY <2>3 DEF g
<1>s. Sound(free', G') /\ Whole(free', G') = Whole(free, G) /\ free' \subseteq Memory!Pages
  <2>1. Sound(free, G) /\ free \subseteq Memory!Pages /\ StackOf(c) \in Memory!Holders
    BY HoldersAre DEF MemInv, MemTypes
  <2>q. QED
    BY <1>1, <1>e, <1>g, <2>1, TakenIsSound
<1>9. /\ proc' \in [Memory!Procs -> ProcT] /\ space' \in [Memory!Procs -> Spaces]
      /\ new' \in [Memory!Procs -> Spaces]
      /\ Locals' /\ Children'
  BY <1>2, <1>5, <1>6, <1>7, <1>8, <1>u, <1>e, IdleIs, TwoChange
<1>10. MemTypes'
  <2>1. data' \in [Memory!Pages -> Contained]
    BY <1>1, FillTypes DEF MemInv, MemTypes, Contained
  <2>q. QED
    BY <1>9, <1>s, <2>1 DEF MemTypes
<1>q. QED
  BY <1>1, <1>2, <1>9, <1>10, <1>s DEF MemInv, Keeps

LEMMA KStackShortKeeps == ASSUME MemInv, NEW p \in Memory!Procs, NEW c \in Memory!Procs,
  c = proc[p].child, Memory!KStack(p), free = {} PROVE Keeps
<1> DEFINE x == [proc[p] EXCEPT !.pc = "user", !.call = "none", !.at = 0, !.to = 0,
            !.mem = Memory!None, !.child = 0]
           y == Memory!Idle
           n == new[p]
           t == space[c]
<1>1. /\ proc[p].pc = "kstack" /\ proc[p].state = "running" /\ c = proc[p].child
      /\ proc' = [proc EXCEPT ![p] = x, ![c] = y] /\ UNCHANGED free
      /\ UNCHANGED <<data, space, new, panic>>
  <2>1. proc' = [proc EXCEPT ![p] = x, ![c] = y]
    BY DEF Memory!KStack, Memory!Kalloc, Memory!Back
  <2>q. QED
    BY <2>1 DEF Memory!KStack, Memory!Kalloc, Memory!At, Memory!Running
<1>2. /\ proc[p].state = "running" /\ proc[p].pc = "kstack" /\ proc[p].call = "fork"
      /\ proc[p].mem = Memory!None
      /\ proc[c].state = "embryo" /\ p # c /\ c # 0 /\ proc[p].child = c /\ Childless(p, c)
      /\ proc[c].call = "none" /\ proc[c].pc = "user" /\ proc[c].mem = Memory!None /\ proc[c].child = 0
      /\ proc[c].at = 0
      /\ new[c] = Memory!NoSpace /\ space[c] = Memory!NoSpace
           /\ (proc[c].kstack = Memory!None <=> proc[p].pc = "kstack")
      /\ new[p] = Memory!NoSpace /\ UpTo(space[p], Memory!PGROUNDUP(proc[p].sz)) /\ proc[p].at = 0
  <2>1. proc[p].state = "running" /\ proc[p].call = "fork" /\ proc[p].mem = Memory!None
        /\ UpTo(space[p], Memory!PGROUNDUP(proc[p].sz)) /\ new[p] = Memory!NoSpace /\ proc[p].at = 0
    BY <1>1, PartsAre DEF Stage, Fit
  <2>q. QED
    BY <1>1, <2>1, ChildIs, RestIs
<1>3. /\ proc[p] \in ProcT /\ space[p] \in Spaces /\ new[p] \in Spaces
      /\ Stage(proc[p], new[p]) /\ Fit(proc[p], space[p], new[p]) /\ Absent(proc[p], space[p])
      /\ Inside(space[p]) /\ Inside(new[p])
      /\ proc = [proc EXCEPT ![p] = proc[p]]
      /\ space = [space EXCEPT ![c] = space[c]] /\ new = [new EXCEPT ![p] = new[p]]
  BY <1>2, AtIs, PartsAre DEF MemInv, MemTypes
<1>4. /\ proc[c] \in ProcT /\ space[c] \in Spaces /\ new[c] \in Spaces
      /\ Stage(proc[c], new[c]) /\ Fit(proc[c], space[c], new[c]) /\ Absent(proc[c], space[c])
      /\ Inside(space[c]) /\ Inside(new[c])
  BY PartsAre
<1>e. TRUE
  OBVIOUS
<1>5. x \in ProcT /\ y \in ProcT
  BY <1>1, <1>2, <1>3, <1>4, <1>e, IdleIs DEF ProcT, Pcs, Calls, PageOrNone, Slots, States
<1>6. /\ x.state = proc[p].state /\ x.parent = proc[p].parent /\ x.sz = proc[p].sz
      /\ x.kstack = proc[p].kstack /\ x.pc = "user" /\ x.call = "none"
      /\ x.at = 0 /\ x.to = 0 /\ x.mem = Memory!None /\ x.child = 0
      /\ y = Memory!Idle
  BY <1>3, <1>4 DEF ProcT
<1>u. TwoBecome(p, x, n, c, y, t) /\ n \in Spaces /\ t \in Spaces
  BY <1>1, <1>3, <1>4, <1>e, NoSpaceIs DEF TwoBecome, n, t
<1> HIDE DEF x, y, n, t
<1>7. Local(x, space[p], n)
  <2>1. Stage(x, n)
    BY <1>1, <1>2, <1>3, <1>6, <1>e DEF Stage, n
  <2>2. Fit(x, space[p], n)
    BY <1>1, <1>2, <1>3, <1>6, <1>e, NoSpaceIs DEF Fit, n
  <2>3. Absent(x, space[p])
    BY <1>2, <1>3, <1>6 DEF Absent
  <2>q. QED
    BY <1>3, <1>e, <2>1, <2>2, <2>3, NoSpaceIs DEF Local, n
<1>8. Local(y, t, new[c])
  BY <1>1, <1>2, <1>6, <1>e, IdleIs DEF t
<1>g. G' = G
  <2> DEFINE g == G
  <2>1. g = [h \in Memory!Holders |-> g[h]]
    BY DEF G
  <2>2. /\ g[NewOf(p)] = Memory!OwnPages(n) /\ g[MemOf(p)] = {x.mem} \ {Memory!None}
        /\ g[SpaceOf(c)] = Memory!OwnPages(t) /\ g[StackOf(c)] = {y.kstack} \ {Memory!None}
        /\ \A h \in Memory!Holders : h \notin {NewOf(p), MemOf(p), SpaceOf(c), StackOf(c)}
             => g[h] = G[h]
    <3>3. /\ {NewOf(p), MemOf(p), SpaceOf(c), StackOf(c)} \subseteq Memory!Holders
          /\ NewOf(p) # MemOf(p) /\ NewOf(p) # SpaceOf(c) /\ NewOf(p) # StackOf(c)
          /\ MemOf(p) # SpaceOf(c) /\ MemOf(p) # StackOf(c) /\ SpaceOf(c) # StackOf(c)
      BY HoldersAre
    <3>4. /\ G[NewOf(p)] = Memory!OwnPages(new[p]) /\ G[MemOf(p)] = {proc[p].mem} \ {Memory!None}
          /\ G[SpaceOf(c)] = Memory!OwnPages(space[c])
          /\ G[StackOf(c)] = {proc[c].kstack} \ {Memory!None}
      BY GIs
    <3>q. QED
      BY <1>1, <1>2, <1>6, <1>e, IdleIs, NoSpaceIs, <3>3, <3>4 DEF n, t
  <2> HIDE DEF g
  <2>4. IsByTwo(g, p, x, n, c, y, t)
    BY <2>1, <2>2 DEF IsByTwo
  <2>3. G' = g
    BY <1>2, <1>5, <1>6, <1>u, <2>4, IdleIs, TwoHold
  <2>q. QED
    BY <2>3 DEF g
<1>s. Sound(free', G') /\ Whole(free', G') = Whole(free, G) /\ free' \subseteq Memory!Pages
  <2>q. QED
    BY <1>1, <1>g DEF MemInv, MemTypes
<1>9. /\ proc' \in [Memory!Procs -> ProcT] /\ space' \in [Memory!Procs -> Spaces]
      /\ new' \in [Memory!Procs -> Spaces]
      /\ Locals' /\ Children'
  BY <1>2, <1>5, <1>6, <1>7, <1>8, <1>u, <1>e, IdleIs, TwoChange
<1>10. MemTypes'
  <2>1. data' \in [Memory!Pages -> Contained]
    BY <1>1, FillTypes DEF MemInv, MemTypes, Contained
  <2>q. QED
    BY <1>9, <1>s, <2>1 DEF MemTypes
<1>q. QED
  BY <1>1, <1>2, <1>9, <1>10, <1>s DEF MemInv, Keeps

LEMMA ForkDoneKeeps == ASSUME MemInv, NEW p \in Memory!Procs, NEW c \in Memory!Procs,
  c = proc[p].child, Memory!ForkDone(p) PROVE Keeps
<1> DEFINE x == [proc[p] EXCEPT !.pc = "user", !.call = "none", !.at = 0, !.to = 0,
            !.mem = Memory!None, !.child = 0]
           y == [proc[c] EXCEPT !.state = "running", !.sz = proc[p].sz, !.parent = p]
           n == Memory!NoSpace
           t == new[p]
<1>1. /\ proc[p].pc = "page" /\ proc[p].state = "running" /\ proc[p].call = "fork" /\ c = proc[p].child
      /\ proc[p].at = Memory!PGROUNDUP(proc[p].to)
      /\ proc' = [proc EXCEPT ![p] = x, ![c] = y] /\ space' = [space EXCEPT ![c] = new[p]]
      /\ new' = [new EXCEPT ![p] = Memory!NoSpace] /\ UNCHANGED <<free, data, panic>>
  <2>1. proc[p].state = "running" /\ proc[p].call = "fork" /\ proc \in [Memory!Procs -> ProcT]
    BY DEF Memory!ForkDone, Memory!Complete, Memory!At, Memory!Running, MemInv, MemTypes
  <2>2. c # p /\ c \in Memory!Procs
    BY <2>1, ChildIs
  <2>3. proc' = [Memory!Back(p) EXCEPT ![c].state = "running", ![c].sz = proc[p].sz, ![c].parent = p]
    BY SMTT(30) DEF Memory!ForkDone
  <2>4. proc' = [proc EXCEPT ![p] = x, ![c] = y]
    BY <2>1, <2>2, <2>3 DEF Memory!Back
  <2>q. QED
    BY <2>4 DEF Memory!ForkDone, Memory!Complete, Memory!At, Memory!Running
<1>2. /\ proc[p].state = "running" /\ proc[p].pc = "page" /\ proc[p].call = "fork"
      /\ proc[p].mem = Memory!None
      /\ proc[c].state = "embryo" /\ p # c /\ c # 0 /\ proc[p].child = c /\ Childless(p, c)
      /\ proc[c].call = "none" /\ proc[c].pc = "user" /\ proc[c].mem = Memory!None /\ proc[c].child = 0
      /\ proc[c].at = 0
      /\ new[c] = Memory!NoSpace /\ space[c] = Memory!NoSpace
           /\ (proc[c].kstack = Memory!None <=> proc[p].pc = "kstack")
      /\ UpTo(space[p], Memory!PGROUNDUP(proc[p].sz)) /\ proc[p].to = proc[p].sz
      /\ UpTo(new[p], Memory!PGROUNDUP(proc[p].sz)) /\ proc[c].kstack # Memory!None
  <2>1. proc[p].mem = Memory!None /\ UpTo(space[p], Memory!PGROUNDUP(proc[p].sz))
          /\ proc[p].to = proc[p].sz
        /\ UpTo(new[p], Memory!PGROUNDUP(proc[p].sz))
    BY <1>1, PartsAre DEF Stage, Fit
  <2>q. QED
    BY <1>1, <2>1, ChildIs, RestIs
<1>3. /\ proc[p] \in ProcT /\ space[p] \in Spaces /\ new[p] \in Spaces
      /\ Stage(proc[p], new[p]) /\ Fit(proc[p], space[p], new[p]) /\ Absent(proc[p], space[p])
      /\ Inside(space[p]) /\ Inside(new[p])
      /\ proc = [proc EXCEPT ![p] = proc[p]]
      /\ space = [space EXCEPT ![c] = space[c]] /\ new = [new EXCEPT ![p] = new[p]]
  BY <1>2, AtIs, PartsAre DEF MemInv, MemTypes
<1>4. /\ proc[c] \in ProcT /\ space[c] \in Spaces /\ new[c] \in Spaces
      /\ Stage(proc[c], new[c]) /\ Fit(proc[c], space[c], new[c]) /\ Absent(proc[c], space[c])
      /\ Inside(space[c]) /\ Inside(new[c])
  BY PartsAre
<1>e. p \in Slots /\ OnlyPresent(new[p])
  BY <1>3, SMTT(30) DEF Slots, Fit
<1>5. x \in ProcT /\ y \in ProcT
  BY <1>1, <1>2, <1>3, <1>4, <1>e, IdleIs DEF ProcT, Pcs, Calls, PageOrNone, Slots, States
<1>6. /\ x.state = proc[p].state /\ x.parent = proc[p].parent /\ x.sz = proc[p].sz
      /\ x.kstack = proc[p].kstack /\ x.pc = "user" /\ x.call = "none"
      /\ x.at = 0 /\ x.to = 0 /\ x.mem = Memory!None /\ x.child = 0
      /\ y.state = "running" /\ y.parent = p /\ y.sz = proc[p].sz
      /\ y.kstack = proc[c].kstack /\ y.pc = proc[c].pc /\ y.call = proc[c].call
      /\ y.at = proc[c].at /\ y.to = proc[c].to /\ y.mem = proc[c].mem /\ y.child = proc[c].child
  BY <1>3, <1>4 DEF ProcT
<1>u. TwoBecome(p, x, n, c, y, t) /\ n \in Spaces /\ t \in Spaces
  BY <1>1, <1>3, <1>4, <1>e, NoSpaceIs DEF TwoBecome, n, t
<1> HIDE DEF x, y, n, t
<1>7. Local(x, space[p], n)
  <2>1. Stage(x, n)
    BY <1>1, <1>2, <1>3, <1>6, <1>e DEF Stage, n
  <2>2. Fit(x, space[p], n)
    BY <1>1, <1>2, <1>3, <1>6, <1>e, NoSpaceIs DEF Fit, n
  <2>3. Absent(x, space[p])
    BY <1>2, <1>3, <1>6 DEF Absent
  <2>q. QED
    BY <1>3, <1>e, <2>1, <2>2, <2>3, NoSpaceIs DEF Local, n
<1>8. Local(y, t, new[c])
  <2>1. Stage(y, new[c])
    BY <1>1, <1>2, <1>3, <1>4, <1>6, <1>e DEF Stage
  <2>2. Fit(y, t, new[c])
    BY <1>1, <1>2, <1>3, <1>4, <1>6, <1>e, NoSpaceIs DEF Fit, t
  <2>3. Absent(y, t)
    BY <1>1, <1>2, <1>4, <1>6, <1>e DEF Absent, t
  <2>q. QED
    BY <1>3, <1>4, <1>e, <2>1, <2>2, <2>3 DEF Local, t
<1>g. G' = Handed(G, NewOf(p), SpaceOf(c))
  <2> DEFINE g == Handed(G, NewOf(p), SpaceOf(c))
  <2>1. g = [h \in Memory!Holders |-> g[h]]
    BY DEF Handed
  <2>2. /\ g[NewOf(p)] = Memory!OwnPages(n) /\ g[MemOf(p)] = {x.mem} \ {Memory!None}
        /\ g[SpaceOf(c)] = Memory!OwnPages(t) /\ g[StackOf(c)] = {y.kstack} \ {Memory!None}
        /\ \A h \in Memory!Holders : h \notin {NewOf(p), MemOf(p), SpaceOf(c), StackOf(c)}
             => g[h] = G[h]
    <3>1. \A h \in Memory!Holders : g[h] = IF h = NewOf(p) THEN {} ELSE IF h = SpaceOf(c)
            THEN G[NewOf(p)] \cup G[SpaceOf(c)] ELSE G[h]
      BY DEF Handed
    <3> HIDE DEF g
    <3>3. /\ {NewOf(p), MemOf(p), SpaceOf(c), StackOf(c)} \subseteq Memory!Holders
          /\ NewOf(p) # MemOf(p) /\ NewOf(p) # SpaceOf(c) /\ NewOf(p) # StackOf(c)
          /\ MemOf(p) # SpaceOf(c) /\ MemOf(p) # StackOf(c) /\ SpaceOf(c) # StackOf(c)
      BY HoldersAre
    <3>4. /\ G[NewOf(p)] = Memory!OwnPages(new[p]) /\ G[MemOf(p)] = {proc[p].mem} \ {Memory!None}
          /\ G[SpaceOf(c)] = Memory!OwnPages(space[c])
          /\ G[StackOf(c)] = {proc[c].kstack} \ {Memory!None}
      BY GIs
    <3>q. QED
      BY <1>1, <1>2, <1>6, <1>e, IdleIs, NoSpaceIs, <3>1, <3>3, <3>4 DEF n, t
  <2> HIDE DEF g
  <2>4. IsByTwo(g, p, x, n, c, y, t)
    BY <2>1, <2>2 DEF IsByTwo
  <2>3. G' = g
    BY <1>2, <1>5, <1>6, <1>u, <2>4, IdleIs, TwoHold
  <2>q. QED
    BY <2>3 DEF g
<1>s. Sound(free', G') /\ Whole(free', G') = Whole(free, G) /\ free' \subseteq Memory!Pages
  <2>1. Sound(free, G) /\ free \subseteq Memory!Pages /\ NewOf(p) \in Memory!Holders
          /\ SpaceOf(c) \in Memory!Holders /\ NewOf(p) # SpaceOf(c)
    BY HoldersAre DEF MemInv, MemTypes
  <2>q. QED
    BY <1>1, <1>g, <2>1, HandedIsSound
<1>9. /\ proc' \in [Memory!Procs -> ProcT] /\ space' \in [Memory!Procs -> Spaces]
      /\ new' \in [Memory!Procs -> Spaces]
      /\ Locals' /\ Children'
  BY <1>2, <1>5, <1>6, <1>7, <1>8, <1>u, <1>e, IdleIs, TwoChange
<1>10. MemTypes'
  <2>1. data' \in [Memory!Pages -> Contained]
    BY <1>1, FillTypes DEF MemInv, MemTypes, Contained
  <2>q. QED
    BY <1>9, <1>s, <2>1 DEF MemTypes
<1>q. QED
  BY <1>1, <1>2, <1>9, <1>10, <1>s DEF MemInv, Keeps

KeepsBut(lost) == MemInv' /\ (lost \/ Whole(free', G') = Whole(free, G))

LEMMA ForkUndoKeeps == ASSUME MemInv, NEW p \in Memory!Procs, NEW c \in Memory!Procs,
  c = proc[p].child, proc[p].state = "running", proc[p].call = "fork", proc[p].pc # "kstack",
  Memory!Undo(p, {}), Memory!Fill, UNCHANGED <<space, panic>> PROVE KeepsBut(proc[p].mem # Memory!None)
<1> DEFINE x == [proc[p] EXCEPT !.pc = "user", !.call = "none", !.at = 0, !.to = 0,
            !.mem = Memory!None, !.child = 0]
           y == Memory!Idle
           n == Memory!NoSpace
           t == space[c]
<1>1. /\ proc[p].state = "running" /\ proc[p].call = "fork" /\ proc[p].pc # "kstack"
      /\ c = proc[p].child /\ c # p
      /\ proc' = [proc EXCEPT ![p] = x, ![c] = y]
      /\ free' = free \cup Memory!OwnPages(new[p]) \cup {proc[c].kstack}
      /\ new' = [new EXCEPT ![p] = Memory!NoSpace] /\ Memory!Fill /\ UNCHANGED <<space, panic>>
  <2>1. c # 0 /\ c # p
    BY ChildIs
  <2>2. proc' = [q \in Memory!Procs |-> IF q = c THEN Memory!Idle ELSE Memory!Back(p)[q]]
          /\ proc \in [Memory!Procs -> ProcT]
    BY <2>1 DEF Memory!Undo, MemInv, MemTypes
  <2>3. proc' = [proc EXCEPT ![p] = x, ![c] = y]
    BY <2>1, <2>2 DEF Memory!Back
  <2>q. QED
    BY <2>1, <2>3 DEF Memory!Undo
<1>2. /\ proc[p].state = "running" /\ proc[p].pc # "kstack" /\ proc[p].call = "fork" 
      /\ proc[c].state = "embryo" /\ p # c /\ c # 0 /\ proc[p].child = c /\ Childless(p, c)
      /\ proc[c].call = "none" /\ proc[c].pc = "user" /\ proc[c].mem = Memory!None /\ proc[c].child = 0
      /\ proc[c].at = 0
      /\ new[c] = Memory!NoSpace /\ space[c] = Memory!NoSpace
           /\ (proc[c].kstack = Memory!None <=> proc[p].pc = "kstack")
      /\ UpTo(space[p], Memory!PGROUNDUP(proc[p].sz)) /\ proc[c].kstack # Memory!None
  <2>1. UpTo(space[p], Memory!PGROUNDUP(proc[p].sz))
    BY <1>1, PartsAre DEF Fit
  <2>q. QED
    BY <1>1, <2>1, ChildIs, RestIs
<1>3. /\ proc[p] \in ProcT /\ space[p] \in Spaces /\ new[p] \in Spaces
      /\ Stage(proc[p], new[p]) /\ Fit(proc[p], space[p], new[p]) /\ Absent(proc[p], space[p])
      /\ Inside(space[p]) /\ Inside(new[p])
      /\ proc = [proc EXCEPT ![p] = proc[p]]
      /\ space = [space EXCEPT ![c] = space[c]] /\ new = [new EXCEPT ![p] = new[p]]
  BY <1>2, AtIs, PartsAre DEF MemInv, MemTypes
<1>4. /\ proc[c] \in ProcT /\ space[c] \in Spaces /\ new[c] \in Spaces
      /\ Stage(proc[c], new[c]) /\ Fit(proc[c], space[c], new[c]) /\ Absent(proc[c], space[c])
      /\ Inside(space[c]) /\ Inside(new[c])
  BY PartsAre
<1>e. TRUE
  OBVIOUS
<1>5. x \in ProcT /\ y \in ProcT
  BY <1>1, <1>2, <1>3, <1>4, <1>e, IdleIs DEF ProcT, Pcs, Calls, PageOrNone, Slots, States
<1>6. /\ x.state = proc[p].state /\ x.parent = proc[p].parent /\ x.sz = proc[p].sz
      /\ x.kstack = proc[p].kstack /\ x.pc = "user" /\ x.call = "none"
      /\ x.at = 0 /\ x.to = 0 /\ x.mem = Memory!None /\ x.child = 0
      /\ y = Memory!Idle
  BY <1>3, <1>4 DEF ProcT
<1>u. TwoBecome(p, x, n, c, y, t) /\ n \in Spaces /\ t \in Spaces
  BY <1>1, <1>3, <1>4, <1>e, NoSpaceIs DEF TwoBecome, n, t
<1> HIDE DEF x, y, n, t
<1>7. Local(x, space[p], n)
  <2>1. Stage(x, n)
    BY <1>1, <1>2, <1>3, <1>6, <1>e DEF Stage, n
  <2>2. Fit(x, space[p], n)
    BY <1>1, <1>2, <1>3, <1>6, <1>e, NoSpaceIs DEF Fit, n
  <2>3. Absent(x, space[p])
    BY <1>2, <1>3, <1>6 DEF Absent
  <2>q. QED
    BY <1>3, <1>e, <2>1, <2>2, <2>3, NoSpaceIs DEF Local, n
<1>8. Local(y, t, new[c])
  BY <1>1, <1>2, <1>6, <1>e, IdleIs DEF t
<1>g. G' = Lost(Without(Without(G, NewOf(p), Memory!OwnPages(new[p])), StackOf(c), {proc[c].kstack}),
              MemOf(p))
  <2> DEFINE g == Lost(Without(Without(G, NewOf(p), Memory!OwnPages(new[p])), StackOf(c),
              {proc[c].kstack}), MemOf(p))
  <2>1. g = [h \in Memory!Holders |-> g[h]]
    BY DEF Lost
  <2>2. /\ g[NewOf(p)] = Memory!OwnPages(n) /\ g[MemOf(p)] = {x.mem} \ {Memory!None}
        /\ g[SpaceOf(c)] = Memory!OwnPages(t) /\ g[StackOf(c)] = {y.kstack} \ {Memory!None}
        /\ \A h \in Memory!Holders : h \notin {NewOf(p), MemOf(p), SpaceOf(c), StackOf(c)}
             => g[h] = G[h]
    <3> DEFINE g0 == Without(G, NewOf(p), Memory!OwnPages(new[p]))
               g1 == Without(g0, StackOf(c), {proc[c].kstack})
    <3>1. \A h \in Memory!Holders : g0[h] = IF h = NewOf(p) THEN G[h] \ Memory!OwnPages(new[p])
            ELSE G[h]
      BY DEF Without
    <3>2. \A h \in Memory!Holders : g1[h] = IF h = StackOf(c) THEN g0[h] \ {proc[c].kstack} ELSE g0[h]
      BY DEF Without
    <3>5. \A h \in Memory!Holders : g[h] = IF h = MemOf(p) THEN {} ELSE g1[h]
      BY DEF Lost, Without
    <3> HIDE DEF g0, g1, g
    <3>3. /\ {NewOf(p), MemOf(p), SpaceOf(c), StackOf(c)} \subseteq Memory!Holders
          /\ NewOf(p) # MemOf(p) /\ NewOf(p) # SpaceOf(c) /\ NewOf(p) # StackOf(c)
          /\ MemOf(p) # SpaceOf(c) /\ MemOf(p) # StackOf(c) /\ SpaceOf(c) # StackOf(c)
      BY HoldersAre
    <3>4. /\ G[NewOf(p)] = Memory!OwnPages(new[p]) /\ G[MemOf(p)] = {proc[p].mem} \ {Memory!None}
          /\ G[SpaceOf(c)] = Memory!OwnPages(space[c])
          /\ G[StackOf(c)] = {proc[c].kstack} \ {Memory!None}
      BY GIs
    <3>q. QED
      BY <1>1, <1>2, <1>6, <1>e, IdleIs, NoSpaceIs, <3>1, <3>2, <3>5, <3>3, <3>4, ZenonT(60) DEF n, t
  <2> HIDE DEF g
  <2>4. IsByTwo(g, p, x, n, c, y, t)
    BY <2>1, <2>2 DEF IsByTwo
  <2>3. G' = g
    BY <1>2, <1>5, <1>6, <1>u, <2>4, IdleIs, TwoHold
  <2>q. QED
    BY <2>3 DEF g
<1>s. Sound(free', G') /\ (proc[p].mem = Memory!None => Whole(free', G') = Whole(free, G))
        /\ free' \subseteq Memory!Pages
  <2>1. Sound(free, G) /\ free \subseteq Memory!Pages /\ Memory!OwnPages(new[p]) \subseteq Memory!Pages
          /\ {proc[c].kstack} \subseteq Memory!Pages
    BY <1>2, <1>3, <1>4, <1>e, OwnIs, ProcParts DEF MemInv, MemTypes, PageOrNone
  <2>2. /\ NewOf(p) \in Memory!Holders /\ StackOf(c) \in Memory!Holders /\ NewOf(p) # StackOf(c)
        /\ Memory!OwnPages(new[p]) \subseteq G[NewOf(p)] /\ {proc[c].kstack} \subseteq G[StackOf(c)]
    BY <1>2, <1>e, GIs, HoldersAre
  <2>3. LET f == free \cup Memory!OwnPages(new[p])
            g == Without(G, NewOf(p), Memory!OwnPages(new[p]))
        IN  Sound(f, g) /\ Whole(f, g) = Whole(free, G)
    BY <2>1, <2>2, GivenIsSound
  <2>4. {proc[c].kstack} \subseteq Without(G, NewOf(p), Memory!OwnPages(new[p]))[StackOf(c)]
    BY <2>2 DEF Without
  <2>5. LET f == free \cup Memory!OwnPages(new[p])
            g == Without(G, NewOf(p), Memory!OwnPages(new[p]))
        IN  Sound(f \cup {proc[c].kstack}, Without(g, StackOf(c), {proc[c].kstack}))
          /\ Whole(f \cup {proc[c].kstack}, Without(g, StackOf(c), {proc[c].kstack})) = Whole(f, g)
    BY <2>2, <2>3, <2>4, GivenIsSound
  <2>6. free' = (free \cup Memory!OwnPages(new[p])) \cup {proc[c].kstack}
    BY <1>1, <1>2
  <2>7. MemOf(p) \in Memory!Holders /\ MemOf(p) # NewOf(p) /\ MemOf(p) # StackOf(c)
          /\ G[MemOf(p)] = {proc[p].mem} \ {Memory!None}
    BY GIs, HoldersAre
  <2>8. LET g == Without(Without(G, NewOf(p), Memory!OwnPages(new[p])), StackOf(c), {proc[c].kstack})
        IN  proc[p].mem = Memory!None => g[MemOf(p)] = {}
    BY <2>7 DEF Without
  <2>9. /\ Sound(free', Without(Without(G, NewOf(p), Memory!OwnPages(new[p])), StackOf(c),
              {proc[c].kstack})) /\ free' \subseteq Memory!Pages
        /\ Whole(free', Without(Without(G, NewOf(p), Memory!OwnPages(new[p])), StackOf(c),
              {proc[c].kstack})) = Whole(free, G)
    BY <2>1, <2>3, <2>5, <2>6
  <2>10. LET g == Without(Without(G, NewOf(p), Memory!OwnPages(new[p])), StackOf(c), {proc[c].kstack})
         IN  Sound(free', Lost(g, MemOf(p)))
           /\ (g[MemOf(p)] = {} => Whole(free', Lost(g, MemOf(p))) = Whole(free', g))
    BY <2>7, <2>9, LostIsSound
  <2>q. QED
    BY <1>g, <2>8, <2>9, <2>10
<1>9. /\ proc' \in [Memory!Procs -> ProcT] /\ space' \in [Memory!Procs -> Spaces]
      /\ new' \in [Memory!Procs -> Spaces]
      /\ Locals' /\ Children'
  BY <1>2, <1>5, <1>6, <1>7, <1>8, <1>u, <1>e, IdleIs, TwoChange
<1>10. MemTypes'
  <2>1. data' \in [Memory!Pages -> Contained]
    BY <1>1, FillTypes DEF MemInv, MemTypes, Contained
  <2>q. QED
    BY <1>9, <1>s, <2>1 DEF MemTypes
<1>q. QED
  BY <1>1, <1>2, <1>9, <1>10, <1>s DEF MemInv, KeepsBut

Waits(p, c) ==
  /\ Memory!InUser(p) /\ proc[c].state = "zombie"
  /\ free' = free \cup {proc[c].kstack} \cup Memory!OwnPages(space[c])
  /\ space' = [space EXCEPT ![c] = Memory!NoSpace]
  /\ proc' = [proc EXCEPT ![c] = Memory!Idle]
  /\ Memory!Fill /\ UNCHANGED <<new, panic>>

LEMMA WaitKeeps == ASSUME MemInv, NEW p \in Memory!Procs, NEW c \in Memory!Procs, Waits(p, c)
  PROVE Keeps
<1> DEFINE x == proc[p]
           y == Memory!Idle
           n == new[p]
           t == Memory!NoSpace
<1>1. /\ Memory!InUser(p) /\ proc[c].state = "zombie"
      /\ proc' = [proc EXCEPT ![c] = y]
      /\ free' = free \cup {proc[c].kstack} \cup Memory!OwnPages(space[c])
      /\ space' = [space EXCEPT ![c] = t] /\ Memory!Fill /\ UNCHANGED <<new, panic>>
  BY DEF Waits
<1>2. /\ proc[p].state = "running" /\ proc[p].pc = "user" /\ proc[p].call = "none"
      /\ proc[p].mem = Memory!None
      /\ proc[p].child = 0 /\ proc[p].at = 0 /\ new[p] = Memory!NoSpace
      /\ UpTo(space[p], Memory!PGROUNDUP(proc[p].sz)) /\ proc[p].kstack # Memory!None
      /\ new[c] = Memory!NoSpace /\ Childless(p, c) /\ p # c /\ proc[c].kstack # Memory!None
      /\ proc[c].mem = Memory!None
      /\ proc' = [proc EXCEPT ![p] = x, ![c] = y]
  <2>1. /\ new[c] = Memory!NoSpace /\ Childless(p, c) /\ proc[c].kstack # Memory!None
        /\ proc[c].mem = Memory!None
    BY <1>1, RestIs, NotYetChild
  <2>2. proc[p].state = "running" /\ proc = [proc EXCEPT ![p] = proc[p]]
    BY <1>1, InUserIs, AtIs
  <2>3. proc' = [proc EXCEPT ![p] = x, ![c] = y]
    BY <1>1, <2>2
  <2>q. QED
    BY <1>1, <2>1, <2>2, <2>3, InUserIs
<1>3. /\ proc[p] \in ProcT /\ space[p] \in Spaces /\ new[p] \in Spaces
      /\ Stage(proc[p], new[p]) /\ Fit(proc[p], space[p], new[p]) /\ Absent(proc[p], space[p])
      /\ Inside(space[p]) /\ Inside(new[p])
      /\ proc = [proc EXCEPT ![p] = proc[p]]
      /\ space = [space EXCEPT ![c] = space[c]] /\ new = [new EXCEPT ![p] = new[p]]
  BY <1>2, AtIs, PartsAre DEF MemInv, MemTypes
<1>4. /\ proc[c] \in ProcT /\ space[c] \in Spaces /\ new[c] \in Spaces
      /\ Stage(proc[c], new[c]) /\ Fit(proc[c], space[c], new[c]) /\ Absent(proc[c], space[c])
      /\ Inside(space[c]) /\ Inside(new[c])
  BY PartsAre
<1>e. c # 0
  BY DEF Memory!Procs
<1>5. x \in ProcT /\ y \in ProcT
  BY <1>1, <1>2, <1>3, <1>4, <1>e, IdleIs DEF ProcT, Pcs, Calls, PageOrNone, Slots, States
<1>6. /\ x.state = proc[p].state /\ x.parent = proc[p].parent /\ x.sz = proc[p].sz
      /\ x.kstack = proc[p].kstack /\ x.pc = proc[p].pc /\ x.call = proc[p].call
      /\ x.at = proc[p].at /\ x.to = proc[p].to /\ x.mem = proc[p].mem /\ x.child = proc[p].child
      /\ y = Memory!Idle
  BY <1>3, <1>4 DEF ProcT
<1>u. TwoBecome(p, x, n, c, y, t) /\ n \in Spaces /\ t \in Spaces
  BY <1>1, <1>3, <1>4, <1>e, NoSpaceIs DEF TwoBecome, n, t
<1> HIDE DEF x, y, n, t
<1>7. Local(x, space[p], n)
  <2>1. Stage(x, n)
    BY <1>1, <1>2, <1>3, <1>6, <1>e DEF Stage, n
  <2>2. Fit(x, space[p], n)
    BY <1>1, <1>2, <1>3, <1>6, <1>e, NoSpaceIs DEF Fit, n
  <2>3. Absent(x, space[p])
    BY <1>2, <1>3, <1>6 DEF Absent
  <2>q. QED
    BY <1>3, <1>e, <2>1, <2>2, <2>3, NoSpaceIs DEF Local, n
<1>8. Local(y, t, new[c])
  BY <1>1, <1>2, <1>6, <1>e, IdleIs DEF t
<1>g. G' = Without(Without(G, SpaceOf(c), Memory!OwnPages(space[c])), StackOf(c), {proc[c].kstack})
  <2> DEFINE g == Without(Without(G, SpaceOf(c), Memory!OwnPages(space[c])), StackOf(c),
              {proc[c].kstack})
  <2>1. g = [h \in Memory!Holders |-> g[h]]
    BY DEF Without
  <2>2. /\ g[NewOf(p)] = Memory!OwnPages(n) /\ g[MemOf(p)] = {x.mem} \ {Memory!None}
        /\ g[SpaceOf(c)] = Memory!OwnPages(t) /\ g[StackOf(c)] = {y.kstack} \ {Memory!None}
        /\ \A h \in Memory!Holders : h \notin {NewOf(p), MemOf(p), SpaceOf(c), StackOf(c)}
             => g[h] = G[h]
    <3> DEFINE g0 == Without(G, SpaceOf(c), Memory!OwnPages(space[c]))
               g1 == Without(g0, StackOf(c), {proc[c].kstack})
    <3>1. \A h \in Memory!Holders : g0[h] = IF h = SpaceOf(c) THEN G[h] \ Memory!OwnPages(space[c])
            ELSE G[h]
      BY DEF Without
    <3>2. \A h \in Memory!Holders : g1[h] = IF h = StackOf(c) THEN g0[h] \ {proc[c].kstack} ELSE g0[h]
      BY DEF Without
    <3>5. \A h \in Memory!Holders : g[h] = g1[h]
      BY DEF Lost, Without
    <3> HIDE DEF g0, g1, g
    <3>3. /\ {NewOf(p), MemOf(p), SpaceOf(c), StackOf(c)} \subseteq Memory!Holders
          /\ NewOf(p) # MemOf(p) /\ NewOf(p) # SpaceOf(c) /\ NewOf(p) # StackOf(c)
          /\ MemOf(p) # SpaceOf(c) /\ MemOf(p) # StackOf(c) /\ SpaceOf(c) # StackOf(c)
      BY HoldersAre
    <3>4. /\ G[NewOf(p)] = Memory!OwnPages(new[p]) /\ G[MemOf(p)] = {proc[p].mem} \ {Memory!None}
          /\ G[SpaceOf(c)] = Memory!OwnPages(space[c])
          /\ G[StackOf(c)] = {proc[c].kstack} \ {Memory!None}
      BY GIs
    <3>6. g[NewOf(p)] = Memory!OwnPages(new[p]) /\ g[MemOf(p)] = {proc[p].mem} \ {Memory!None}
            /\ g[SpaceOf(c)] = {}
      BY <3>1, <3>2, <3>3, <3>4, <3>5, ZenonT(60)
    <3>7. g[StackOf(c)] = {}
      BY <1>2, <3>1, <3>2, <3>3, <3>4, <3>5
    <3>8. \A h \in Memory!Holders : h \notin {NewOf(p), MemOf(p), SpaceOf(c), StackOf(c)} => g[h] = G[h]
      BY <3>1, <3>2, <3>5
    <3>9. x.mem = proc[p].mem /\ y.kstack = Memory!None /\ Memory!OwnPages(n) = Memory!OwnPages(new[p])
            /\ Memory!OwnPages(t) = {}
      BY <1>6, IdleIs, NoSpaceIs DEF n, t
    <3>q. QED
      BY <3>6, <3>7, <3>8, <3>9
  <2> HIDE DEF g
  <2>4. IsByTwo(g, p, x, n, c, y, t)
    BY <2>1, <2>2 DEF IsByTwo
  <2>3. G' = g
    BY <1>2, <1>5, <1>6, <1>u, <2>4, IdleIs, TwoHold
  <2>q. QED
    BY <2>3 DEF g
<1>s. Sound(free', G') /\ Whole(free', G') = Whole(free, G) /\ free' \subseteq Memory!Pages
  <2>1. Sound(free, G) /\ free \subseteq Memory!Pages
          /\ Memory!OwnPages(space[c]) \subseteq Memory!Pages /\ {proc[c].kstack} \subseteq Memory!Pages
    BY <1>2, <1>3, <1>4, <1>e, OwnIs, ProcParts DEF MemInv, MemTypes, PageOrNone
  <2>2. /\ SpaceOf(c) \in Memory!Holders /\ StackOf(c) \in Memory!Holders /\ SpaceOf(c) # StackOf(c)
        /\ Memory!OwnPages(space[c]) \subseteq G[SpaceOf(c)] /\ {proc[c].kstack} \subseteq G[StackOf(c)]
    BY <1>2, <1>e, GIs, HoldersAre
  <2>3. LET f == free \cup Memory!OwnPages(space[c])
            g == Without(G, SpaceOf(c), Memory!OwnPages(space[c]))
        IN  Sound(f, g) /\ Whole(f, g) = Whole(free, G)
    BY <2>1, <2>2, GivenIsSound
  <2>4. {proc[c].kstack} \subseteq Without(G, SpaceOf(c), Memory!OwnPages(space[c]))[StackOf(c)]
    BY <2>2 DEF Without
  <2>5. LET f == free \cup Memory!OwnPages(space[c])
            g == Without(G, SpaceOf(c), Memory!OwnPages(space[c]))
        IN  Sound(f \cup {proc[c].kstack}, Without(g, StackOf(c), {proc[c].kstack}))
          /\ Whole(f \cup {proc[c].kstack}, Without(g, StackOf(c), {proc[c].kstack})) = Whole(f, g)
    BY <2>2, <2>3, <2>4, GivenIsSound
  <2>6. free' = (free \cup Memory!OwnPages(space[c])) \cup {proc[c].kstack}
    BY <1>1, <1>2
  <2>q. QED
    BY <1>g, <2>1, <2>3, <2>5, <2>6
<1>9. /\ proc' \in [Memory!Procs -> ProcT] /\ space' \in [Memory!Procs -> Spaces]
      /\ new' \in [Memory!Procs -> Spaces]
      /\ Locals' /\ Children'
  BY <1>2, <1>5, <1>6, <1>7, <1>8, <1>u, <1>e, IdleIs, TwoChange
<1>10. MemTypes'
  <2>1. data' \in [Memory!Pages -> Contained]
    BY <1>1, FillTypes DEF MemInv, MemTypes, Contained
  <2>q. QED
    BY <1>9, <1>s, <2>1 DEF MemTypes
<1>q. QED
  BY <1>1, <1>2, <1>9, <1>10, <1>s DEF MemInv, Keeps
-----------------------------------------------------------------------------
(* Every step *)

\* Giving up what was built: only the page that a fork has just got is lost.
LEMMA UndoKeeps ==
  ASSUME MemInv, NEW p \in Memory!Procs, NEW F, proc[p].state = "running",
         proc[p].call \in {"exec", "fork"},
         proc[p].pc # "kstack", F = IF proc[p].call = "fork" THEN {} ELSE {proc[p].mem} \ {Memory!None},
         Memory!Undo(p, F), Memory!Fill, UNCHANGED <<space, panic>>
  PROVE  KeepsBut(proc[p].call = "fork" /\ proc[p].mem # Memory!None /\ proc'[p].call = "none")
<1>1. CASE proc[p].call = "exec"
  BY <1>1, ExecUndoKeeps DEF Keeps, KeepsBut
<1>2. CASE proc[p].call = "fork"
  <2>1. proc[p].child \in Memory!Procs /\ proc[p].child # p /\ F = {}
    BY <1>2, ChildIs
  <2>2. KeepsBut(proc[p].mem # Memory!None)
    BY <1>2, <2>1, ForkUndoKeeps
  <2>3. proc'[p].call = "none"
    BY <2>1, PartsAre DEF Memory!Undo, Memory!Back, MemInv, MemTypes, ProcT
  <2>q. QED
    BY <1>2, <2>2, <2>3 DEF KeepsBut
<1>q. QED
  BY <1>1, <1>2

Loses(p) == proc[p].call = "fork" /\ proc[p].mem # Memory!None /\ proc'[p].call = "none"

LEMMA DirStep == ASSUME MemInv, NEW p \in Memory!Procs, Memory!Dir(p) PROVE KeepsBut(Loses(p))
<1>1. CASE free # {}
  BY <1>1, DirKeeps DEF Keeps, KeepsBut
<1>2. CASE free = {}
  <2>1. /\ proc[p].state = "running" /\ proc[p].call \in {"exec", "fork"} /\ proc[p].pc # "kstack"
        /\ proc[p].mem = Memory!None /\ Memory!Undo(p, {}) /\ Memory!Fill /\ UNCHANGED <<space, panic>>
    BY <1>2, PartsAre DEF Memory!Dir, Memory!Kalloc, Memory!At, Memory!Running, Stage
  <2>q. QED
    BY <2>1, UndoKeeps DEF KeepsBut
<1>q. QED
  BY <1>1, <1>2

LEMMA KernStep == ASSUME MemInv, NEW p \in Memory!Procs, Memory!Kern(p) PROVE KeepsBut(Loses(p))
<1>1. CASE free # {}
  BY <1>1, KernKeeps DEF Keeps, KeepsBut
<1>2. CASE free = {}
  <2>1. /\ proc[p].state = "running" /\ proc[p].call \in {"exec", "fork"} /\ proc[p].pc # "kstack"
        /\ proc[p].mem = Memory!None /\ Memory!Undo(p, {}) /\ Memory!Fill /\ UNCHANGED <<space, panic>>
    BY <1>2, PartsAre DEF Memory!Kern, Memory!Kalloc, Memory!At, Memory!Running, Stage
  <2>q. QED
    BY <2>1, UndoKeeps DEF KeepsBut
<1>q. QED
  BY <1>1, <1>2

LEMMA PageStep == ASSUME MemInv, NEW p \in Memory!Procs, Memory!Page(p) PROVE KeepsBut(Loses(p))
<1>1. CASE free # {}
  BY <1>1, PageFoundKeeps DEF Keeps, KeepsBut
<1>2. CASE free = {} /\ proc[p].call = "sbrk"
  BY <1>2, PageShortKeeps DEF Keeps, KeepsBut
<1>3. CASE free = {} /\ proc[p].call # "sbrk"
  <2>0. proc[p].state = "running" /\ proc[p].pc = "page" /\ proc[p].call # "none"
    BY PageIs, InLoop
  <2>1. /\ proc[p].state = "running" /\ proc[p].call \in {"exec", "fork"} /\ proc[p].pc # "kstack"
        /\ proc[p].mem = Memory!None
    BY <1>3, <2>0, PartsAre, ProcParts DEF Stage, Calls
  <2>2. Memory!Undo(p, {}) /\ Memory!Fill /\ UNCHANGED <<space, panic>>
    BY <1>3, PageIs
  <2>q. QED
    BY <2>1, <2>2, UndoKeeps DEF KeepsBut
<1>q. QED
  BY <1>1, <1>2, <1>3

LEMMA MapFailsStep == ASSUME MemInv, NEW p \in Memory!Procs, Memory!MapFails(p) PROVE KeepsBut(Loses(p))
<1>1. CASE proc[p].call = "sbrk"
  BY <1>1, MapShortKeeps DEF Keeps, KeepsBut
<1>2. CASE proc[p].call # "sbrk"
  <2>1. /\ proc[p].state = "running" /\ proc[p].call \in {"exec", "fork"} /\ proc[p].pc # "kstack"
        /\ proc[p].mem # Memory!None
    BY <1>2, PartsAre, ProcParts DEF Memory!MapFails, Memory!At, Memory!Running, Stage, Calls
  <2>2. Memory!Undo(p, Memory!Saved(p)) /\ Memory!Fill /\ UNCHANGED <<space, panic>>
    BY <1>2 DEF Memory!MapFails
  <2>3. Memory!Saved(p) = IF proc[p].call = "fork" THEN {} ELSE {proc[p].mem} \ {Memory!None}
    BY <2>1 DEF Memory!Saved
  <2>q. QED
    BY <2>1, <2>2, <2>3, UndoKeeps DEF Loses
<1>q. QED
  BY <1>1, <1>2

LEMMA ExecDoneStep == ASSUME MemInv, NEW p \in Memory!Procs, Memory!ExecDone(p) PROVE KeepsBut(Loses(p))
<1>1. CASE Replaces(p)
  BY <1>1, ExecReplaceKeeps DEF Memory!ExecDone, Keeps, KeepsBut
<1>2. CASE Memory!Undo(p, {}) /\ Memory!Fill /\ UNCHANGED <<space, panic>>
  <2>1. /\ proc[p].state = "running" /\ proc[p].call = "exec" /\ proc[p].pc # "kstack"
        /\ proc[p].mem = Memory!None
    BY PartsAre DEF Memory!ExecDone, Memory!Complete, Memory!At, Memory!Running, Stage
  <2>q. QED
    BY <1>2, <2>1, UndoKeeps DEF KeepsBut
<1>q. QED
  BY <1>1, <1>2 DEF Memory!ExecDone, Replaces

LEMMA SbrkStep == ASSUME MemInv, NEW p \in Memory!Procs, Memory!Sbrk(p) PROVE Keeps
<1>1. \E n \in Amounts : Grows(p, n) \/ Shrinks(p, n)
  BY DEF Memory!Sbrk, Grows, Shrinks
<1>q. QED
  BY <1>1, SbrkGrowKeeps, SbrkShrinkKeeps

LEMMA ForkStep == ASSUME MemInv, NEW p \in Memory!Procs, Memory!Fork(p) PROVE Keeps
<1>1. PICK c \in Memory!Procs : proc[c].state = "unused" /\ Forks(p, c)
  BY DEF Memory!Fork, Forks
<1>2. p # c
  BY <1>1, InUserIs DEF Forks
<1>q. QED
  BY <1>1, <1>2, ForkKeeps

LEMMA KStackStep == ASSUME MemInv, NEW p \in Memory!Procs, Memory!KStack(p) PROVE Keeps
<1>1. proc[p].child \in Memory!Procs
  BY PartsAre, ChildIs DEF Memory!KStack, Memory!At, Memory!Running, Stage
<1>q. QED
  BY <1>1, KStackFoundKeeps, KStackShortKeeps

LEMMA ForkDoneStep == ASSUME MemInv, NEW p \in Memory!Procs, Memory!ForkDone(p) PROVE Keeps
<1>1. proc[p].child \in Memory!Procs
  BY ChildIs DEF Memory!ForkDone, Memory!Complete, Memory!At, Memory!Running
<1>q. QED
  BY <1>1, ForkDoneKeeps

LEMMA WaitStep == ASSUME MemInv, NEW p \in Memory!Procs, Memory!Wait(p) PROVE Keeps
<1>1. \E c \in Memory!Procs : Waits(p, c)
  BY DEF Memory!Wait, Waits
<1>q. QED
  BY <1>1, WaitKeeps

\* The parents of others change, too.
LEMMA ExitStep == ASSUME MemInv, NEW p \in Memory!Procs, Memory!Exit(p) PROVE Keeps
<1>1. /\ proc[p].state = "running" /\ proc[p].pc = "user" /\ UNCHANGED <<free, data, space, new, panic>>
      /\ proc' = [q \in Memory!Procs |->
            IF q = p THEN [proc[p] EXCEPT !.state = "zombie"]
            ELSE IF proc[q].parent = p THEN [proc[q] EXCEPT !.parent = 1] ELSE proc[q]]
  BY DEF Memory!Exit, Memory!At, Memory!Running
<1>0. 1 \in Slots
  BY MemoryAssumption DEF Slots, Memory!Procs
<1>2. ASSUME NEW q \in Memory!Procs
      PROVE  /\ proc'[q] \in ProcT
             /\ proc'[q].sz = proc[q].sz /\ proc'[q].kstack = proc[q].kstack /\ proc'[q].pc = proc[q].pc
             /\ proc'[q].call = proc[q].call /\ proc'[q].at = proc[q].at /\ proc'[q].to = proc[q].to
             /\ proc'[q].mem = proc[q].mem /\ proc'[q].child = proc[q].child
             /\ proc'[q].state = (IF q = p THEN "zombie" ELSE proc[q].state)
             /\ q # p /\ proc[q].parent # p => proc'[q] = proc[q]
  <2>1. proc[q] \in ProcT /\ proc[p] \in ProcT
    BY PartsAre
  <2>2. CASE q = p
    <3>1. proc'[q] = [proc[p] EXCEPT !.state = "zombie"]
      BY <1>1, <2>2
    <3>q. QED
      BY <2>1, <2>2, <3>1 DEF ProcT, States
  <2>3. CASE q # p /\ proc[q].parent = p
    <3>1. proc'[q] = [proc[q] EXCEPT !.parent = 1]
      BY <1>1, <2>3
    <3>q. QED
      BY <1>0, <2>1, <2>3, <3>1 DEF ProcT
  <2>4. CASE q # p /\ proc[q].parent # p
    <3>1. proc'[q] = proc[q]
      BY <1>1, <2>4
    <3>q. QED
      BY <2>1, <2>4, <3>1
  <2>q. QED
    BY <2>2, <2>3, <2>4
<1>3. Locals'
  <2> SUFFICES ASSUME NEW q \in Memory!Procs PROVE Local(proc'[q], space'[q], new'[q])
    BY DEF Locals
  <2>1. /\ Stage(proc[q], new[q]) /\ Fit(proc[q], space[q], new[q]) /\ Absent(proc[q], space[q])
        /\ Inside(space[q]) /\ Inside(new[q])
    BY PartsAre
  <2>2. proc[p].call = "none" /\ proc[p].kstack # Memory!None
    BY <1>1, PartsAre DEF Stage, Absent
  <2>3. Stage(proc'[q], new[q])
    BY <1>2, <2>1, <2>2 DEF Stage
  <2>4. Fit(proc'[q], space[q], new[q])
    BY <1>1, <1>2, <2>1, <2>2 DEF Fit
  <2>5. Absent(proc'[q], space[q])
    <3>1. CASE q = p
      BY <1>2, <2>2, <3>1 DEF Absent
    <3>2. CASE q # p
      <4>1. proc[q].state = "unused" => proc[q].parent = 0
        BY <2>1 DEF Absent, Memory!Idle
      <4>2. p # 0
        BY DEF Memory!Procs
      <4>q. QED
        BY <1>2, <2>1, <3>2, <4>1, <4>2 DEF Absent
    <3>q. QED
      BY <3>1, <3>2
  <2>q. QED
    BY <1>1, <2>1, <2>3, <2>4, <2>5 DEF Local
<1>4. Children'
  <2> SUFFICES ASSUME NEW q \in Memory!Procs, proc'[q].child # 0
               PROVE  /\ proc'[proc'[q].child].state = "embryo"
                      /\ proc'[proc'[q].child].kstack = Memory!None <=> proc'[q].pc = "kstack"
                      /\ \A o \in Memory!Procs : proc'[o].child = proc'[q].child => o = q
    BY DEF Children
  <2>1. /\ proc[proc[q].child].state = "embryo"
        /\ proc[proc[q].child].kstack = Memory!None <=> proc[q].pc = "kstack"
        /\ \A o \in Memory!Procs : proc[o].child = proc[q].child => o = q
    BY <1>2 DEF MemInv, Children
  <2>2. proc[q].child \in Memory!Procs /\ proc[q].child # p
    BY <1>1, <1>2, <2>1, PartsAre DEF ProcT, Slots
  <2>q. QED
    BY <1>2, <2>1, <2>2
<1>5. G' = G
  BY <1>1, <1>2, NobodyHolds
<1>6. MemTypes'
  <2>1. proc' \in [Memory!Procs -> ProcT]
    BY <1>1, <1>2
  <2>q. QED
    BY <1>1, <2>1 DEF MemInv, MemTypes
<1>q. QED
  BY <1>1, <1>3, <1>4, <1>5, <1>6 DEF MemInv, Keeps

LEMMA StoreStep == ASSUME MemInv, NEW p \in Memory!Procs, Memory!Store(p) PROVE Keeps
<1>1. UNCHANGED <<free, space, new, proc, panic>> /\ data' \in [Memory!Pages -> Contained]
  BY DEF Memory!Store, MemInv, MemTypes, Contained
<1>2. G' = G
  BY <1>1, NobodyHolds
<1>3. MemTypes' /\ Locals' /\ Children'
  BY <1>1 DEF MemInv, MemTypes, Locals, Children
<1>q. QED
  BY <1>1, <1>2, <1>3 DEF MemInv, Keeps

LEMMA StepKeeps ==
  ASSUME MemInv, Memory!Next
  PROVE  MemInv' /\ (Whole(free', G') = Whole(free, G) \/ \E p \in Memory!Procs : Loses(p))
<1>1. PICK p \in Memory!Procs :
        \/ Memory!Fork(p) \/ Memory!KStack(p) \/ Memory!Exec(p) \/ Memory!Dir(p) \/ Memory!Kern(p)
          \/ Memory!Sbrk(p) \/ Memory!Page(p)
        \/ Memory!Map(p) \/ Memory!MapFails(p) \/ Memory!SbrkDone(p) \/ Memory!ForkDone(p)
          \/ Memory!ExecDone(p)
        \/ Memory!Exit(p) \/ Memory!Wait(p) \/ Memory!Store(p)
  BY DEF Memory!Next
<1>2. CASE Memory!Dir(p) \/ Memory!Kern(p) \/ Memory!Page(p) \/ Memory!MapFails(p) \/ Memory!ExecDone(p)
  <2>1. KeepsBut(Loses(p))
    BY <1>2, DirStep, KernStep, PageStep, MapFailsStep, ExecDoneStep
  <2>q. QED
    BY <2>1 DEF KeepsBut
<1>3. CASE \/ Memory!Fork(p) \/ Memory!KStack(p) \/ Memory!Exec(p) \/ Memory!Sbrk(p) \/ Memory!Map(p)
        \/ Memory!SbrkDone(p) \/ Memory!ForkDone(p)
           \/ Memory!Exit(p) \/ Memory!Wait(p) \/ Memory!Store(p)
  <2>1. Keeps
    BY <1>3, ForkStep, KStackStep, ExecKeeps, SbrkStep, MapKeeps, SbrkDoneKeeps, ForkDoneStep,
       ExitStep, WaitStep, StoreStep
  <2>q. QED
    BY <2>1 DEF Keeps
<1>q. QED
  BY <1>1, <1>2, <1>3

LEMMA StutterKeeps ==
  ASSUME MemInv, UNCHANGED Memory!vars
  PROVE  MemInv' /\ Whole(free', G') = Whole(free, G)
<1>1. UNCHANGED <<free, data, space, new, proc, panic>>
  BY DEF Memory!vars
<1>2. G' = G
  BY <1>1, NobodyHolds
<1>3. MemTypes' /\ Locals' /\ Children'
  BY <1>1 DEF MemInv, MemTypes, Locals, Children
<1>q. QED
  BY <1>1, <1>2, <1>3 DEF MemInv

LEMMA InvOneOwner == ASSUME MemInv PROVE Memory!PagesHaveOneOwner
<1>1. free \cap Memory!Owned = {}
  <2>1. \A h \in Memory!Holders : free \cap Memory!Held(h) = {}
    BY GIs DEF MemInv, Sound
  <2>q. QED
    BY <2>1 DEF Memory!Owned
<1>2. \A h, hh \in Memory!Holders : h # hh => Memory!Held(h) \cap Memory!Held(hh) = {}
  BY GIs DEF MemInv, Sound
<1>3. \A p \in Memory!Procs : \A v, v2 \in Memory!VPages :
        v # v2 /\ Memory!Present(space[p], v) => space[p].pte[v].pa # space[p].pte[v2].pa
  BY PartsAre DEF Inside
<1>q. QED
  BY <1>1, <1>2, <1>3 DEF Memory!PagesHaveOneOwner, MemInv

LEMMA InvLoss == ASSUME MemInv, [Memory!Next]_(Memory!vars) PROVE Memory!LossStep
<1>1. Whole(free', G') = Whole(free, G) \/ \E p \in Memory!Procs : Loses(p)
  BY StepKeeps, StutterKeeps
<1>q. QED
  BY <1>1, WholeIs DEF Memory!LossStep, Loses
-----------------------------------------------------------------------------
(* The first state *)

First == [Memory!NoSpace EXCEPT !.dir = 2, !.kern = 3, !.table[0] = 4,
          !.pte[0] = [pa |-> 5, user |-> TRUE]]

LEMMA FirstIs ==
  /\ First \in Spaces /\ Inside(First) /\ OnlyPresent(First) /\ UpTo(First, 1)
  /\ Memory!OwnPages(First) = 2..5
<1> DEFINE z1 == [Memory!NoSpace EXCEPT !.dir = 2]
           z2 == [z1 EXCEPT !.kern = 3]
           z3 == [z2 EXCEPT !.table[0] = 4]
           entry == [pa |-> 5, user |-> TRUE]
           z4 == [z3 EXCEPT !.pte[0] = entry]
<1>0. /\ 0 \in Memory!VPages /\ 0 \in Memory!Tables /\ \A v \in Memory!VPages : v \in Nat
      /\ 2 \in Memory!Pages /\ 3 \in Memory!Pages /\ 4 \in Memory!Pages /\ 5 \in Memory!Pages
  <2>1. (ImageSize + 2) * PGSIZE \in Nat /\ 1 < KERNBASE
    <3>1. (ImageSize + 2) * PGSIZE = ImageSize * PGSIZE + 2 * PGSIZE /\ ImageSize * PGSIZE \in Nat
      BY MemoryAssumption
    <3>q. QED
      BY <3>1, MemoryAssumption
  <2>2. 0 < Memory!PGROUNDUP(1)
    <3>1. 0 < Memory!PGROUNDUP(1) <=> 0 * PGSIZE < 1
      BY RoundUp
    <3>q. QED
      BY <3>1, MemoryAssumption
  <2>3. 0 \in Memory!VPages /\ 0 \div PerTable \in Memory!Tables
    BY <2>1, <2>2, BelowIsVPage
  <2>4. 0 \div PerTable = 0
    BY MemoryAssumption
  <2>q. QED
    BY <2>3, <2>4, MemoryAssumption DEF Memory!Pages, Memory!VPages
<1>1. /\ z1 \in Spaces /\ z1.pte = Memory!NoSpace.pte /\ z1.kern = Memory!None
      /\ KernPages(z1) = KernPages(Memory!NoSpace) \cup {2}
      /\ z1.table = Memory!NoSpace.table
  <2>1. z1.table = Memory!NoSpace.table
    BY DEF Memory!NoSpace
  <2>q. QED
    BY <1>0, <2>1, DirIsSet, NoSpaceIs
<1> HIDE DEF z1
<1>2. Memory!OwnPages(z1) = {2} /\ Inside(z1) /\ \A v \in Memory!VPages : ~Memory!Present(z1, v)
  BY <1>0, <1>1, KernGrows, NoSpaceIs DEF UpTo
<1>3. z2 \in Spaces /\ z2.pte = z1.pte /\ KernPages(z2) = KernPages(z1) \cup {3} /\ z2.table = z1.table
  <2>1. z2.table = z1.table
    BY <1>1 DEF Spaces
  <2>q. QED
    BY <1>0, <1>1, <2>1, KernIsSet
<1> HIDE DEF z2
<1>4. Memory!OwnPages(z2) = {2, 3} /\ Inside(z2) /\ \A v \in Memory!VPages : ~Memory!Present(z2, v)
  <2>1. 3 \notin Memory!OwnPages(z1)
    BY <1>2
  <2>q. QED
    BY <1>0, <1>1, <1>2, <1>3, <2>1, KernGrows
<1>5. z3 \in Spaces /\ z3.pte = z2.pte /\ KernPages(z3) = KernPages(z2) \cup {4}
  <2>1. z2.table[0] = Memory!None
    BY <1>0, <1>1, <1>3 DEF Memory!NoSpace
  <2>q. QED
    BY <1>0, <1>3, <2>1, TableIsSet
<1> HIDE DEF z3
<1>6. Memory!OwnPages(z3) = {2, 3, 4} /\ Inside(z3) /\ \A v \in Memory!VPages : ~Memory!Present(z3, v)
  <2>1. 4 \notin Memory!OwnPages(z2)
    BY <1>4
  <2>q. QED
    BY <1>0, <1>3, <1>4, <1>5, <2>1, KernGrows
<1>7. OnlyPresent(z3)
  <2>1. z3.pte = Memory!NoSpace.pte
    BY <1>1, <1>3, <1>5
  <2>q. QED
    BY <2>1 DEF OnlyPresent, Memory!NoSpace, Memory!NoPte
<1>8. WithPte(z4, z3, 5, 0, TRUE, entry)
  BY DEF WithPte
<1> HIDE DEF z4, entry
<1>9. /\ z4 \in Spaces /\ Memory!OwnPages(z4) = Memory!OwnPages(z3) \cup {5} /\ Inside(z4)
      /\ \A y \in Memory!VPages : Memory!Present(z4, y) <=> y = 0 \/ Memory!Present(z3, y)
      /\ OnlyPresent(z4)
  <2>1. 5 \notin Memory!OwnPages(z3) /\ ~Memory!Present(z3, 0)
    BY <1>0, <1>6
  <2>2. \E u \in BOOLEAN : WithPte(z4, z3, 5, 0, u, entry)
    BY <1>8
  <2>q. QED
    BY <1>0, <1>5, <1>6, <1>7, <2>1, <2>2, PteIsSet
<1>10. UpTo(z4, 1)
  BY <1>0, <1>6, <1>9 DEF UpTo
<1>11. Memory!OwnPages(z4) = 2..5
  BY <1>6, <1>9
<1>12. First = z4
  BY DEF First, z4, z3, z2, z1, entry
<1>q. QED
  BY <1>9, <1>10, <1>11, <1>12

Second == [Memory!Idle EXCEPT !.state = "running", !.kstack = 1, !.sz = PGSIZE]

LEMMA InitInv == Memory!Init => MemInv
<1> SUFFICES ASSUME Memory!Init PROVE MemInv
  OBVIOUS
<1>1. /\ free = Memory!Pages \ (1..5) /\ panic = FALSE
      /\ space = [p \in Memory!Procs |-> IF p = 1 THEN First ELSE Memory!NoSpace]
      /\ new = [p \in Memory!Procs |-> Memory!NoSpace]
      /\ proc = [p \in Memory!Procs |-> IF p = 1 THEN Second ELSE Memory!Idle]
      /\ data \in [Memory!Pages -> Contained]
  BY DEF Memory!Init, First, Second, Contained
<1>2. 1 \in Memory!Procs /\ 1 \in Memory!Pages /\ 1 # Memory!None
  BY MemoryAssumption DEF Memory!Procs, Memory!Pages, Memory!None
<1>3. PGSIZE \in Nat \ {0} /\ PGSIZE < KERNBASE /\ Memory!PGROUNDUP(PGSIZE) = 1 /\ KERNBASE \in Nat
  <2>1. (ImageSize + 2) * PGSIZE = ImageSize * PGSIZE + 2 * PGSIZE /\ ImageSize * PGSIZE \in Nat
    BY MemoryAssumption
  <2>2. Memory!PGROUNDUP(PGSIZE) \in Nat
    BY RoundUp, MemoryAssumption
  <2>3. 0 < Memory!PGROUNDUP(PGSIZE) <=> 0 * PGSIZE < PGSIZE
    BY RoundUp, MemoryAssumption
  <2>4. 1 < Memory!PGROUNDUP(PGSIZE) <=> 1 * PGSIZE < PGSIZE
    BY RoundUp, MemoryAssumption
  <2>q. QED
    BY <2>1, <2>2, <2>3, <2>4, MemoryAssumption
<1>4. /\ Second \in ProcT
      /\ Second.state = "running" /\ Second.kstack = 1 /\ Second.sz = PGSIZE /\ Second.pc = "user"
      /\ Second.call = "none"
      /\ Second.at = 0 /\ Second.to = 0 /\ Second.mem = Memory!None /\ Second.child = 0
  <2>1. Memory!Idle \in ProcT /\ Memory!Idle.pc = "user" /\ Memory!Idle.call = "none"
          /\ Memory!Idle.mem = Memory!None /\ Memory!Idle.child = 0
        /\ Memory!Idle.at = 0 /\ Memory!Idle.to = 0
    BY IdleIs DEF Memory!Idle
  <2>2. 1 \in PageOrNone /\ PGSIZE \in Nat
    BY <1>2, <1>3 DEF PageOrNone
  <2>3. Second \in ProcT
    BY <2>1, <2>2 DEF ProcT, States, Second
  <2>q. QED
    BY <2>1, <2>2, <2>3 DEF ProcT, Second
<1> HIDE DEF Second, First
<1>5. Local(Second, First, Memory!NoSpace)
  <2>1. Stage(Second, Memory!NoSpace)
    BY <1>3, <1>4, NoSpaceIs DEF Stage
  <2>2. Fit(Second, First, Memory!NoSpace)
    BY <1>3, <1>4, FirstIs, NoSpaceIs DEF Fit
  <2>3. Absent(Second, First)
    BY <1>2, <1>4 DEF Absent
  <2>q. QED
    BY <2>1, <2>2, <2>3, FirstIs, NoSpaceIs DEF Local
<1>6. Locals
  BY <1>1, <1>5, IdleIs DEF Locals
<1>7. Children
  BY <1>1, <1>4, IdleIs DEF Children
<1>8. MemTypes
  BY <1>1, <1>4, IdleIs, FirstIs, NoSpaceIs DEF MemTypes
<1>9. ASSUME NEW p \in Memory!Procs
      PROVE  /\ G[SpaceOf(p)] = IF p = 1 THEN 2..5 ELSE {}
             /\ G[NewOf(p)] = {} /\ G[MemOf(p)] = {}
             /\ G[StackOf(p)] = IF p = 1 THEN {1} ELSE {}
  BY <1>1, <1>2, <1>4, GIs, IdleIs, FirstIs, NoSpaceIs, ZenonT(60)
<1>10. \A h \in Memory!Holders : G[h] = IF h = SpaceOf(1) THEN 2..5 ELSE IF h = StackOf(1) THEN {1}
         ELSE {}
  <2> SUFFICES ASSUME NEW h \in Memory!Holders PROVE G[h] = IF h = SpaceOf(1) THEN 2..5
                      ELSE IF h = StackOf(1) THEN {1} ELSE {}
    OBVIOUS
  <2>1. PICK p \in Memory!Procs : h = SpaceOf(p) \/ h = NewOf(p) \/ h = MemOf(p) \/ h = StackOf(p)
    BY HoldersAre
  <2>2. /\ SpaceOf(p) = SpaceOf(1) <=> p = 1
        /\ StackOf(p) = StackOf(1) <=> p = 1
        /\ SpaceOf(p) # StackOf(1) /\ StackOf(p) # SpaceOf(1) /\ NewOf(p) # SpaceOf(1)
        /\ NewOf(p) # StackOf(1)
        /\ MemOf(p) # SpaceOf(1) /\ MemOf(p) # StackOf(1)
    BY <1>2, HoldersAre
  <2>q. QED
    BY <1>9, <2>1, <2>2
<1>11. Sound(free, G)
  BY <1>1, <1>10 DEF Sound
<1>q. QED
  BY <1>1, <1>6, <1>7, <1>8, <1>11 DEF MemInv
-----------------------------------------------------------------------------
(* Seen from the programs *)

Image(v) == IF v < ImageSize THEN Memory!Text ELSE Memory!Zero

\* The pages that a call has made so far hold what they should.
Copies(x, s, n, d) ==
  /\ \A v \in Memory!VPages : v < x.at => (n.pte[v].user <=> s.pte[v].user)
       /\ d[n.pte[v].pa] = d[s.pte[v].pa]
  /\ x.pc = "map" => d[x.mem] = d[s.pte[x.at].pa]
Loads(x, n, d) ==
  /\ \A v \in Memory!VPages : v < x.at => (n.pte[v].user <=> v # ImageSize) /\ d[n.pte[v].pa] = Image(v)
  /\ x.pc = "map" => d[x.mem] = Image(x.at)
Clears(x, s, d) ==
  /\ \A v \in Memory!VPages : Memory!PGROUNDUP(x.sz) <= v /\ v < x.at => s.pte[v].user
       /\ d[s.pte[v].pa] = Memory!Zero
  /\ x.pc = "map" => d[x.mem] = Memory!Zero
Made(x, s, n, d) ==
  /\ x.call = "fork" => Copies(x, s, n, d)
  /\ x.call = "exec" => Loads(x, n, d)
  /\ x.call = "sbrk" => Clears(x, s, d)
Contented == \A p \in Memory!Procs : Made(proc[p], space[p], new[p], data)

Seen(z, s) == {v \in Memory!VPages : s.pte[v].user /\ v * PGSIZE < z}
View(z, s, d) == [v \in Seen(z, s) |-> d[s.pte[v].pa]]

LEMMA MemIs ==
  /\ Memory!mem = [p \in Memory!Procs |-> View(proc[p].sz, space[p], data)]
  /\ Memory!mem' = [p \in Memory!Procs |-> View(proc'[p].sz, space'[p], data')]
  BY DEF Memory!mem, View, Seen, Memory!Visible

\* What is neither free before nor after a step stays.
Steady == \A pg \in Memory!Pages : pg \notin free /\ pg \notin free' => data'[pg] = data[pg]
Same(q) ==
  /\ proc'[q].call = proc[q].call /\ proc'[q].at = proc[q].at /\ proc'[q].pc = proc[q].pc
  /\ proc'[q].mem = proc[q].mem /\ proc'[q].sz = proc[q].sz
  /\ space'[q] = space[q] /\ new'[q] = new[q]

LEMMA FillSteady == ASSUME Memory!Fill PROVE Steady
  BY DEF Memory!Fill, Steady

LEMMA SoundMeans ==
  ASSUME NEW f, NEW g, Sound(f, g), NEW h \in Memory!Holders, NEW pg \in g[h]
  PROVE  pg \notin f
  BY DEF Sound

LEMMA NextIs ==
  ASSUME NEW p \in Memory!Procs
  PROVE  /\ G'[SpaceOf(p)] = Memory!OwnPages(space'[p]) /\ G'[NewOf(p)] = Memory!OwnPages(new'[p])
         /\ G'[MemOf(p)] = {proc'[p].mem} \ {Memory!None}
<1>1. /\ Memory!Held(SpaceOf(p))' = Memory!OwnPages(space'[p])
      /\ Memory!Held(NewOf(p))' = Memory!OwnPages(new'[p])
      /\ Memory!Held(MemOf(p))' = {proc'[p].mem} \ {Memory!None}
  BY DEF Memory!Held, SpaceOf, NewOf, MemOf, Memory!OwnPages
<1>2. G' = [h \in Memory!Holders |-> Memory!Held(h)']
  BY DEF G
<1>q. QED
  BY <1>1, <1>2, HoldersAre

\* What a process has before and after a step.
Calm(q) ==
  /\ \A v \in Memory!VPages : Memory!Present(space[q], v) /\ space'[q].pte[v] = space[q].pte[v]
       => data'[space[q].pte[v].pa] = data[space[q].pte[v].pa]
  /\ \A v \in Memory!VPages : Memory!Present(new[q], v) /\ new'[q].pte[v] = new[q].pte[v]
       => data'[new[q].pte[v].pa] = data[new[q].pte[v].pa]
  /\ proc[q].mem # Memory!None /\ proc'[q].mem = proc[q].mem => data'[proc[q].mem] = data[proc[q].mem]

LEMMA Stays ==
  ASSUME MemInv, MemInv', Steady, NEW q \in Memory!Procs
  PROVE  Calm(q)
<1>0. Sound(free, G) /\ Sound(free', G')
  BY DEF MemInv
<1>1. space[q] \in Spaces /\ new[q] \in Spaces /\ proc[q].mem \in PageOrNone
  BY PartsAre, ProcParts
<1>2. space'[q] \in Spaces /\ new'[q] \in Spaces
  BY DEF MemInv, MemTypes
<1>3. ASSUME NEW h \in Memory!Holders, NEW pg \in Memory!Pages, pg \in G[h], pg \in G'[h]
             PROVE data'[pg] = data[pg]
  BY <1>0, <1>3, SoundMeans DEF Steady
<1>4. {SpaceOf(q), NewOf(q), MemOf(q)} \subseteq Memory!Holders
  BY HoldersAre
<1>5. ASSUME NEW v \in Memory!VPages, Memory!Present(space[q], v), space'[q].pte[v] = space[q].pte[v]
      PROVE data'[space[q].pte[v].pa] = data[space[q].pte[v].pa]
  <2>1. space[q].pte[v].pa \in Memory!OwnPages(space[q]) /\ space[q].pte[v].pa \in Memory!Pages
    BY <1>1, <1>5, OwnIs
  <2>2. space[q].pte[v].pa \in Memory!OwnPages(space'[q])
    BY <1>2, <1>5, OwnIs DEF Memory!Present
  <2>q. QED
    BY <1>3, <1>4, <2>1, <2>2, GIs, NextIs
<1>6. ASSUME NEW v \in Memory!VPages, Memory!Present(new[q], v), new'[q].pte[v] = new[q].pte[v]
      PROVE data'[new[q].pte[v].pa] = data[new[q].pte[v].pa]
  <2>1. new[q].pte[v].pa \in Memory!OwnPages(new[q]) /\ new[q].pte[v].pa \in Memory!Pages
    BY <1>1, <1>6, OwnIs
  <2>2. new[q].pte[v].pa \in Memory!OwnPages(new'[q])
    BY <1>2, <1>6, OwnIs DEF Memory!Present
  <2>q. QED
    BY <1>3, <1>4, <2>1, <2>2, GIs, NextIs
<1>7. ASSUME proc[q].mem # Memory!None, proc'[q].mem = proc[q].mem
             PROVE data'[proc[q].mem] = data[proc[q].mem]
  <2>1. proc[q].mem \in Memory!Pages
    BY <1>1, <1>7 DEF PageOrNone
  <2>q. QED
    BY <1>3, <1>4, <1>7, <2>1, GIs, NextIs
<1>q. QED
  BY <1>5, <1>6, <1>7 DEF Calm

\* The pages that a call has made, and those that it copies, are there.
LEMMA MadeAreThere ==
  ASSUME MemInv, NEW q \in Memory!Procs
  PROVE  /\ proc[q].call = "fork" => \A v \in Memory!VPages : v < proc[q].at
              \/ (v = proc[q].at /\ proc[q].pc = "map") => Memory!Present(space[q], v)
         /\ proc[q].call \in {"fork", "exec"} => \A v \in Memory!VPages : v < proc[q].at
              => Memory!Present(new[q], v)
         /\ proc[q].call = "sbrk" => \A v \in Memory!VPages : v < proc[q].at
              => Memory!Present(space[q], v)
         /\ proc[q].pc = "map" => proc[q].mem # Memory!None /\ proc[q].at \in Memory!VPages
<1>1. /\ proc[q] \in ProcT /\ Stage(proc[q], new[q]) /\ Fit(proc[q], space[q], new[q])
  BY PartsAre
<1>2. proc[q].at \in Nat /\ proc[q].to \in Nat /\ Memory!PGROUNDUP(proc[q].to) \in Nat
        /\ \A v \in Memory!VPages : v \in Nat
  BY <1>1, ProcParts, RoundUp DEF Memory!VPages
<1>3. ASSUME proc[q].call = "fork"
      PROVE \A v \in Memory!VPages : v < proc[q].at \/ (v = proc[q].at /\ proc[q].pc = "map")
              => Memory!Present(space[q], v)
  <2>1. proc[q].state = "running" /\ proc[q].to = proc[q].sz
    BY <1>1, <1>3 DEF Stage
  <2>2. UpTo(space[q], Memory!PGROUNDUP(proc[q].to))
    BY <1>1, <1>3, <2>1 DEF Fit
  <2>3. proc[q].at <= Memory!PGROUNDUP(proc[q].to)
          /\ (proc[q].pc = "map" => proc[q].at < Memory!PGROUNDUP(proc[q].to))
    BY <1>1, <1>2, ProcParts DEF Stage, Pcs
  <2>q. QED
    BY <1>2, <2>2, <2>3 DEF UpTo
<1>4. proc[q].call \in {"fork", "exec"} => \A v \in Memory!VPages : v < proc[q].at
        => Memory!Present(new[q], v)
  BY <1>1 DEF Fit, UpTo
<1>5. proc[q].call = "sbrk" => \A v \in Memory!VPages : v < proc[q].at => Memory!Present(space[q], v)
  BY <1>1 DEF Fit, UpTo
<1>6. proc[q].pc = "map" => proc[q].mem # Memory!None /\ proc[q].at \in Memory!VPages
  BY <1>1, InLoop DEF Stage
<1>q. QED
  BY <1>3, <1>4, <1>5, <1>6

LEMMA MadeStays ==
  ASSUME MemInv, NEW q \in Memory!Procs, Calm(q), Same(q), Made(proc[q], space[q], new[q], data)
  PROVE  Made(proc'[q], space'[q], new'[q], data')
<1>1. /\ proc'[q].call = proc[q].call /\ proc'[q].at = proc[q].at /\ proc'[q].pc = proc[q].pc
      /\ proc'[q].mem = proc[q].mem /\ proc'[q].sz = proc[q].sz
      /\ space'[q] = space[q] /\ new'[q] = new[q]
  BY DEF Same
<1>2. /\ \A v \in Memory!VPages : Memory!Present(space[q], v)
           => data'[space[q].pte[v].pa] = data[space[q].pte[v].pa]
      /\ \A v \in Memory!VPages : Memory!Present(new[q], v)
           => data'[new[q].pte[v].pa] = data[new[q].pte[v].pa]
      /\ proc[q].mem # Memory!None => data'[proc[q].mem] = data[proc[q].mem]
  BY <1>1 DEF Calm
<1>3. ASSUME proc[q].call = "fork" PROVE Copies(proc'[q], space'[q], new'[q], data')
  <2>1. Copies(proc[q], space[q], new[q], data)
    BY <1>3 DEF Made
  <2>q. QED
    BY <1>1, <1>2, <1>3, <2>1, MadeAreThere DEF Copies
<1>4. ASSUME proc[q].call = "exec" PROVE Loads(proc'[q], new'[q], data')
  <2>1. Loads(proc[q], new[q], data)
    BY <1>4 DEF Made
  <2>q. QED
    BY <1>1, <1>2, <1>4, <2>1, MadeAreThere DEF Loads
<1>5. ASSUME proc[q].call = "sbrk" PROVE Clears(proc'[q], space'[q], data')
  <2>1. Clears(proc[q], space[q], data)
    BY <1>5 DEF Made
  <2>q. QED
    BY <1>1, <1>2, <1>5, <2>1, MadeAreThere DEF Clears
<1>q. QED
  BY <1>1, <1>3, <1>4, <1>5 DEF Made

\* Two images that look the same.
LEMMA ViewIs ==
  ASSUME NEW z, NEW s, NEW d, NEW zz, NEW ss, NEW dd,
         \A v \in Memory!VPages : /\ v \in Seen(zz, ss) <=> v \in Seen(z, s)
                                  /\ v \in Seen(z, s) => dd[ss.pte[v].pa] = d[s.pte[v].pa]
  PROVE  View(zz, ss, dd) = View(z, s, d)
<1>1. Seen(zz, ss) = Seen(z, s) /\ Seen(z, s) \subseteq Memory!VPages
  BY DEF Seen
<1>q. QED
  BY <1>1 DEF View

LEMMA ViewStays ==
  ASSUME MemInv, NEW q \in Memory!Procs, Calm(q), proc'[q].sz = proc[q].sz,
         \A v \in Memory!VPages : v * PGSIZE < proc[q].sz => space'[q].pte[v] = space[q].pte[v]
  PROVE  View(proc'[q].sz, space'[q], data') = View(proc[q].sz, space[q], data)
<1>1. OnlyPresent(space[q])
  BY PartsAre DEF Fit
<1>2. \A v \in Memory!VPages : Memory!Present(space[q], v) /\ space'[q].pte[v] = space[q].pte[v]
              => data'[space[q].pte[v].pa] = data[space[q].pte[v].pa]
  BY DEF Calm
<1>3. ASSUME NEW v \in Memory!VPages
      PROVE  /\ v \in Seen(proc'[q].sz, space'[q]) <=> v \in Seen(proc[q].sz, space[q])
             /\ v \in Seen(proc[q].sz, space[q])
                  => data'[space'[q].pte[v].pa] = data[space[q].pte[v].pa]
  BY <1>1, <1>2 DEF Seen, OnlyPresent
<1>q. QED
  BY <1>3, ViewIs

\* All others.
LEMMA Others ==
  ASSUME MemInv, MemInv', Contented, Steady, NEW S,
         \A q \in Memory!Procs : q \notin S => Same(q),
         \A q \in Memory!Procs : q \in S => Made(proc'[q], space'[q], new'[q], data')
  PROVE  /\ Contented'
         /\ \A q \in Memory!Procs : q \notin S
              => View(proc'[q].sz, space'[q], data') = View(proc[q].sz, space[q], data)
<1>1. ASSUME NEW q \in Memory!Procs, q \notin S
      PROVE  /\ Made(proc'[q], space'[q], new'[q], data')
             /\ View(proc'[q].sz, space'[q], data') = View(proc[q].sz, space[q], data)
  <2>1. Same(q) /\ Made(proc[q], space[q], new[q], data)
    BY <1>1 DEF Contented
  <2>2. proc'[q].sz = proc[q].sz /\ space'[q] = space[q]
    BY <2>1 DEF Same
  <2>q. QED
    BY <2>1, <2>2, Stays, MadeStays, ViewStays
<1>2. \A q \in Memory!Procs : Made(proc'[q], space'[q], new'[q], data')
  BY <1>1
<1>q. QED
  BY <1>1, <1>2 DEF Contented

LEMMA MemSame ==
  ASSUME \A q \in Memory!Procs : View(proc'[q].sz, space'[q], data') = View(proc[q].sz, space[q], data)
  PROVE  Memory!mem' = Memory!mem
  BY MemIs

LEMMA MemChanges ==
  ASSUME NEW p \in Memory!Procs,
         \A q \in Memory!Procs : q # p => View(proc'[q].sz, space'[q], data') = View(proc[q].sz,
                 space[q], data)
  PROVE  Memory!mem' = [Memory!mem EXCEPT ![p] = View(proc'[p].sz, space'[p], data')]
  BY MemIs

Hidden == Contented' /\ Memory!mem' = Memory!mem

Rest(p, c) == \A q \in Memory!Procs : q # p /\ q # c => Same(q)
Kept(q) ==
  /\ proc'[q].call = "none" \/ Made(proc'[q], space'[q], new'[q], data')
  /\ \/ /\ proc'[q].sz = proc[q].sz
        /\ \A v \in Memory!VPages : v * PGSIZE < proc[q].sz => space'[q].pte[v] = space[q].pte[v]
     \/ space[q] = Memory!NoSpace /\ space'[q] = Memory!NoSpace

\* The processes a step leaves alone keep what they see.
LEMMA OthersBut ==
  ASSUME MemInv, MemInv', Contented, Steady, NEW p, Rest(p, p),
         p \in Memory!Procs => Made(proc'[p], space'[p], new'[p], data')
  PROVE  /\ Contented'
         /\ \A q \in Memory!Procs : q # p
              => View(proc'[q].sz, space'[q], data') = View(proc[q].sz, space[q], data)
<1> DEFINE S == {p}
<1>1. \A q \in Memory!Procs : q \in S => Made(proc'[q], space'[q], new'[q], data')
  OBVIOUS
<1>2. \A q \in Memory!Procs : q \notin S => Same(q)
  BY DEF Rest
<1>3. \A q : q \in S <=> q = p
  OBVIOUS
<1> HIDE DEF S
<1>4. /\ Contented'
      /\ \A q \in Memory!Procs : q \notin S
           => View(proc'[q].sz, space'[q], data') = View(proc[q].sz, space[q], data)
  BY <1>1, <1>2, Others
<1>q. QED
  BY <1>3, <1>4

LEMMA HiddenIs ==
  ASSUME MemInv, MemInv', Contented, Steady, NEW p, NEW c, Rest(p, c),
         p \in Memory!Procs => Kept(p), c \in Memory!Procs => Kept(c)
  PROVE  Hidden
<1> DEFINE S == {p, c}
<1>1. \A q \in Memory!Procs : q \in S => Made(proc'[q], space'[q], new'[q], data')
  BY DEF Made, Kept
<1>0. \A q \in Memory!Procs : q \notin S => Same(q)
  BY DEF Rest
<1> HIDE DEF S
<1>2. /\ Contented'
      /\ \A q \in Memory!Procs : q \notin S
           => View(proc'[q].sz, space'[q], data') = View(proc[q].sz, space[q], data)
  BY <1>0, <1>1, Others
<1>3. ASSUME NEW q \in Memory!Procs, q \in S
             PROVE View(proc'[q].sz, space'[q], data') = View(proc[q].sz, space[q], data)
  <2>1. CASE /\ proc'[q].sz = proc[q].sz
             /\ \A v \in Memory!VPages : v * PGSIZE < proc[q].sz => space'[q].pte[v] = space[q].pte[v]
    BY <2>1, Stays, ViewStays
  <2>2. CASE space[q] = Memory!NoSpace /\ space'[q] = Memory!NoSpace
    <3>1. \A v \in Memory!VPages : v \notin Seen(proc'[q].sz, space'[q])
            /\ v \notin Seen(proc[q].sz, space[q])
      BY <2>2 DEF Seen, Memory!NoSpace, Memory!NoPte
    <3>q. QED
      BY <2>2, <3>1, ViewIs
  <2>q. QED
    BY <1>3, <2>1, <2>2 DEF Kept, S
<1>q. QED
  BY <1>2, <1>3, MemSame DEF Hidden

LEMMA StepTypes ==
  ASSUME MemInv
  PROVE  proc \in [Memory!Procs -> ProcT] /\ space \in [Memory!Procs -> Spaces]
           /\ new \in [Memory!Procs -> Spaces] /\ data \in [Memory!Pages -> Contained]
  BY DEF MemInv, MemTypes

LEMMA ForkHidden == ASSUME MemInv, MemInv', Contented, NEW p \in Memory!Procs, Memory!Fork(p)
  PROVE Hidden
<1>1. PICK c \in Memory!Procs : proc[c].state = "unused" /\ Forks(p, c)
  BY DEF Memory!Fork, Forks
<1>2. /\ proc[p].at = 0 /\ p # c /\ proc[c].call = "none"
  BY <1>1, InUserIs, RestIs DEF Forks
<1>3. /\ proc' = [proc EXCEPT ![p].pc = "kstack", ![p].call = "fork", ![p].to = proc[p].sz,
                              ![p].child = c, ![c].state = "embryo"]
      /\ UNCHANGED <<free, data, space, new>>
  BY <1>1 DEF Forks
<1>4. /\ proc'[p] = [proc[p] EXCEPT !.pc = "kstack", !.call = "fork", !.to = proc[p].sz, !.child = c]
      /\ proc'[c] = [proc[c] EXCEPT !.state = "embryo"]
      /\ \A q \in Memory!Procs : q # p /\ q # c => proc'[q] = proc[q]
  BY <1>2, <1>3, StepTypes
<1>5. /\ proc'[p].at = 0 /\ proc'[p].pc = "kstack" /\ proc'[p].call = "fork" /\ proc'[p].sz = proc[p].sz
      /\ proc'[c].call = "none" /\ proc'[c].sz = proc[c].sz
  BY <1>2, <1>4, PartsAre DEF ProcT
<1>6. Made(proc'[p], space'[p], new'[p], data')
  BY <1>5, SMTT(30) DEF Made, Copies, Memory!VPages
<1>7. Steady /\ Rest(p, c)
  BY <1>3, <1>4 DEF Rest, Steady, Same
<1>k. Kept(p) /\ (c \in Memory!Procs => Kept(c))
  BY <1>3, <1>5, <1>6, <1>7 DEF Kept
<1>q. QED
  BY <1>3, <1>5, <1>6, <1>7, <1>k, HiddenIs

LEMMA KStackHidden == ASSUME MemInv, MemInv', Contented, NEW p \in Memory!Procs, Memory!KStack(p)
  PROVE Hidden
<1> DEFINE c == proc[p].child
<1>1. /\ proc[p].state = "running" /\ proc[p].pc = "kstack" /\ UNCHANGED <<data, space, new>>
  BY DEF Memory!KStack, Memory!At, Memory!Running
<1>2. proc[p].call = "fork" /\ proc[p].at = 0
  BY <1>1, PartsAre DEF Stage
<1>3. c \in Memory!Procs /\ c # p /\ proc[c].state = "embryo"
  BY <1>1, <1>2, ChildIs
<1>4. proc[c].call = "none" /\ space[c] = Memory!NoSpace
  BY <1>3, RestIs
<1> HIDE DEF c
<1>5. \/ proc' = [Memory!Go(p, "dir") EXCEPT ![c].kstack = Memory!Min(free)]
      \/ proc' = [Memory!Back(p) EXCEPT ![c] = Memory!Idle]
  BY DEF Memory!KStack, Memory!Kalloc, c
<1>6. /\ \/ proc'[p] = [proc[p] EXCEPT !.pc = "dir"]
         \/ proc'[p] = [proc[p] EXCEPT !.pc = "user", !.call = "none", !.at = 0, !.to = 0,
                 !.mem = Memory!None, !.child = 0]
      /\ proc'[c] = Memory!Idle \/ proc'[c] = [proc[c] EXCEPT !.kstack = Memory!Min(free)]
      /\ \A q \in Memory!Procs : q # p /\ q # c => proc'[q] = proc[q]
  BY <1>3, <1>5, StepTypes DEF Memory!Go, Memory!Back
<1>7. /\ proc'[p].at = 0 /\ proc'[p].sz = proc[p].sz
      /\ (proc'[p].pc = "dir" /\ proc'[p].call = "fork") \/ proc'[p].call = "none"
      /\ proc'[c].call = "none"
  <2>1. proc[p] \in ProcT /\ proc[c] \in ProcT
    BY <1>3, PartsAre
  <2>2. proc'[c].call = "none"
    BY <1>4, <1>6, <2>1, IdleIs DEF ProcT
  <2>q. QED
    BY <1>2, <1>6, <2>1, <2>2 DEF ProcT
<1>8. Made(proc'[p], space'[p], new'[p], data')
  BY <1>7 DEF Made, Copies, Memory!VPages
<1>9. Steady /\ Rest(p, c)
  BY <1>1, <1>6 DEF Rest, Steady, Same
<1>k. Kept(p) /\ (c \in Memory!Procs => Kept(c))
  BY <1>1, <1>4, <1>7, <1>8, <1>9 DEF Kept
<1>q. QED
  BY <1>1, <1>4, <1>7, <1>8, <1>9, <1>k, HiddenIs

LEMMA ExecHidden == ASSUME MemInv, MemInv', Contented, NEW p \in Memory!Procs, Memory!Exec(p)
  PROVE Hidden
<1>1. /\ proc[p].at = 0 /\ UNCHANGED <<data, space, new>>
      /\ proc' = [proc EXCEPT ![p].pc = "dir", ![p].call = "exec", ![p].to = (ImageSize + 2) * PGSIZE]
  BY InUserIs DEF Memory!Exec
<1>2. /\ proc'[p] = [proc[p] EXCEPT !.pc = "dir", !.call = "exec", !.to = (ImageSize + 2) * PGSIZE]
      /\ \A q \in Memory!Procs : q # p => proc'[q] = proc[q]
  BY <1>1, StepTypes
<1>3. /\ proc'[p].at = 0 /\ proc'[p].sz = proc[p].sz /\ proc'[p].pc = "dir" /\ proc'[p].call = "exec"
  <2>1. PICK m : proc'[p] = [proc[p] EXCEPT !.pc = "dir", !.call = "exec", !.to = m]
    BY <1>2
  <2>2. proc[p] \in ProcT
    BY PartsAre
  <2>3. proc[p].at = 0
    BY <1>1
  <2>q. QED
    BY <2>1, <2>2, <2>3 DEF ProcT
<1>4. Made(proc'[p], space'[p], new'[p], data')
  BY <1>3 DEF Made, Loads, Memory!VPages
<1>5. Steady /\ Rest(p, p)
  BY <1>1, <1>2 DEF Rest, Steady, Same
<1>k. Kept(p)
  BY <1>1, <1>3, <1>4, <1>5 DEF Kept
<1>q. QED
  BY <1>1, <1>3, <1>4, <1>5, <1>k, HiddenIs

LEMMA UndoHidden ==
  ASSUME MemInv, MemInv', Contented, NEW p \in Memory!Procs, NEW F, proc[p].state = "running",
         proc[p].call \in {"exec", "fork"},
         Memory!Undo(p, F), Memory!Fill, UNCHANGED space
  PROVE  Hidden
<1> DEFINE c == proc[p].child
<1>1. c # 0 => c \in Memory!Procs /\ c # p /\ space[c] = Memory!NoSpace
  <2> SUFFICES ASSUME c # 0 PROVE c \in Memory!Procs /\ c # p /\ space[c] = Memory!NoSpace
    OBVIOUS
  <2>1. proc[p].call = "fork"
    BY PartsAre DEF Stage
  <2>2. c \in Memory!Procs /\ c # p /\ proc[c].state = "embryo"
    BY <2>1, ChildIs
  <2>q. QED
    BY <2>2, RestIs
<1>2. proc' = [q \in Memory!Procs |-> IF q = c THEN Memory!Idle ELSE Memory!Back(p)[q]]
        /\ new' = [new EXCEPT ![p] = Memory!NoSpace]
  BY DEF Memory!Undo
<1>0. c # p
  BY <1>1 DEF Memory!Procs
<1> HIDE DEF c
<1>3. /\ proc'[p] = [proc[p] EXCEPT !.pc = "user", !.call = "none", !.at = 0, !.to = 0,
            !.mem = Memory!None, !.child = 0]
      /\ \A q \in Memory!Procs : q # p /\ q # c => proc'[q] = proc[q] /\ new'[q] = new[q]
      /\ c \in Memory!Procs => proc'[c] = Memory!Idle
  BY <1>0, <1>2, StepTypes DEF Memory!Back
<1>4. proc'[p].call = "none" /\ proc'[p].sz = proc[p].sz
        /\ (c \in Memory!Procs => proc'[c].call = "none")
  BY <1>3, PartsAre, IdleIs DEF ProcT
<1>5. Steady /\ Rest(p, c)
  BY <1>3, FillSteady DEF Rest, Same
<1>6. c \in Memory!Procs => space[c] = Memory!NoSpace
  BY <1>1 DEF Memory!Procs
<1>k. Kept(p) /\ (c \in Memory!Procs => Kept(c))
  BY <1>4, <1>5, <1>6 DEF Kept
<1>q. QED
  BY <1>4, <1>5, <1>6, <1>k, HiddenIs

LEMMA DirHidden == ASSUME MemInv, MemInv', Contented, NEW p \in Memory!Procs, Memory!Dir(p)
  \/ Memory!Kern(p) PROVE Hidden
<1>1. /\ proc[p].state = "running" /\ proc[p].pc \in {"dir", "kern"} /\ Memory!Fill /\ UNCHANGED space
  BY DEF Memory!Dir, Memory!Kern, Memory!At, Memory!Running
<1>2. proc[p].call \in {"exec", "fork"} /\ proc[p].at = 0
  BY <1>1, PartsAre DEF Stage
<1>3. CASE Memory!Undo(p, {})
  BY <1>1, <1>2, <1>3, UndoHidden
<1>4. CASE ~Memory!Undo(p, {})
  <2>1. \E pc, n : pc \in {"kern", "page"} /\ proc' = Memory!Go(p, pc) /\ new' = [new EXCEPT ![p] = n]
    <3>1. CASE Memory!Dir(p)
      <4>1. proc' = Memory!Go(p, "kern") /\ new' = [new EXCEPT ![p].dir = Memory!Min(free)]
        BY <1>4, <3>1 DEF Memory!Dir, Memory!Kalloc
      <4>q. QED
        BY <4>1
    <3>2. CASE Memory!Kern(p)
      <4>1. proc' = Memory!Go(p, "page") /\ new' = [new EXCEPT ![p].kern = Memory!Min(free)]
        BY <1>4, <3>2 DEF Memory!Kern, Memory!Kalloc
      <4>q. QED
        BY <4>1
    <3>q. QED
      BY <3>1, <3>2
  <2>2. PICK pc, n : pc \in {"kern", "page"} /\ proc' = Memory!Go(p, pc) /\ new' = [new EXCEPT ![p] = n]
    BY <2>1
  <2>3. /\ proc'[p] = [proc[p] EXCEPT !.pc = pc]
        /\ \A q \in Memory!Procs : q # p => proc'[q] = proc[q] /\ new'[q] = new[q]
    BY <2>2, StepTypes DEF Memory!Go
  <2>4. proc'[p].at = 0 /\ proc'[p].sz = proc[p].sz /\ proc'[p].pc = pc /\ proc'[p].call = proc[p].call
    BY <1>2, <2>3, PartsAre DEF ProcT
  <2>5. Made(proc'[p], space'[p], new'[p], data')
    BY <1>2, <2>2, <2>4 DEF Made, Loads, Copies, Memory!VPages
  <2>6. Steady /\ Rest(p, p)
    BY <1>1, <2>3, FillSteady DEF Rest, Same
  <2>k. Kept(p)
    BY <1>1, <2>4, <2>5, <2>6 DEF Kept
  <2>q. QED
    BY <1>1, <2>4, <2>5, <2>6, <2>k, HiddenIs
<1>q. QED
  BY <1>3, <1>4

LEMMA GrowHidden == ASSUME MemInv, MemInv', Contented, NEW p \in Memory!Procs, NEW k \in Amounts,
  Grows(p, k) PROVE Hidden
<1>1. /\ UNCHANGED <<space, new>> /\ Memory!Fill
      /\ proc' = [proc EXCEPT ![p].pc = "page", ![p].call = "sbrk",
            ![p].at = Memory!PGROUNDUP(proc[p].sz), ![p].to = proc[p].sz + k]
  BY DEF Grows
<1>2. /\ proc'[p] = [proc[p] EXCEPT !.pc = "page", !.call = "sbrk",
            !.at = Memory!PGROUNDUP(proc[p].sz), !.to = proc[p].sz + k]
      /\ \A q \in Memory!Procs : q # p => proc'[q] = proc[q]
  BY <1>1, StepTypes
<1>3. /\ proc'[p].at = Memory!PGROUNDUP(proc[p].sz) /\ proc'[p].sz = proc[p].sz /\ proc'[p].pc = "page"
      /\ proc'[p].call = "sbrk"
      /\ Memory!PGROUNDUP(proc[p].sz) \in Nat
  <2>1. PICK m : proc'[p] = [proc[p] EXCEPT !.pc = "page", !.call = "sbrk",
                     !.at = Memory!PGROUNDUP(proc[p].sz), !.to = m]
    BY <1>2
  <2>2. proc[p] \in ProcT
    BY PartsAre
  <2>3. Memory!PGROUNDUP(proc[p].sz) \in Nat
    BY <2>2, ProcParts, RoundUp
  <2>q. QED
    BY <2>1, <2>2, <2>3 DEF ProcT
<1>4. Made(proc'[p], space'[p], new'[p], data')
  BY <1>3 DEF Made, Clears, Memory!VPages
<1>5. Steady /\ Rest(p, p)
  BY <1>1, <1>2, FillSteady DEF Rest, Same
<1>k. Kept(p)
  BY <1>1, <1>3, <1>4, <1>5 DEF Kept
<1>q. QED
  BY <1>1, <1>3, <1>4, <1>5, <1>k, HiddenIs

\* deallocuvm to the old size takes nothing that the program sees.
LEMMA ShortHidden ==
  ASSUME MemInv, MemInv', Contented, NEW p \in Memory!Procs, Memory!Fill, UNCHANGED new,
         proc' = Memory!Back(p), proc[p].call = "sbrk",
         space' = [space EXCEPT ![p] = Memory!Dealloc(space[p], proc[p].to, proc[p].sz).space]
  PROVE  Hidden
<1>1. /\ proc'[p] = [proc[p] EXCEPT !.pc = "user", !.call = "none", !.at = 0, !.to = 0,
            !.mem = Memory!None, !.child = 0]
      /\ \A q \in Memory!Procs : q # p => proc'[q] = proc[q] /\ space'[q] = space[q]
      /\ space'[p] = Memory!Dealloc(space[p], proc[p].to, proc[p].sz).space
  BY StepTypes DEF Memory!Back
<1>2. proc'[p].call = "none" /\ proc'[p].sz = proc[p].sz
  BY <1>1, PartsAre DEF ProcT
<1>3. proc[p].to \in Nat /\ proc[p].sz \in Nat /\ space[p] \in Spaces /\ Inside(space[p])
  BY PartsAre, ProcParts
<1>4. ASSUME NEW v \in Memory!VPages, v * PGSIZE < proc[p].sz PROVE space'[p].pte[v] = space[p].pte[v]
  <2>1. ~(Memory!PGROUNDUP(proc[p].sz) <= v) /\ v \in Int
    BY <1>3, <1>4, RoundUp DEF Memory!VPages
  <2>q. QED
    BY <1>1, <1>3, <2>1, DeallocIs
<1>5. Steady /\ Rest(p, p)
  BY <1>1, FillSteady DEF Rest, Same
<1>k. Kept(p)
  BY <1>2, <1>4, <1>5 DEF Kept
<1>q. QED
  BY <1>2, <1>4, <1>5, <1>k, HiddenIs

LEMMA MapFailsHidden == ASSUME MemInv, MemInv', Contented, NEW p \in Memory!Procs, Memory!MapFails(p)
  PROVE Hidden
<1>1. CASE proc[p].call = "sbrk"
  BY <1>1, ShortHidden DEF Memory!MapFails
<1>2. CASE proc[p].call # "sbrk"
  <2>1. proc[p].state = "running" /\ proc[p].call \in {"exec", "fork"}
    BY <1>2, PartsAre, ProcParts DEF Memory!MapFails, Memory!At, Memory!Running, Stage, Calls
  <2>q. QED
    BY <1>2, <2>1, UndoHidden DEF Memory!MapFails
<1>q. QED
  BY <1>1, <1>2

LEMMA ExitHidden == ASSUME MemInv, MemInv', Contented, NEW p \in Memory!Procs, Memory!Exit(p)
  PROVE Hidden
<1>1. /\ UNCHANGED <<free, data, space, new>>
      /\ proc' = [q \in Memory!Procs |->
            IF q = p THEN [proc[p] EXCEPT !.state = "zombie"]
            ELSE IF proc[q].parent = p THEN [proc[q] EXCEPT !.parent = 1] ELSE proc[q]]
  BY DEF Memory!Exit
<1>2. ASSUME NEW q \in Memory!Procs PROVE Same(q)
  <2>1. proc[q] \in ProcT
    BY PartsAre
  <2>2. \/ proc'[q] = [proc[q] EXCEPT !.state = "zombie"]
        \/ proc'[q] = [proc[q] EXCEPT !.parent = 1]
        \/ proc'[q] = proc[q]
    BY <1>1
  <2>q. QED
    BY <1>1, <2>1, <2>2 DEF Same, ProcT
<1>3. Steady /\ Rest(0, 0) /\ 0 \notin Memory!Procs
  BY <1>1, <1>2 DEF Steady, Rest, Memory!Procs
<1>q. QED
  BY <1>3, HiddenIs

LEMMA PageHidden == ASSUME MemInv, MemInv', Contented, NEW p \in Memory!Procs, Memory!Page(p)
  PROVE Hidden
<1>1. CASE free = {} /\ proc[p].call = "sbrk"
  <2>1. /\ space' = [space EXCEPT ![p] = Memory!Dealloc(space[p], proc[p].to, proc[p].sz).space]
        /\ proc' = Memory!Back(p) /\ Memory!Fill /\ UNCHANGED new
    BY <1>1, PageIs
  <2>q. QED
    BY <1>1, <2>1, ShortHidden
<1>2. CASE free = {} /\ proc[p].call # "sbrk"
  <2>1. proc[p].state = "running" /\ proc[p].call \in {"exec", "fork"}
    BY <1>2, PageIs, InLoop, PartsAre, ProcParts DEF Calls
  <2>q. QED
    BY <1>2, <2>1, PageIs, UndoHidden
<1>3. CASE free # {}
  <2> DEFINE pg == Memory!Min(free)
  <2>1. /\ proc[p].state = "running" /\ proc[p].pc = "page" /\ proc[p].at < Memory!PGROUNDUP(proc[p].to)
        /\ data' = [data EXCEPT ![pg] = Memory!Contents(p)]
        /\ proc' = [Memory!Go(p, "map") EXCEPT ![p].mem = pg] /\ UNCHANGED <<space, new>>
    BY <1>3, PageIs
  <2>2. pg \in free /\ pg \in Memory!Pages /\ pg # Memory!None
    <3>1. pg \in free
      BY <1>3, MinIs DEF MemInv, MemTypes
    <3>q. QED
      BY <3>1, FreshPage
  <2> HIDE DEF pg
  <2>3. /\ proc'[p] = [proc[p] EXCEPT !.pc = "map", !.mem = pg]
        /\ \A q \in Memory!Procs : q # p => proc'[q] = proc[q]
    BY <2>1, StepTypes DEF Memory!Go
  <2>4. /\ proc'[p].at = proc[p].at /\ proc'[p].sz = proc[p].sz /\ proc'[p].pc = "map"
        /\ proc'[p].call = proc[p].call
        /\ proc'[p].mem = pg
    BY <2>3, PartsAre DEF ProcT
  <2>5. data'[pg] = Memory!Contents(p) /\ \A g \in Memory!Pages : g # pg => data'[g] = data[g]
    BY <2>1, <2>2, StepTypes
  <2>6. Steady /\ Rest(p, p)
    BY <2>1, <2>2, <2>3, <2>5 DEF Steady, Rest, Same
  <2>7. Calm(p) /\ space'[p] = space[p] /\ new'[p] = new[p] /\ proc[p].at \in Memory!VPages
    BY <2>1, <2>6, Stays, InLoop
  <2>8. Made(proc[p], space[p], new[p], data)
    BY SMTT(30) DEF Contented
  <2>9. ASSUME proc[p].call = "fork" PROVE Copies(proc'[p], space'[p], new'[p], data')
    <3>1. Copies(proc[p], space[p], new[p], data)
      BY <2>8, <2>9 DEF Made
    <3>2. Memory!Present(space[p], proc[p].at) /\ Memory!Contents(p) = data[space[p].pte[proc[p].at].pa]
      BY <2>1, <2>9, InLoop, SMTT(30) DEF Memory!Contents
    <3>3. data'[pg] = data'[space[p].pte[proc[p].at].pa]
      BY <2>5, <2>7, <3>2 DEF Calm
    <3>4. \A v \in Memory!VPages : v < proc[p].at => Memory!Present(space[p], v)
            /\ Memory!Present(new[p], v)
      BY <2>9, MadeAreThere
    <3>q. QED
      BY <2>4, <2>7, <3>1, <3>3, <3>4 DEF Copies, Calm
  <2>10. ASSUME proc[p].call = "exec" PROVE Loads(proc'[p], new'[p], data')
    <3>1. Loads(proc[p], new[p], data)
      BY <2>8, <2>10 DEF Made
    <3>2. data'[pg] = Image(proc[p].at)
      BY <2>5, <2>10 DEF Memory!Contents, Image
    <3>4. \A v \in Memory!VPages : v < proc[p].at => Memory!Present(new[p], v)
      BY <2>10, MadeAreThere
    <3>q. QED
      BY <2>4, <2>7, <3>1, <3>2, <3>4 DEF Loads, Calm
  <2>11. ASSUME proc[p].call = "sbrk" PROVE Clears(proc'[p], space'[p], data')
    <3>1. Clears(proc[p], space[p], data)
      BY <2>8, <2>11 DEF Made
    <3>2. data'[pg] = Memory!Zero
      BY <2>5, <2>11 DEF Memory!Contents
    <3>4. \A v \in Memory!VPages : v < proc[p].at => Memory!Present(space[p], v)
      BY <2>11, MadeAreThere
    <3>q. QED
      BY <2>4, <2>7, <3>1, <3>2, <3>4 DEF Clears, Calm
  <2>12. Made(proc'[p], space'[p], new'[p], data')
    BY <2>4, <2>9, <2>10, <2>11 DEF Made
  <2>13. Kept(p)
    BY <2>4, <2>7, <2>12 DEF Kept
  <2>q. QED
    BY <2>6, <2>13, HiddenIs
<1>q. QED
  BY <1>1, <1>2, <1>3

LEMMA MapHidden == ASSUME MemInv, MemInv', Contented, NEW p \in Memory!Procs, Memory!Map(p) PROVE Hidden
<1> DEFINE a == proc[p].at
<1>1. /\ proc[p].state = "running" /\ proc[p].pc = "map" /\ a < Memory!PGROUNDUP(proc[p].to)
      /\ proc' = Memory!Mapping(p) /\ UNCHANGED data
  BY MapIs
<1>2. PICK z \in Spaces : /\ \A y \in Memory!VPages : z.pte[y] = IF y = a THEN Entry(p)
                               ELSE Memory!Target(p).pte[y]
                          /\ Memory!Put(p, z)
  BY MapIs
<1>3. /\ proc'[p] = [proc[p] EXCEPT !.pc = "page", !.at = a + 1, !.mem = Memory!None]
      /\ \A q \in Memory!Procs : q # p => proc'[q] = proc[q]
  BY <1>1, StepTypes DEF Memory!Mapping, Memory!Go
<1>4. /\ proc'[p].at = a + 1 /\ proc'[p].sz = proc[p].sz /\ proc'[p].pc = "page"
      /\ proc'[p].call = proc[p].call
  BY <1>3, PartsAre DEF ProcT
<1>5. /\ IF proc[p].call = "sbrk" THEN space'[p] = z /\ new'[p] = new[p] ELSE new'[p] = z
           /\ space'[p] = space[p]
      /\ \A q \in Memory!Procs : q # p => space'[q] = space[q] /\ new'[q] = new[q]
  BY <1>2, StepTypes DEF Memory!Put
<1>6. Steady /\ Rest(p, p)
  BY <1>1, <1>3, <1>5 DEF Steady, Rest, Same
<1>7. a \in Memory!VPages /\ proc[p].sz \in Nat /\ proc[p].call # "none" /\ a \in Int
        /\ \A v \in Memory!VPages : v \in Int
  BY <1>1, InLoop, PartsAre, ProcParts DEF Memory!VPages
<1>8. \A v \in Memory!VPages : (v < a + 1 <=> v < a \/ v = a) /\ (v < a => v # a)
  BY <1>7
<1>9. Made(proc[p], space[p], new[p], data) /\ Entry(p).pa = proc[p].mem
  BY SMTT(30) DEF Contented, Entry
<1> HIDE DEF a
<1>10. ASSUME proc[p].call = "fork" PROVE Copies(proc'[p], space'[p], new'[p], data')
  <2>1. Copies(proc[p], space[p], new[p], data) /\ new'[p] = z /\ space'[p] = space[p]
    BY <1>5, <1>9, <1>10 DEF Made
  <2>2. /\ data[Entry(p).pa] = data[space[p].pte[a].pa] /\ (Entry(p).user <=> space[p].pte[a].user)
        /\ Memory!Target(p) = new[p]
    BY <1>1, <1>9, <1>10, <2>1 DEF Copies, Entry, Memory!Target, a
  <2>3. \A v \in Memory!VPages : v < a => (z.pte[v].user <=> space[p].pte[v].user)
          /\ data[z.pte[v].pa] = data[space[p].pte[v].pa]
    BY <1>2, <1>8, <2>1, <2>2 DEF Copies, a
  <2>4. z.pte[a] = Entry(p)
    BY <1>2, <1>7 DEF a
  <2>5. \A v \in Memory!VPages : v < a + 1 => (z.pte[v].user <=> space[p].pte[v].user)
          /\ data[z.pte[v].pa] = data[space[p].pte[v].pa]
    <3>1. /\ (z.pte[a].user <=> space[p].pte[a].user)
          /\ data[z.pte[a].pa] = data[space[p].pte[a].pa]
      BY <1>9, <2>2, <2>4
    <3>q. QED
      BY <1>8, <2>3, <3>1
  <2>q. QED
    BY <1>1, <1>4, <2>1, <2>5 DEF Copies
<1>11. ASSUME proc[p].call = "exec" PROVE Loads(proc'[p], new'[p], data')
  <2>1. Loads(proc[p], new[p], data) /\ new'[p] = z
    BY <1>5, <1>9, <1>11 DEF Made
  <2>2. /\ data[Entry(p).pa] = Image(a) /\ (Entry(p).user <=> a # ImageSize)
        /\ Memory!Target(p) = new[p]
    BY <1>1, <1>9, <1>11, <2>1 DEF Loads, Entry, Memory!Target, a
  <2>q. QED
    BY <1>1, <1>2, <1>4, <1>8, <2>1, <2>2 DEF Loads, a
<1>12. ASSUME proc[p].call = "sbrk" PROVE Clears(proc'[p], space'[p], data')
  <2>1. Clears(proc[p], space[p], data) /\ space'[p] = z
    BY <1>5, <1>9, <1>12 DEF Made
  <2>2. data[Entry(p).pa] = Memory!Zero /\ Entry(p).user /\ Memory!Target(p) = space[p]
    BY <1>1, <1>9, <1>12, <2>1 DEF Clears, Entry, Memory!Target, a
  <2>q. QED
    BY <1>1, <1>2, <1>4, <1>8, <2>1, <2>2 DEF Clears, a
<1>13. ASSUME NEW v \in Memory!VPages, v * PGSIZE < proc[p].sz PROVE space'[p].pte[v] = space[p].pte[v]
  <2>1. CASE proc[p].call = "sbrk"
    <3>1. Memory!PGROUNDUP(proc[p].sz) <= a /\ Memory!PGROUNDUP(proc[p].sz) \in Nat
      BY <1>7, <2>1, PartsAre, RoundUp DEF Fit, a
    <3>2. v < Memory!PGROUNDUP(proc[p].sz)
      BY <1>7, <1>13, RoundUp
    <3>3. v # a
      BY <1>7, <3>1, <3>2
    <3>q. QED
      BY <1>2, <1>5, <2>1, <3>3 DEF Memory!Target, a
  <2>q. QED
    BY <1>5, <2>1
<1>14. Kept(p)
  BY <1>4, <1>10, <1>11, <1>12, <1>13 DEF Kept, Made
<1>q. QED
  BY <1>6, <1>14, HiddenIs

Shows == Contented' /\ Memory!Private!Next

LEMMA ResizeShows ==
  ASSUME NEW p \in Memory!Procs,
         \A q \in Memory!Procs : q # p => View(proc'[q].sz, space'[q], data') = View(proc[q].sz,
                 space[q], data),
         \A v \in Seen(proc'[p].sz, space'[p]) :
           data'[space'[p].pte[v].pa] = IF v \in Seen(proc[p].sz, space[p])
             THEN data[space[p].pte[v].pa] ELSE Memory!Zero
  PROVE  Memory!Private!Next
<1> DEFINE pages == Seen(proc'[p].sz, space'[p])
           seen == Seen(proc[p].sz, space[p])
<1>1. Memory!mem' = [Memory!mem EXCEPT ![p] = View(proc'[p].sz, space'[p], data')]
  BY MemChanges
<1>2. Memory!mem[p] = [v \in seen |-> data[space[p].pte[v].pa]]
        /\ Memory!mem'[p] = [v \in pages |-> data'[space'[p].pte[v].pa]]
  BY MemIs DEF View
<1>3. DOMAIN Memory!mem[p] = seen /\ DOMAIN Memory!mem'[p] = pages
        /\ \A v \in seen : Memory!mem[p][v] = data[space[p].pte[v].pa]
  BY <1>2
<1> HIDE DEF pages, seen
<1>4. View(proc'[p].sz, space'[p], data') = [v \in pages |-> IF v \in DOMAIN Memory!mem[p]
              THEN Memory!mem[p][v] ELSE Memory!Zero]
  <2>1. \A v \in pages : data'[space'[p].pte[v].pa] = IF v \in DOMAIN Memory!mem[p]
          THEN Memory!mem[p][v] ELSE Memory!Zero
    BY <1>3 DEF pages, seen
  <2>q. QED
    BY <2>1 DEF View, pages
<1>5. Memory!Private!Resize(p, pages)
  BY <1>1, <1>4 DEF Memory!Private!Resize
<1>6. pages \in SUBSET UNION {DOMAIN Memory!mem[q] \cup DOMAIN Memory!mem'[q] : q \in Memory!Procs}
  BY <1>3
<1>q. QED
  BY <1>5, <1>6 DEF Memory!Private!Next

LEMMA ShrinkShows == ASSUME MemInv, MemInv', Contented, NEW p \in Memory!Procs, NEW k \in Amounts,
  Shrinks(p, k) PROVE Shows
<1> DEFINE sz == proc[p].sz
           z == IF sz + k = 0 THEN sz ELSE sz + k
<1>1. /\ Memory!InUser(p) /\ k < 0 /\ k \in Int /\ sz + k >= 0 /\ UNCHANGED new /\ Memory!Fill
      /\ space' = [space EXCEPT ![p] = Memory!Dealloc(space[p], sz, sz + k).space]
      /\ proc' = [proc EXCEPT ![p].sz = z]
  BY MemoryAssumption DEF Shrinks
<1>2. /\ proc'[p] = [proc[p] EXCEPT !.sz = z]
      /\ \A q \in Memory!Procs : q # p => proc'[q] = proc[q] /\ space'[q] = space[q]
      /\ space'[p] = Memory!Dealloc(space[p], sz, sz + k).space
  BY <1>1, StepTypes
<1>3. sz \in Nat /\ sz + k \in Nat /\ space[p] \in Spaces /\ Inside(space[p]) /\ OnlyPresent(space[p])
  BY <1>1, PartsAre, ProcParts DEF Fit
<1> HIDE DEF z
<1>4. proc'[p].call = "none" /\ proc'[p].sz = z
  <2>1. proc[p] \in ProcT /\ proc[p].call = "none"
    BY <1>1, PartsAre, InUserIs
  <2>q. QED
    BY <1>2, <2>1 DEF ProcT
<1>5. z <= sz /\ z \in Nat
  BY <1>1, <1>3 DEF z
<1> HIDE DEF sz
<1>6. Steady /\ Rest(p, p)
  BY <1>1, <1>2, FillSteady DEF Rest, Same
<1>7. /\ Contented'
      /\ \A q \in Memory!Procs : q # p => View(proc'[q].sz, space'[q], data') = View(proc[q].sz,
                 space[q], data)
  <2>1. p \in Memory!Procs => Made(proc'[p], space'[p], new'[p], data')
    BY <1>4 DEF Made
  <2>q. QED
    BY <1>6, <2>1, OthersBut
<1>8. ASSUME NEW v \in Seen(proc'[p].sz, space'[p])
      PROVE  v \in Seen(proc[p].sz, space[p]) /\ data'[space'[p].pte[v].pa] = data[space[p].pte[v].pa]
  <2>1. v \in Memory!VPages /\ space'[p].pte[v].user /\ v * PGSIZE < z /\ v * PGSIZE \in Int
    BY <1>4, MemoryAssumption DEF Seen, Memory!VPages
  <2>2. /\ space'[p].pte[v] = space[p].pte[v]
        /\ Memory!Present(space'[p], v)
    <3>1. OnlyPresent(space'[p])
      BY <1>2, <1>3, DeallocIs DEF sz
    <3>2. Memory!Present(space'[p], v)
      BY <2>1, <3>1 DEF OnlyPresent
    <3>3. ~(Memory!PGROUNDUP(sz + k) <= v /\ v < Memory!PGROUNDUP(sz))
      BY <1>2, <1>3, <2>1, <3>2, DeallocIs DEF sz
    <3>q. QED
      BY <1>2, <1>3, <2>1, <3>2, <3>3, DeallocIs DEF sz
  <2>3. Memory!Present(space[p], v)
    BY <2>2 DEF Memory!Present
  <2>4. data'[space[p].pte[v].pa] = data[space[p].pte[v].pa]
    BY <1>6, <2>1, <2>2, <2>3, Stays DEF Calm
  <2>q. QED
    BY <1>3, <1>5, <2>1, <2>2, <2>4 DEF Seen, sz
<1>q. QED
  BY <1>7, <1>8, ResizeShows DEF Shows

LEMMA SbrkDoneShows == ASSUME MemInv, MemInv', Contented, NEW p \in Memory!Procs, Memory!SbrkDone(p)
  PROVE Shows
<1>1. /\ proc[p].state = "running" /\ proc[p].pc = "page" /\ proc[p].call = "sbrk"
      /\ proc[p].at >= Memory!PGROUNDUP(proc[p].to)
      /\ proc' = [Memory!Back(p) EXCEPT ![p].sz = proc[p].to] /\ UNCHANGED <<free, data, space, new>>
  BY DEF Memory!SbrkDone, Memory!At, Memory!Running
<1>2. /\ proc'[p] = [proc[p] EXCEPT !.pc = "user", !.call = "none", !.at = 0, !.to = 0,
            !.mem = Memory!None, !.child = 0, !.sz = proc[p].to]
      /\ \A q \in Memory!Procs : q # p => proc'[q] = proc[q]
  BY <1>1, StepTypes DEF Memory!Back
<1>3. proc'[p].call = "none" /\ proc'[p].sz = proc[p].to
  BY <1>2, PartsAre DEF ProcT
<1>4. Steady /\ Rest(p, p)
  BY <1>1, <1>2 DEF Steady, Rest, Same
<1>5. /\ Contented'
      /\ \A q \in Memory!Procs : q # p => View(proc'[q].sz, space'[q], data') = View(proc[q].sz,
                 space[q], data)
  <2>1. p \in Memory!Procs => Made(proc'[p], space'[p], new'[p], data')
    BY <1>3 DEF Made
  <2>q. QED
    BY <1>4, <2>1, OthersBut
<1>6. /\ proc[p].at \in Nat /\ proc[p].to \in Nat /\ proc[p].sz \in Nat
      /\ Memory!PGROUNDUP(proc[p].to) \in Nat /\ Memory!PGROUNDUP(proc[p].sz) \in Nat
  BY PartsAre, ProcParts, RoundUp
<1>7. Clears(proc[p], space[p], data)
  BY <1>1 DEF Contented, Made
<1>8. ASSUME NEW v \in Seen(proc'[p].sz, space'[p])
      PROVE  data'[space'[p].pte[v].pa] = IF v \in Seen(proc[p].sz, space[p])
               THEN data[space[p].pte[v].pa] ELSE Memory!Zero
  <2>1. v \in Memory!VPages /\ space[p].pte[v].user /\ v * PGSIZE < proc[p].to /\ v \in Int
    BY <1>1, <1>3 DEF Seen, Memory!VPages
  <2>2. v < proc[p].at
    <3>1. v < Memory!PGROUNDUP(proc[p].to)
      BY <1>6, <2>1, RoundUp
    <3>q. QED
      BY <1>1, <1>6, <2>1, <3>1
  <2>3. ASSUME v \notin Seen(proc[p].sz, space[p]) PROVE data[space[p].pte[v].pa] = Memory!Zero
    <3>1. ~(v * PGSIZE < proc[p].sz)
      BY <2>1, <2>3 DEF Seen
    <3>2. Memory!PGROUNDUP(proc[p].sz) <= v
      BY <1>6, <2>1, <3>1, RoundUp
    <3>q. QED
      BY <1>7, <2>1, <2>2, <3>2 DEF Clears
  <2>q. QED
    BY <1>1, <2>3
<1>q. QED
  BY <1>5, <1>8, ResizeShows DEF Shows

LEMMA NothingIs ==
  ASSUME NEW z, NEW d
  PROVE  View(z, Memory!NoSpace, d) = Memory!Private!Nothing
<1>1. Seen(z, Memory!NoSpace) = {}
  BY DEF Seen, Memory!NoSpace, Memory!NoPte
<1>q. QED
  BY <1>1 DEF View, Memory!Private!Nothing

LEMMA ForkDoneShows == ASSUME MemInv, MemInv', Contented, NEW p \in Memory!Procs, Memory!ForkDone(p)
  PROVE Shows
<1> DEFINE c == proc[p].child
<1>1. /\ proc[p].state = "running" /\ proc[p].pc = "page" /\ proc[p].call = "fork"
      /\ proc[p].at = Memory!PGROUNDUP(proc[p].to)
      /\ proc' = [Memory!Back(p) EXCEPT ![c].state = "running", ![c].sz = proc[p].sz, ![c].parent = p]
      /\ space' = [space EXCEPT ![c] = new[p]] /\ new' = [new EXCEPT ![p] = Memory!NoSpace]
      /\ UNCHANGED <<free, data>>
  BY DEF Memory!ForkDone, Memory!Complete, Memory!At, Memory!Running
<1>2. c \in Memory!Procs /\ c # p /\ proc[c].call = "none" /\ space[c] = Memory!NoSpace
  <2>1. c \in Memory!Procs /\ c # p /\ proc[c].state = "embryo"
    BY <1>1, ChildIs, SMTT(30)
  <2>q. QED
    BY <2>1, RestIs
<1> HIDE DEF c
<1>3. /\ proc'[p] = [proc[p] EXCEPT !.pc = "user", !.call = "none", !.at = 0, !.to = 0,
            !.mem = Memory!None, !.child = 0]
      /\ proc'[c] = [proc[c] EXCEPT !.state = "running", !.sz = proc[p].sz, !.parent = p]
      /\ \A q \in Memory!Procs : q # p /\ q # c => proc'[q] = proc[q]
      /\ \A q \in Memory!Procs : q # c => space'[q] = space[q]
      /\ \A q \in Memory!Procs : q # p => new'[q] = new[q]
      /\ space'[c] = new[p]
  BY <1>1, <1>2, StepTypes DEF Memory!Back
<1>4. /\ proc'[p].call = "none" /\ proc'[p].sz = proc[p].sz
      /\ proc'[c].call = "none" /\ proc'[c].sz = proc[p].sz
  BY <1>2, <1>3, PartsAre DEF ProcT
<1>5. Steady /\ Rest(p, c)
  BY <1>1, <1>3 DEF Steady, Rest, Same
<1>6. /\ Contented'
      /\ \A q \in Memory!Procs : q \notin {p, c}
           => View(proc'[q].sz, space'[q], data') = View(proc[q].sz, space[q], data)
  <2>1. \A q \in Memory!Procs : q \notin {p, c} => Same(q)
    BY <1>5 DEF Rest
  <2>2. \A q \in Memory!Procs : q \in {p, c} => Made(proc'[q], space'[q], new'[q], data')
    BY <1>4 DEF Made
  <2>q. QED
    BY <1>5, <2>1, <2>2, Others
<1>7. View(proc'[p].sz, space'[p], data') = View(proc[p].sz, space[p], data)
  BY <1>1, <1>2, <1>3, <1>4
<1>8. Memory!mem' = [Memory!mem EXCEPT ![c] = View(proc'[c].sz, space'[c], data')]
  BY <1>2, <1>6, <1>7, MemChanges
<1>9. Memory!mem[c] = Memory!Private!Nothing
  BY <1>2, MemIs, NothingIs
<1>10. View(proc'[c].sz, space'[c], data') = Memory!mem[p]
  <2>1. Copies(proc[p], space[p], new[p], data) /\ proc[p].to = proc[p].sz /\ proc[p].sz \in Nat
    BY <1>1, PartsAre, ProcParts DEF Contented, Made, Stage
  <2>2. ASSUME NEW v \in Memory!VPages
        PROVE  /\ v \in Seen(proc[p].sz, new[p]) <=> v \in Seen(proc[p].sz, space[p])
               /\ v \in Seen(proc[p].sz, space[p]) => data[new[p].pte[v].pa] = data[space[p].pte[v].pa]
    <3>1. v * PGSIZE < proc[p].sz => v < proc[p].at
      BY <1>1, <2>1, RoundUp DEF Memory!VPages
    <3>q. QED
      BY <2>1, <3>1 DEF Seen, Copies
  <2>3. View(proc[p].sz, new[p], data) = View(proc[p].sz, space[p], data)
    BY <2>2, ViewIs
  <2>q. QED
    BY <1>1, <1>3, <1>4, <2>3, MemIs
<1>11. Memory!Private!Spawn(p, c)
  BY <1>8, <1>9, <1>10 DEF Memory!Private!Spawn
<1>q. QED
  BY <1>2, <1>6, <1>11 DEF Shows, Memory!Private!Next

LEMMA ReplaceShows == ASSUME MemInv, MemInv', Contented, NEW p \in Memory!Procs,
  Memory!Complete(p, "exec"), Replaces(p) PROVE Shows
<1>1. /\ proc[p].state = "running" /\ proc[p].pc = "page" /\ proc[p].call = "exec"
      /\ proc[p].at = Memory!PGROUNDUP(proc[p].to)
      /\ proc' = [Memory!Back(p) EXCEPT ![p].sz = proc[p].to]
      /\ space' = [space EXCEPT ![p] = new[p]] /\ new' = [new EXCEPT ![p] = Memory!NoSpace]
      /\ Memory!Fill
  BY DEF Replaces, Memory!Complete, Memory!At, Memory!Running
<1>2. /\ proc'[p] = [proc[p] EXCEPT !.pc = "user", !.call = "none", !.at = 0, !.to = 0,
            !.mem = Memory!None, !.child = 0, !.sz = proc[p].to]
      /\ \A q \in Memory!Procs : q # p => proc'[q] = proc[q] /\ space'[q] = space[q] /\ new'[q] = new[q]
      /\ space'[p] = new[p]
  BY <1>1, StepTypes DEF Memory!Back
<1>3. proc'[p].call = "none" /\ proc'[p].sz = proc[p].to
  BY <1>2, PartsAre DEF ProcT
<1>4. Steady /\ Rest(p, p)
  BY <1>1, <1>2, FillSteady DEF Rest, Same
<1>5. /\ Contented'
      /\ \A q \in Memory!Procs : q # p => View(proc'[q].sz, space'[q], data') = View(proc[q].sz,
                 space[q], data)
  <2>1. p \in Memory!Procs => Made(proc'[p], space'[p], new'[p], data')
    BY <1>3 DEF Made
  <2>q. QED
    BY <1>4, <2>1, OthersBut
<1>6. Memory!mem' = [Memory!mem EXCEPT ![p] = View(proc'[p].sz, space'[p], data')]
  BY <1>5, MemChanges
<1>7. Loads(proc[p], new[p], data) /\ proc[p].to = (ImageSize + 2) * PGSIZE /\ proc[p].to \in Nat
        /\ proc[p].to < KERNBASE
  BY <1>1, PartsAre, ProcParts DEF Contented, Made, Stage
<1>8. PGSIZE \in Nat \ {0} /\ ImageSize \in Nat
  BY MemoryAssumption
<1>9. ASSUME NEW v \in Int PROVE v * PGSIZE < proc[p].to <=> v < ImageSize + 2
  <2>1. CASE v < ImageSize + 2
    <3>1. (v + 1) * PGSIZE <= (ImageSize + 2) * PGSIZE
      <4>1. \A a, b \in Int : a <= b => a * PGSIZE <= b * PGSIZE
        BY <1>8
      <4>q. QED
        BY <1>8, <2>1, <4>1
    <3>2. (v + 1) * PGSIZE = v * PGSIZE + PGSIZE /\ v * PGSIZE \in Int
      BY <1>8
    <3>q. QED
      BY <1>7, <1>8, <2>1, <3>1, <3>2
  <2>2. CASE ~(v < ImageSize + 2)
    <3>1. (ImageSize + 2) * PGSIZE <= v * PGSIZE
      <4>1. \A a, b \in Int : a <= b => a * PGSIZE <= b * PGSIZE
        BY <1>8
      <4>q. QED
        BY <1>8, <2>2, <4>1
    <3>2. v * PGSIZE \in Int
      BY <1>8
    <3>q. QED
      BY <1>7, <2>2, <3>1, <3>2
  <2>q. QED
    BY <2>1, <2>2
<1>10. ASSUME NEW v \in Int, 0 <= v, v < ImageSize + 2
       PROVE  v \in Memory!VPages /\ v < proc[p].at
  <2>1. v < Memory!PGROUNDUP(proc[p].to)
    BY <1>7, <1>9, <1>10, RoundUp
  <2>q. QED
    BY <1>1, <1>7, <1>10, <2>1, BelowIsVPage
<1> DEFINE image == [v \in (0..(ImageSize + 1)) \ {ImageSize} |-> IF v < ImageSize THEN Memory!Text
            ELSE Memory!Zero]
<1>11. View(proc'[p].sz, space'[p], data') = image
  <2>1. ASSUME NEW v PROVE v \in Seen(proc[p].to, new[p]) <=> v \in (0..(ImageSize + 1)) \ {ImageSize}
    <3>1. ASSUME v \in Seen(proc[p].to, new[p]) PROVE v \in (0..(ImageSize + 1)) \ {ImageSize}
      <4>1. v \in Memory!VPages /\ v \in Int /\ 0 <= v /\ new[p].pte[v].user /\ v * PGSIZE < proc[p].to
        BY <3>1 DEF Seen, Memory!VPages
      <4>2. v < ImageSize + 2
        BY <1>9, <4>1
      <4>3. v < proc[p].at
        BY <1>10, <4>1, <4>2
      <4>4. v # ImageSize
        BY <1>7, <4>1, <4>3 DEF Loads
      <4>q. QED
        BY <1>8, <4>1, <4>2, <4>4
    <3>2. ASSUME v \in (0..(ImageSize + 1)) \ {ImageSize} PROVE v \in Seen(proc[p].to, new[p])
      <4>1. v \in Int /\ 0 <= v /\ v < ImageSize + 2 /\ v # ImageSize
        BY <1>8, <3>2
      <4>2. v \in Memory!VPages /\ v < proc[p].at /\ v * PGSIZE < proc[p].to
        BY <1>9, <1>10, <4>1
      <4>3. new[p].pte[v].user
        BY <1>7, <4>1, <4>2 DEF Loads
      <4>q. QED
        BY <4>2, <4>3 DEF Seen
    <3>q. QED
      BY <3>1, <3>2
  <2>2. ASSUME NEW v \in (0..(ImageSize + 1)) \ {ImageSize}
               PROVE data'[new[p].pte[v].pa] = IF v < ImageSize THEN Memory!Text ELSE Memory!Zero
    <3>1. v \in Int /\ 0 <= v /\ v < ImageSize + 2
      BY <1>8
    <3>2. v \in Memory!VPages /\ v < proc[p].at
      BY <1>10, <3>1
    <3>3. data[new[p].pte[v].pa] = IF v < ImageSize THEN Memory!Text ELSE Memory!Zero
      BY <1>7, <3>2 DEF Loads, Image
    <3>4. new[p].pte[v].pa \in Memory!OwnPages(new[p]) /\ new[p].pte[v].pa \in Memory!Pages
      BY <1>1, <3>2, MadeAreThere, PartsAre, OwnIs
    <3>5. new[p].pte[v].pa \notin free
      BY <3>4, FreshPage
    <3>6. new[p].pte[v].pa \notin free'
      <4>1. G'[SpaceOf(p)] = Memory!OwnPages(new[p]) /\ SpaceOf(p) \in Memory!Holders
              /\ Sound(free', G')
        BY <1>2, NextIs, HoldersAre DEF MemInv
      <4>q. QED
        BY <3>4, <4>1, SoundMeans
    <3>q. QED
      BY <1>4, <3>3, <3>4, <3>5, <3>6 DEF Steady
  <2>3. Seen(proc'[p].sz, space'[p]) = (0..(ImageSize + 1)) \ {ImageSize}
    BY <1>2, <1>3, <2>1
  <2>q. QED
    BY <1>2, <2>2, <2>3 DEF View
<1>12. Memory!Private!Replace(p)
  BY <1>6, <1>11 DEF Memory!Private!Replace
<1>q. QED
  BY <1>5, <1>12 DEF Shows, Memory!Private!Next

LEMMA ExecDoneSeen == ASSUME MemInv, MemInv', Contented, NEW p \in Memory!Procs, Memory!ExecDone(p)
  PROVE Shows \/ Hidden
<1>1. CASE Replaces(p)
  BY <1>1, ReplaceShows DEF Memory!ExecDone
<1>2. CASE Memory!Undo(p, {}) /\ Memory!Fill /\ UNCHANGED space
  <2>1. /\ proc[p].state = "running" /\ proc[p].call = "exec"
    BY DEF Memory!ExecDone, Memory!Complete, Memory!At, Memory!Running
  <2>q. QED
    BY <1>2, <2>1, UndoHidden
<1>q. QED
  BY <1>1, <1>2 DEF Memory!ExecDone, Replaces

LEMMA WaitShows == ASSUME MemInv, MemInv', Contented, NEW p \in Memory!Procs, Memory!Wait(p) PROVE Shows
<1>1. PICK c \in Memory!Procs : Waits(p, c)
  BY DEF Memory!Wait, Waits
<1>2. space' = [space EXCEPT ![c] = Memory!NoSpace] /\ proc' = [proc EXCEPT ![c] = Memory!Idle]
        /\ Memory!Fill /\ UNCHANGED new
  BY <1>1 DEF Waits
<1>3. /\ proc'[c] = Memory!Idle /\ space'[c] = Memory!NoSpace
      /\ \A q \in Memory!Procs : q # c => proc'[q] = proc[q] /\ space'[q] = space[q]
  BY <1>2, StepTypes
<1>4. Steady /\ Rest(c, c)
  BY <1>2, <1>3, FillSteady DEF Rest, Same
<1>5. /\ Contented'
      /\ \A q \in Memory!Procs : q # c => View(proc'[q].sz, space'[q], data') = View(proc[q].sz,
                 space[q], data)
  <2>1. c \in Memory!Procs => Made(proc'[c], space'[c], new'[c], data')
    BY <1>3, IdleIs DEF Made
  <2>q. QED
    BY <1>4, <2>1, OthersBut
<1>6. Memory!mem' = [Memory!mem EXCEPT ![c] = Memory!Private!Nothing]
  BY <1>3, <1>5, MemChanges, NothingIs
<1>q. QED
  BY <1>5, <1>6 DEF Shows, Memory!Private!Next, Memory!Private!Vanish

\* A store reaches only the page it is for, of the process that makes it.
LEMMA StoreShows == ASSUME MemInv, MemInv', Contented, NEW p \in Memory!Procs, Memory!Store(p)
  PROVE Shows
<1>1. PICK v \in Memory!VPages, x \in Values : /\ space[p].pte[v].user
                                       /\ data' = [data EXCEPT ![space[p].pte[v].pa] = x]
  BY DEF Memory!Store
<1>2. Memory!InUser(p) /\ UNCHANGED <<free, space, new, proc>>
  BY DEF Memory!Store
<1>3. /\ proc[p].call = "none" /\ UpTo(space[p], Memory!PGROUNDUP(proc[p].sz))
      /\ space[p] \in Spaces /\ Inside(space[p]) /\ OnlyPresent(space[p]) /\ proc[p].sz \in Nat
  BY <1>2, InUserIs, PartsAre, ProcParts DEF Fit
<1> DEFINE g == space[p].pte[v].pa
<1>4. Memory!Present(space[p], v) /\ g \in Memory!OwnPages(space[p]) /\ g \in Memory!Pages
        /\ v * PGSIZE < proc[p].sz
  <2>1. Memory!Present(space[p], v)
    BY <1>1, <1>3 DEF OnlyPresent
  <2>2. v < Memory!PGROUNDUP(proc[p].sz) /\ v \in Int
    BY <1>3, <2>1 DEF UpTo, Memory!VPages
  <2>q. QED
    BY <1>3, <2>1, <2>2, OwnIs, RoundUp
<1> HIDE DEF g
<1>5. data'[g] = x /\ \A pg : pg # g /\ pg \in Memory!Pages => data'[pg] = data[pg]
  BY <1>1, <1>4, StepTypes DEF g
<1>6. ASSUME NEW q \in Memory!Procs, q # p PROVE Calm(q)
  <2>1. /\ {SpaceOf(q), NewOf(q), MemOf(q), SpaceOf(p)} \subseteq Memory!Holders
        /\ SpaceOf(q) # SpaceOf(p) /\ NewOf(q) # SpaceOf(p) /\ MemOf(q) # SpaceOf(p)
    BY <1>6, HoldersAre
  <2>2. /\ G[SpaceOf(q)] \cap G[SpaceOf(p)] = {} /\ G[NewOf(q)] \cap G[SpaceOf(p)] = {}
        /\ G[MemOf(q)] \cap G[SpaceOf(p)] = {}
    BY <2>1 DEF MemInv, Sound
  <2>3. g \notin Memory!OwnPages(space[q]) /\ g \notin Memory!OwnPages(new[q])
          /\ (proc[q].mem # Memory!None => g # proc[q].mem)
    BY <1>4, <2>2, GIs
  <2>4. space[q] \in Spaces /\ new[q] \in Spaces
          /\ (proc[q].mem # Memory!None => proc[q].mem \in Memory!Pages)
    BY PartsAre, ProcParts DEF PageOrNone
  <2>5. ASSUME NEW v2 \in Memory!VPages, Memory!Present(space[q], v2)
               PROVE data'[space[q].pte[v2].pa] = data[space[q].pte[v2].pa]
    BY <1>5, <2>3, <2>4, <2>5, OwnIs
  <2>6. ASSUME NEW v2 \in Memory!VPages, Memory!Present(new[q], v2)
               PROVE data'[new[q].pte[v2].pa] = data[new[q].pte[v2].pa]
    BY <1>5, <2>3, <2>4, <2>6, OwnIs
  <2>q. QED
    BY <1>5, <2>3, <2>4, <2>5, <2>6 DEF Calm
<1>7. ASSUME NEW q \in Memory!Procs, q # p
      PROVE  /\ Made(proc'[q], space'[q], new'[q], data')
             /\ View(proc'[q].sz, space'[q], data') = View(proc[q].sz, space[q], data)
  <2>1. Calm(q) /\ Same(q) /\ Made(proc[q], space[q], new[q], data)
    BY <1>2, <1>6, <1>7 DEF Same, Contented
  <2>2. space'[q] = space[q] /\ proc'[q].sz = proc[q].sz
    BY <1>2
  <2>q. QED
    BY <2>1, <2>2, MadeStays, ViewStays
<1>8. Contented'
  <2>1. Made(proc'[p], space'[p], new'[p], data')
    BY <1>2, <1>3 DEF Made
  <2>2. \A q \in Memory!Procs : Made(proc'[q], space'[q], new'[q], data')
    BY <1>7, <2>1
  <2>q. QED
    BY <2>2 DEF Contented
<1>9. Memory!mem' = [Memory!mem EXCEPT ![p] = View(proc'[p].sz, space'[p], data')]
  BY <1>7, MemChanges
<1> DEFINE seen == Seen(proc[p].sz, space[p])
<1>10. Memory!mem[p] = [v2 \in seen |-> data[space[p].pte[v2].pa]] /\ v \in seen
  BY <1>1, <1>4, MemIs DEF View, Seen
<1>11. View(proc'[p].sz, space'[p], data') = [v2 \in seen |-> data'[space[p].pte[v2].pa]]
  BY <1>2 DEF View
<1>12. ASSUME NEW v2 \in seen PROVE data'[space[p].pte[v2].pa] = IF v2 = v THEN x
              ELSE data[space[p].pte[v2].pa]
  <2>1. v2 \in Memory!VPages /\ Memory!Present(space[p], v2)
    BY <1>3 DEF Seen, OnlyPresent
  <2>2. space[p].pte[v2].pa \in Memory!Pages
    BY <1>3, <2>1, OwnIs
  <2>3. v2 # v => space[p].pte[v2].pa # g
    BY <1>3, <1>4, <2>1 DEF Inside, g
  <2>q. QED
    BY <1>5, <2>2, <2>3 DEF g
<1> HIDE DEF seen
<1>13. View(proc'[p].sz, space'[p], data') = [Memory!mem[p] EXCEPT ![v] = x]
  BY <1>10, <1>11, <1>12
<1>14. Memory!Private!Store(p)
  <2>1. Memory!mem' = [Memory!mem EXCEPT ![p] = [Memory!mem[p] EXCEPT ![v] = x]]
          /\ v \in DOMAIN Memory!mem[p]
    BY <1>9, <1>10, <1>13
  <2>q. QED
    BY <2>1 DEF Memory!Private!Store
<1>q. QED
  BY <1>8, <1>14 DEF Shows, Memory!Private!Next

LEMMA StepIsPrivate == ASSUME MemInv, MemInv', Contented, [Memory!Next]_(Memory!vars) PROVE Contented'
  /\ [Memory!Private!Next]_(Memory!mem)
<1>1. CASE Memory!Next
  <2>1. PICK p \in Memory!Procs :
          \/ Memory!Fork(p) \/ Memory!KStack(p) \/ Memory!Exec(p) \/ Memory!Dir(p) \/ Memory!Kern(p)
            \/ Memory!Sbrk(p) \/ Memory!Page(p)
          \/ Memory!Map(p) \/ Memory!MapFails(p) \/ Memory!SbrkDone(p) \/ Memory!ForkDone(p)
            \/ Memory!ExecDone(p)
          \/ Memory!Exit(p) \/ Memory!Wait(p) \/ Memory!Store(p)
    BY <1>1 DEF Memory!Next
  <2>2. CASE Memory!Sbrk(p)
    <3>1. \E n \in Amounts : Grows(p, n) \/ Shrinks(p, n)
      BY <2>2 DEF Memory!Sbrk, Grows, Shrinks
    <3>2. Shows \/ Hidden
      BY <3>1, GrowHidden, ShrinkShows
    <3>q. QED
      BY <3>2 DEF Shows, Hidden
  <2>3. CASE Memory!Fork(p) \/ Memory!KStack(p) \/ Memory!Exec(p) \/ Memory!Dir(p) \/ Memory!Kern(p)
          \/ Memory!Page(p) \/ Memory!Map(p) \/ Memory!MapFails(p) \/ Memory!Exit(p)
    <3>1. Hidden
      BY <2>3, ForkHidden, KStackHidden, ExecHidden, DirHidden, PageHidden, MapHidden, MapFailsHidden,
         ExitHidden
    <3>q. QED
      BY <3>1 DEF Hidden
  <2>4. CASE Memory!SbrkDone(p) \/ Memory!ForkDone(p) \/ Memory!ExecDone(p) \/ Memory!Wait(p)
          \/ Memory!Store(p)
    <3>1. Shows \/ Hidden
      BY <2>4, SbrkDoneShows, ForkDoneShows, ExecDoneSeen, WaitShows, StoreShows
    <3>q. QED
      BY <3>1 DEF Shows, Hidden
  <2>q. QED
    BY <2>1, <2>2, <2>3, <2>4
<1>2. CASE UNCHANGED Memory!vars
  <2>1. UNCHANGED <<free, data, space, new, proc>>
    BY <1>2 DEF Memory!vars
  <2>q. QED
    BY <2>1, MemIs DEF Contented, Made, Copies, Loads, Clears
<1>q. QED
  BY <1>1, <1>2

LEMMA InitIsPrivate == Memory!Init => Contented /\ Memory!Private!Init
<1> SUFFICES ASSUME Memory!Init PROVE Contented /\ Memory!Private!Init
  OBVIOUS
<1>1. /\ space = [p \in Memory!Procs |-> IF p = 1 THEN First ELSE Memory!NoSpace]
      /\ proc = [p \in Memory!Procs |-> IF p = 1 THEN Second ELSE Memory!Idle]
      /\ data = [pg \in Memory!Pages |-> IF pg = 5 THEN Memory!Text ELSE IF pg < 5 THEN Memory!Zero
                 ELSE Memory!Junk]
  BY DEF Memory!Init, First, Second
<1>2. 1 \in Memory!Procs /\ 5 \in Memory!Pages
  BY MemoryAssumption DEF Memory!Procs, Memory!Pages
<1>3. Second.call = "none" /\ Second.sz = PGSIZE
  BY DEF Second, Memory!Idle
<1>4. Contented
  BY <1>1, <1>3, IdleIs DEF Contented, Made
<1>5. Memory!mem = [p \in Memory!Procs |-> IF p = 1 THEN View(PGSIZE, First, data)
              ELSE Memory!Private!Nothing]
  <2>1. Memory!mem = [p \in Memory!Procs |-> View(proc[p].sz, space[p], data)]
    BY MemIs
  <2>2. \A p \in Memory!Procs : View(proc[p].sz, space[p], data) = IF p = 1
          THEN View(PGSIZE, First, data) ELSE Memory!Private!Nothing
    BY <1>1, <1>3, NothingIs
  <2>q. QED
    BY <2>1, <2>2
<1>6. View(PGSIZE, First, data) = [v \in {0} |-> Memory!Text]
  <2>1. 0 \in Memory!VPages /\ First.pte[0] = [pa |-> 5, user |-> TRUE]
          /\ \A v \in Memory!VPages : v # 0 => First.pte[v] = Memory!NoPte
    <3>1. UpTo(First, 1) /\ OnlyPresent(First)
      BY FirstIs
    <3>2. 0 \in Memory!VPages
      <4>1. 0 < Memory!PGROUNDUP(1) <=> 0 * PGSIZE < 1
        BY RoundUp
      <4>2. 1 < KERNBASE
        <5>1. (ImageSize + 2) * PGSIZE = ImageSize * PGSIZE + 2 * PGSIZE /\ ImageSize * PGSIZE \in Nat
          BY MemoryAssumption
        <5>q. QED
          BY <5>1, MemoryAssumption
      <4>q. QED
        BY <4>1, <4>2, BelowIsVPage, MemoryAssumption
    <3>q. QED
      BY <3>2 DEF First, Memory!NoSpace
  <2>2. \A v : v \in Seen(PGSIZE, First) <=> v = 0
    BY <2>1, MemoryAssumption DEF Seen, Memory!NoPte
  <2>3. data[First.pte[0].pa] = Memory!Text
    BY <1>1, <1>2, <2>1
  <2>q. QED
    BY <2>2, <2>3 DEF View
<1>q. QED
  BY <1>2, <1>4, <1>5, <1>6 DEF Memory!Private!Init
-----------------------------------------------------------------------------
(* The memory as a part of the kernel *)

MemoryPart == part = "memory" => MemInv /\ Contented
MemoryShows == part = "memory" => Memory!Private!Init

LEMMA MemoryPartStep ==
  ASSUME MemoryPart, [KernelNext]_kernel, part' = "memory"
  PROVE  /\ part = "memory" /\ MemInv /\ Contented /\ (MemInv /\ Contented)'
         /\ [Memory!Next]_(Memory!vars) /\ [Memory!Private!Next]_(Memory!mem)
<1>1. part = "memory" /\ [Memory!Next]_(Memory!vars)
  BY DEF KernelNext, kernel, memory, Memory!vars
<1>2. MemInv /\ Contented
  BY <1>1 DEF MemoryPart
<1>q. QED
  BY <1>1, <1>2, StepKeeps, StutterKeeps, StepIsPrivate

LEMMA MemoryPartInvariance == KernelSpec => []MemoryPart
<1>1. KernelInit => MemoryPart
  BY InitInv, InitIsPrivate DEF KernelInit, MemoryPart
<1>2. MemoryPart /\ [KernelNext]_kernel => MemoryPart'
  BY MemoryPartStep DEF MemoryPart
<1>q. QED
  BY <1>1, <1>2, PTL DEF KernelSpec

\* However sbrk, fork, exec, exit and wait of all processes interleave, and whichever of
\* them finds no page: no page is free and in use or has two uses, and neither mappages
\* nor copyuvm panics (kalloc.c, vm.c).
THEOREM PagesAreOwnedOnce == KernelSpec => []PagesHaveOneOwner
<1>1. MemoryPart => PagesHaveOneOwner
  BY InvOneOwner DEF MemoryPart, PagesHaveOneOwner
<1>q. QED
  BY <1>1, MemoryPartInvariance, PTL

\* The page that copyuvm forgets when it finds no page table (vm.c:335) is the only one
\* that the kernel ever loses: the free list and the processes keep all others.
THEOREM NothingElseIsLost == KernelSpec => OnlyForkLoses
<1>1. MemoryPart /\ [KernelNext]_kernel => (part = "memory" => [Memory!LossStep]_(Memory!vars))
  <2> SUFFICES ASSUME MemoryPart, [KernelNext]_kernel, part = "memory" PROVE [Memory!LossStep]_(Memory!vars)
    OBVIOUS
  <2>1. part' = "memory"
    BY DEF KernelNext, kernel
  <2>2. MemInv /\ [Memory!Next]_(Memory!vars)
    BY <2>1, MemoryPartStep
  <2>q. QED
    BY <2>2, InvLoss
<1>q. QED
  BY <1>1, MemoryPartInvariance, PTL DEF KernelSpec, OnlyForkLoses

\* Behind the page tables each process has a memory of its own: pages appear filled with
\* zeros, as a copy of the parent's or as a fresh program, change only when the process
\* itself stores, and no half-built image and no page that somebody else had shows.
THEOREM MemoryStaysPrivate == KernelSpec => MemoryIsPrivate
<1>1. KernelInit => MemoryShows
  BY InitIsPrivate DEF KernelInit, MemoryShows
<1>2. MemoryPart /\ [KernelNext]_kernel => (part = "memory" => [Memory!Private!Next]_(Memory!mem))
  <2> SUFFICES ASSUME MemoryPart, [KernelNext]_kernel, part = "memory"
               PROVE  [Memory!Private!Next]_(Memory!mem)
    OBVIOUS
  <2>1. part' = "memory"
    BY DEF KernelNext, kernel
  <2>q. QED
    BY <2>1, MemoryPartStep
<1>q. QED
  BY <1>1, <1>2, MemoryPartInvariance, PTL DEF KernelSpec, MemoryIsPrivate, MemoryShows
=============================================================================
