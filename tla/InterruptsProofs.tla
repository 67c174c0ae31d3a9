-------------------------- MODULE InterruptsProofs --------------------------
(***************************************************************************)
(* Proofs about the parts of Machine that interrupts drive: the clock      *)
(* (Interrupts), where no CPU waits for a spinlock of its own, interrupts  *)
(* come back as they were and sys_sleep is exact; the console, which is a  *)
(* queue of lines and leaves no reader stuck; and sleep-locks, which are   *)
(* locks and lose no wakeup.                                               *)
(***************************************************************************)
EXTENDS Machine, SequenceTheorems, TLAPS

\* The frames of a context: the innermost, the outermost and their number.
TopOf(x) == stack[x][1]
Depth(x) == Len(stack[x])
BaseOf(x) == stack[x][Depth(x)]

\* Where threads, schedulers and handlers can be, where an interrupt can find
\* them, and where they hold a lock or take one.
Awake == {"user", "sleep", "again", "return"}
Calm == {"loop", "acquire", "hlt"}
ThreadPcs == Awake \cup {"forkret", "slept", "test", "sleep1"}
SchedPcs == Calm \cup {"scan"}
HandlerPcs == {"tick", "wakeup", "ticked", "yield", "yielded", "iret"}
TicksPcs == {"test", "sleep1", "wakeup", "ticked"}
PtablePcs == {"scan", "yielded", "slept", "forkret"}
SpinPcs == {"tick", "wakeup", "yield", "acquire", "sleep", "sleep1", "again"}

Frames == [pc : ThreadPcs \cup SchedPcs \cup HandlerPcs, spins : BOOLEAN, intena : BOOLEAN]

ThreadT == [state : {"runnable", "running", "sleeping"}, killed : BOOLEAN,
            n : Sleeps \cup {0}, ticks0 : 0..(TickWrap - 1), waited : 0..(TickWrap - 1)]
USE DEF ThreadT

ClockTypes ==
  /\ cpu \in [Clock!Cpus -> [flag : BOOLEAN, ncli : 0..2, intena : BOOLEAN,
        thread : Clock!Threads \cup {Clock!None}]]
  /\ stack \in [Clock!Contexts -> Seq(Frames)]
  /\ owner \in [Clock!Locks -> Clock!Cpus \cup {Clock!None}]
  /\ thread \in [Clock!Threads -> ThreadT]
  /\ ticks \in 0..(TickWrap - 1)
  /\ scan \in [Clock!Cpus -> [next : Nat, ran : BOOLEAN]]
  /\ panic = FALSE

\* A stack has at most one handler, on top of code that runs with interrupts.
StackShape(x) ==
  /\ Depth(x) = 1 \/ Depth(x) = 2
  /\ BaseOf(x).pc \in IF x \in Clock!Threads THEN ThreadPcs ELSE SchedPcs
  /\ Depth(x) = 2 =>
       /\ TopOf(x).pc \in IF x \in Clock!Threads THEN HandlerPcs ELSE HandlerPcs \ {"yield", "yielded"}
       /\ BaseOf(x).pc \in Awake \cup Calm /\ ~BaseOf(x).spins
  /\ TopOf(x).spins => TopOf(x).pc \in SpinPcs
Stacks == \A x \in Clock!Contexts : StackShape(x)

\* A thread runs on one CPU, whose scheduler is in the middle of its scan.
Placed(c) == cpu[c].thread # Clock!None =>
  /\ thread[cpu[c].thread].state = "running"
  /\ Depth(Clock!Sched(c)) = 1 /\ TopOf(Clock!Sched(c)).pc = "scan"
  /\ scan[c].ran
  /\ \A d \in Clock!Cpus : cpu[d].thread = cpu[c].thread => c = d
Placement ==
  /\ \A c \in Clock!Cpus : Placed(c)
  /\ \A c \in Clock!Cpus : BaseOf(Clock!Sched(c)).pc # "scan" => ~scan[c].ran
  /\ \A t \in Clock!Threads :
       /\ thread[t].state # "running" => TopOf(t).pc \in {"forkret", "yielded", "slept"}
       /\ thread[t].state = "sleeping" => TopOf(t).pc = "slept"

\* The flag, ncli and intena follow from where a CPU is.
Held(f) ==
  (IF f.pc \in TicksPcs THEN 1 ELSE 0) + (IF f.pc \in PtablePcs THEN 1 ELSE 0) + (IF f.spins THEN 1
          ELSE 0)
Mode(x, f, ran) ==
  /\ x.ncli = Held(f)
  /\ x.ncli > 0 => ~x.flag
  /\ x.ncli = 0 /\ f.pc \in Awake \cup {"acquire", "hlt"} => x.flag
  /\ f.pc \in HandlerPcs => ~x.flag
  /\ x.ncli > 0 /\ f.pc \in Awake \cup {"test", "sleep1", "acquire"} => x.intena
  /\ x.ncli > 0 /\ f.pc \in HandlerPcs \ {"yielded"} => ~x.intena
  /\ f.pc = "scan" /\ ~ran => x.intena
Modes ==
  /\ \A c \in Clock!Cpus : Mode(cpu[c], TopOf(Clock!Ctx(c)), scan[c].ran)
  /\ \A t \in Clock!Threads :
       /\ TopOf(t).pc = "slept" => TopOf(t).intena
       /\ TopOf(t).pc = "yielded" => ~TopOf(t).intena

\* Who holds a lock is where a holder is.
Holders == \A c \in Clock!Cpus :
  /\ owner["ticks"] = c <=> TopOf(Clock!Ctx(c)).pc \in TicksPcs
  /\ owner["ptable"] = c <=> TopOf(Clock!Ctx(c)).pc \in PtablePcs

\* What is known of a thread in sys_sleep.
Counted(t) ==
  BaseOf(t).pc \in {"slept", "test", "sleep1", "again"} /\ thread[t].n # 0 =>
    \/ thread[t].ticks0 + thread[t].waited = ticks
    \/ thread[t].ticks0 + thread[t].waited = ticks + TickWrap
WakeComes == \E c \in Clock!Cpus : owner["ticks"] = c /\ TopOf(Clock!Ctx(c)).pc = "wakeup"
Sleeping(t) ==
  /\ BaseOf(t).pc = "return" => thread[t].killed \/ thread[t].waited >= thread[t].n % TickWrap
  /\ thread[t].state = "sleeping" => WakeComes \/ thread[t].waited < thread[t].n % TickWrap
TickDue == \A c \in Clock!Cpus : TopOf(Clock!Ctx(c)).pc = "tick" =>
  c = 1 /\ \A t \in Clock!Threads : thread[t].waited < TickWrap - 1
SleepDue == \A c \in Clock!Cpus : TopOf(Clock!Ctx(c)).pc = "sleep1" =>
  thread[Clock!Ctx(c)].waited < thread[Clock!Ctx(c)].n % TickWrap
Sleepers == TickDue /\ SleepDue /\ \A t \in Clock!Threads : Counted(t) /\ Sleeping(t)

ClockInv == ClockTypes /\ Stacks /\ Placement /\ Modes /\ Holders /\ Sleepers

CpuT == [flag : BOOLEAN, ncli : 0..2, intena : BOOLEAN, thread : Clock!Threads \cup {Clock!None}]

-----------------------------------------------------------------------------
\* Frames on a stack: replaced, pushed and popped.
Shown(s, k, f, b) == Len(s) = k /\ s[1] = f /\ s[k] = b

LEMMA Replaced ==
  ASSUME NEW S, NEW s \in Seq(S), Len(s) = 1 \/ Len(s) = 2, NEW f \in S
  PROVE  /\ <<f>> \o Tail(s) \in Seq(S)
         /\ Shown(<<f>> \o Tail(s), Len(s), f, IF Len(s) = 1 THEN f ELSE s[Len(s)])
<1>a. s = <<>> => Len(s) = 0
  OBVIOUS
<1>b. \A z : z = 1 \/ z = 2 => z # 0
  OBVIOUS
<1>0. s # <<>>
  BY <1>a, <1>b, Zenon
<1>1. Tail(s) \in Seq(S) /\ Len(Tail(s)) = Len(s) - 1
        /\ \A z \in 1..Len(Tail(s)) : Tail(s)[z] = s[z + 1]
  BY <1>0, HeadTailProperties
<1>2. Len(s) = 2 => Tail(s)[1] = s[2]
  <2>1. Len(s) = 2 => 1 \in 1..Len(Tail(s)) /\ 1 + 1 = 2
    BY ONLY <1>1
  <2>q. QED
    BY ONLY <1>1, <2>1
<1>3. <<f>> \in Seq(S) /\ Len(<<f>>) = 1 /\ <<f>>[1] = f
  OBVIOUS
<1>4. <<f>> \o Tail(s) \in Seq(S) /\ Len(<<f>> \o Tail(s)) = Len(s)
  BY <1>1, <1>3
<1>5. (<<f>> \o Tail(s))[1] = f
  BY <1>1, <1>3
<1>c. \A z \in 1..(Len(<<f>>) + Len(Tail(s))) :
       (<<f>> \o Tail(s))[z] = IF z <= Len(<<f>>) THEN <<f>>[z] ELSE Tail(s)[z - Len(<<f>>)]
  BY <1>1, <1>3, ConcatProperties
<1>6. Len(s) = 2 => (<<f>> \o Tail(s))[2] = s[2]
  <2> SUFFICES ASSUME Len(s) = 2 PROVE (<<f>> \o Tail(s))[2] = s[2]
    OBVIOUS
  <2>1. 2 \in 1..(Len(<<f>>) + Len(Tail(s))) /\ ~(2 <= Len(<<f>>)) /\ 2 - Len(<<f>>) = 1
    BY ONLY <1>1, <1>3, Len(s) = 2
  <2>2. (<<f>> \o Tail(s))[2] = Tail(s)[1]
    BY ONLY <1>c, <2>1
  <2>q. QED
    BY ONLY <1>2, <2>2, Len(s) = 2
<1>q. QED
  BY <1>4, <1>5, <1>6 DEF Shown

LEMMA Pushed ==
  ASSUME NEW S, NEW s \in Seq(S), Len(s) = 1, NEW f \in S
  PROVE  <<f>> \o s \in Seq(S) /\ Shown(<<f>> \o s, 2, f, s[1])
<1>3. <<f>> \in Seq(S) /\ Len(<<f>>) = 1 /\ <<f>>[1] = f
  OBVIOUS
<1>4. <<f>> \o s \in Seq(S) /\ Len(<<f>> \o s) = 2
  BY <1>3
<1>c. \A z \in 1..(Len(<<f>>) + Len(s)) : (<<f>> \o s)[z] = IF z <= Len(<<f>>) THEN <<f>>[z]
        ELSE s[z - Len(<<f>>)]
  BY <1>3, ConcatProperties
<1>d. 1 \in 1..(Len(<<f>>) + Len(s)) /\ 2 \in 1..(Len(<<f>>) + Len(s)) /\ 1 <= Len(<<f>>)
        /\ ~(2 <= Len(<<f>>)) /\ 2 - Len(<<f>>) = 1
  BY ONLY <1>3, Len(s) = 1
<1>5. (<<f>> \o s)[1] = f /\ (<<f>> \o s)[2] = s[1]
  BY ONLY <1>c, <1>d, <1>3
<1>q. QED
  BY <1>4, <1>5 DEF Shown

LEMMA Popped ==
  ASSUME NEW S, NEW s \in Seq(S), Len(s) = 2
  PROVE  Tail(s) \in Seq(S) /\ Shown(Tail(s), 1, s[2], s[2])
<1>0. s # <<>>
  OBVIOUS
<1>1. Tail(s) \in Seq(S) /\ Len(Tail(s)) = Len(s) - 1
        /\ \A z \in 1..Len(Tail(s)) : Tail(s)[z] = s[z + 1]
  BY <1>0, HeadTailProperties
<1>2. Len(Tail(s)) = 1 /\ Tail(s)[1] = s[2]
  BY <1>1
<1>q. QED
  BY <1>1, <1>2 DEF Shown

LEMMA Two ==
  ASSUME NEW S, NEW f \in S, NEW g \in S
  PROVE  <<f, g>> \in Seq(S) /\ Shown(<<f, g>>, 2, f, g)
BY DEF Shown

\* One stack changes: from then on x has k frames, f innermost and b outermost.
Becomes(x, k, f, b) == \A y \in Clock!Contexts :
  /\ Depth(y)' = IF y = x THEN k ELSE Depth(y)
  /\ TopOf(y)' = IF y = x THEN f ELSE TopOf(y)
  /\ BaseOf(y)' = IF y = x THEN b ELSE BaseOf(y)

LEMMA OneStack ==
  ASSUME stack \in [Clock!Contexts -> Seq(Frames)], NEW x \in Clock!Contexts, NEW s \in Seq(Frames),
         NEW k, NEW f, NEW b,
         Shown(s, k, f, b), stack' = [stack EXCEPT ![x] = s]
  PROVE  stack' \in [Clock!Contexts -> Seq(Frames)] /\ Becomes(x, k, f, b)
<1>1. stack' \in [Clock!Contexts -> Seq(Frames)]
  OBVIOUS
<1>2. \A y \in Clock!Contexts : stack'[y] = IF y = x THEN s ELSE stack[y]
  OBVIOUS
<1>q. QED
  BY <1>1, <1>2 DEF Becomes, Depth, TopOf, BaseOf, Shown

LEMMA PlaceIs ==
  ASSUME stack \in [Clock!Contexts -> Seq(Frames)], Stacks, NEW x \in Clock!Contexts, NEW f \in Frames,
         stack' = Clock!Place(f, x)
  PROVE  /\ stack' \in [Clock!Contexts -> Seq(Frames)]
         /\ Becomes(x, Depth(x), f, IF Depth(x) = 1 THEN f ELSE BaseOf(x))
<1>1. stack[x] \in Seq(Frames) /\ (Len(stack[x]) = 1 \/ Len(stack[x]) = 2)
  BY DEF Stacks, StackShape, Depth
<1>2. stack' = [stack EXCEPT ![x] = <<f>> \o Tail(stack[x])]
  BY DEF Clock!Place
<1> DEFINE s == <<f>> \o Tail(stack[x])
<1>3. s \in Seq(Frames) /\ Shown(s, Depth(x), f, IF Depth(x) = 1 THEN f ELSE BaseOf(x))
  BY <1>1, Replaced DEF Depth, BaseOf
<1>4. stack' = [stack EXCEPT ![x] = s]
  BY <1>2
<1> HIDE DEF s
<1>q. QED
  BY <1>3, <1>4, OneStack

\* The contexts of the CPUs are different ones.
LEMMA Apart ==
  ASSUME cpu \in [Clock!Cpus -> CpuT], Placement
  PROVE  /\ \A c \in Clock!Cpus : Clock!Ctx(c) \in Clock!Contexts /\ Clock!Sched(c) \in Clock!Contexts
              /\ Clock!Sched(c) \notin Clock!Threads
         /\ \A c, d \in Clock!Cpus : Clock!Ctx(c) = Clock!Ctx(d) => c = d
         /\ \A c, d \in Clock!Cpus : Clock!Sched(c) = Clock!Sched(d) => c = d
         /\ \A c \in Clock!Cpus : Clock!Ctx(c) = IF cpu[c].thread = Clock!None THEN Clock!Sched(c)
              ELSE cpu[c].thread
         /\ \A c \in Clock!Cpus : cpu[c].thread # Clock!None => cpu[c].thread \in Clock!Threads
         /\ Clock!Threads \subseteq Clock!Contexts /\ Clock!None \notin Clock!Threads
<1>1. \A c \in Clock!Cpus : Clock!Sched(c) \in Clock!Contexts /\ Clock!Sched(c) \notin Clock!Threads
  BY ClockAssumption DEF Clock!Sched, Clock!Contexts, Clock!Threads, Clock!Cpus
<1>2. \A c, d \in Clock!Cpus : Clock!Sched(c) = Clock!Sched(d) => c = d
  BY ClockAssumption DEF Clock!Sched, Clock!Cpus
<1>3. \A c \in Clock!Cpus : cpu[c].thread # Clock!None => cpu[c].thread \in Clock!Threads
  BY DEF CpuT
<1>4. Clock!Threads \subseteq Clock!Contexts /\ Clock!None \notin Clock!Threads
  BY DEF Clock!Contexts, Clock!Threads, Clock!None
<1>5. \A c \in Clock!Cpus : Clock!Ctx(c) = IF cpu[c].thread = Clock!None THEN Clock!Sched(c)
        ELSE cpu[c].thread
  BY DEF Clock!Ctx
<1>6. \A c, d \in Clock!Cpus : cpu[c].thread # Clock!None /\ cpu[d].thread = cpu[c].thread => c = d
  BY DEF Placement, Placed
<1>q. QED
  BY <1>1, <1>2, <1>3, <1>4, <1>5, <1>6

LEMMA Shapes ==
  ASSUME ClockTypes, Stacks, NEW x \in Clock!Contexts
  PROVE  /\ TopOf(x) \in Frames /\ BaseOf(x) \in Frames
         /\ Depth(x) = 1 \/ Depth(x) = 2
         /\ Depth(x) = 1 => TopOf(x) = BaseOf(x)
         /\ x \in Clock!Threads => BaseOf(x).pc \in ThreadPcs
         /\ x \notin Clock!Threads => BaseOf(x).pc \in SchedPcs
         /\ Depth(x) = 2 => /\ TopOf(x).pc \in HandlerPcs
                            /\ x \notin Clock!Threads => TopOf(x).pc \notin {"yield", "yielded"}
                            /\ BaseOf(x).pc \in Awake \cup Calm /\ ~BaseOf(x).spins
         /\ TopOf(x).spins => TopOf(x).pc \in SpinPcs
         /\ stack[x] \in Seq(Frames) /\ Head(stack[x]) = TopOf(x)
<1>1. stack[x] \in Seq(Frames) /\ (Len(stack[x]) = 1 \/ Len(stack[x]) = 2)
  BY DEF ClockTypes, Stacks, StackShape, Depth
<1>2. 1 \in 1..Len(stack[x]) /\ Len(stack[x]) \in 1..Len(stack[x])
  BY ONLY <1>1
<1>3. stack[x][1] \in Frames /\ stack[x][Len(stack[x])] \in Frames
  BY ONLY <1>1, <1>2, ElementOfSeq
<1>4. Head(stack[x]) = stack[x][1]
  BY <1>1
<1>5. StackShape(x)
  BY DEF Stacks
<1>6. Depth(x) = 1 => TopOf(x) = BaseOf(x)
  BY DEF Depth, TopOf, BaseOf
<1>q. QED
  BY <1>1, <1>3, <1>4, <1>5, <1>6 DEF StackShape, Depth, TopOf, BaseOf

\* A CPU goes on in the context that it runs.
Kind(p, q, x) ==
  \/ p \in ThreadPcs /\ q \in ThreadPcs
  \/ p \in SchedPcs /\ q \in SchedPcs
  \/ p \in HandlerPcs /\ q \in HandlerPcs /\ (x \notin Clock!Threads => q \notin {"yield", "yielded"})
Move(c, y, f) ==
  /\ y \in CpuT /\ y.thread = cpu[c].thread /\ f \in Frames
  /\ cpu' = [cpu EXCEPT ![c] = y]
  /\ stack' = Clock!Place(f, Clock!Ctx(c))
  /\ Kind(TopOf(Clock!Ctx(c)).pc, f.pc, Clock!Ctx(c))
  /\ f.pc \notin {"slept", "yielded", "forkret"} /\ (f.spins => f.pc \in SpinPcs)
  /\ TopOf(Clock!Ctx(c)).pc # "scan"
  /\ Mode(y, f, scan[c].ran)
Moved(c, f) ==
  /\ \A d \in Clock!Cpus : Clock!Ctx(d)' = Clock!Ctx(d) /\ TopOf(Clock!Ctx(d))' = IF d = c THEN f
       ELSE TopOf(Clock!Ctx(d))
  /\ \A t \in Clock!Threads : BaseOf(t)' = IF t = Clock!Ctx(c) /\ Depth(t) = 1 THEN f ELSE BaseOf(t)
StatesKept == \A t \in Clock!Threads :
  \/ thread'[t].state = thread[t].state
  \/ thread[t].state = "sleeping" /\ thread'[t].state = "runnable"

LEMMA MoveKeeps ==
  ASSUME ClockInv, NEW c \in Clock!Cpus, NEW y, NEW f, Move(c, y, f), StatesKept, scan' = scan
  PROVE  /\ Stacks' /\ Placement' /\ Modes' /\ Moved(c, f)
         /\ stack' \in [Clock!Contexts -> Seq(Frames)] /\ cpu' \in [Clock!Cpus -> CpuT]
<1> DEFINE k == Clock!Ctx(c)
<1>0. cpu \in [Clock!Cpus -> CpuT] /\ stack \in [Clock!Contexts -> Seq(Frames)] /\ Stacks /\ Placement
        /\ Modes /\ ClockTypes
  BY DEF ClockInv, ClockTypes, CpuT
<1>a. /\ \A d \in Clock!Cpus : Clock!Ctx(d) \in Clock!Contexts /\ Clock!Sched(d) \in Clock!Contexts
           /\ Clock!Sched(d) \notin Clock!Threads
      /\ \A d, o \in Clock!Cpus : Clock!Ctx(d) = Clock!Ctx(o) => d = o
      /\ \A d, o \in Clock!Cpus : Clock!Sched(d) = Clock!Sched(o) => d = o
      /\ \A d \in Clock!Cpus : Clock!Ctx(d) = IF cpu[d].thread = Clock!None THEN Clock!Sched(d)
           ELSE cpu[d].thread
      /\ \A d \in Clock!Cpus : cpu[d].thread # Clock!None => cpu[d].thread \in Clock!Threads
      /\ Clock!Threads \subseteq Clock!Contexts /\ Clock!None \notin Clock!Threads
  BY <1>0, Apart
<1>b. Becomes(k, Depth(k), f, IF Depth(k) = 1 THEN f ELSE BaseOf(k))
        /\ stack' \in [Clock!Contexts -> Seq(Frames)]
  BY <1>0, <1>a, PlaceIs DEF Move
<1>c. cpu' \in [Clock!Cpus -> CpuT] /\ \A d \in Clock!Cpus : cpu'[d] = IF d = c THEN y ELSE cpu[d]
  BY <1>0 DEF Move
<1>d. \A d \in Clock!Cpus : cpu'[d].thread = cpu[d].thread
  BY <1>c DEF Move
<1>e. \A d \in Clock!Cpus : Clock!Ctx(d)' = Clock!Ctx(d)
  BY <1>d DEF Clock!Ctx
<1>1. Moved(c, f)
  <2>1. \A d \in Clock!Cpus : TopOf(Clock!Ctx(d))' = IF d = c THEN f ELSE TopOf(Clock!Ctx(d))
    <3> TAKE d \in Clock!Cpus
    <3>1. TopOf(Clock!Ctx(d))' = stack'[Clock!Ctx(d)'][1]
            /\ TopOf(Clock!Ctx(d)) = stack[Clock!Ctx(d)][1]
      BY DEF TopOf
    <3>2. stack'[Clock!Ctx(d)][1] = IF Clock!Ctx(d) = k THEN f ELSE stack[Clock!Ctx(d)][1]
      BY <1>a, <1>b DEF Becomes, TopOf
    <3>q. QED
      BY <3>1, <3>2, <1>e, <1>a
  <2>2. \A t \in Clock!Threads : BaseOf(t)' = IF t = k /\ Depth(t) = 1 THEN f ELSE BaseOf(t)
    BY <1>a, <1>b DEF Becomes
  <2>q. QED
    BY <2>1, <2>2, <1>e DEF Moved
<1>s. \A x \in Clock!Contexts : StackShape(x)
  BY <1>0 DEF Stacks
<1>2. Stacks'
  <2> SUFFICES ASSUME NEW x \in Clock!Contexts PROVE StackShape(x)'
    BY DEF Stacks
  <2>1. StackShape(x)
    BY <1>s
  <2>2. /\ Depth(x)' = Depth(x)
        /\ TopOf(x)' = IF x = k THEN f ELSE TopOf(x)
        /\ BaseOf(x)' = IF x = k /\ Depth(k) = 1 THEN f ELSE BaseOf(x)
    BY <1>b DEF Becomes
  <2>3. Depth(x) = 1 => TopOf(x) = BaseOf(x)
    BY <1>0, Shapes
  <2> HIDE DEF k
  <2>4. CASE x # k
    BY <2>1, <2>2, <2>4 DEF StackShape
  <2>5. CASE x = k
    <3>1. Kind(TopOf(k).pc, f.pc, k) /\ (f.spins => f.pc \in SpinPcs)
      BY DEF Move, k
    <3>q. QED
      BY <2>1, <2>2, <2>3, <2>5, <3>1
      DEF StackShape, Kind, ThreadPcs, SchedPcs, HandlerPcs, Awake, Calm
  <2>q. QED
    BY <2>4, <2>5
<1>3. Placement'
  <2>1. \A d \in Clock!Cpus : Placed(d)'
    <3> SUFFICES ASSUME NEW d \in Clock!Cpus, cpu'[d].thread # Clock!None PROVE Placed(d)'
      BY DEF Placed
    <3>1. cpu[d].thread # Clock!None /\ Placed(d)
      BY <1>0, <1>d DEF Placement
    <3>2. Clock!Sched(d) # k
      BY <1>a, <3>1
    <3>3. Depth(Clock!Sched(d))' = Depth(Clock!Sched(d))
            /\ TopOf(Clock!Sched(d))' = TopOf(Clock!Sched(d))
      BY <1>a, <1>b, <3>2 DEF Becomes
    <3>4. thread'[cpu[d].thread].state = "running"
      BY <3>1, <1>a DEF Placed, StatesKept
    <3>q. QED
      BY <3>1, <3>3, <3>4, <1>d DEF Placed
  <2>2. \A d \in Clock!Cpus : BaseOf(Clock!Sched(d))'.pc # "scan" => ~scan'[d].ran
    <3> SUFFICES ASSUME NEW d \in Clock!Cpus, BaseOf(Clock!Sched(d))'.pc # "scan" PROVE ~scan[d].ran
      OBVIOUS
    <3>1. BaseOf(Clock!Sched(d)).pc # "scan" => ~scan[d].ran
      BY <1>0 DEF Placement
    <3>2. BaseOf(Clock!Sched(d))' = IF Clock!Sched(d) = k /\ Depth(k) = 1 THEN f
            ELSE BaseOf(Clock!Sched(d))
      BY <1>a, <1>b DEF Becomes
    <3>3. Clock!Sched(d) = k /\ Depth(k) = 1 => BaseOf(Clock!Sched(d)).pc # "scan"
      BY <1>0, <1>a, Shapes DEF Move
    <3>q. QED
      BY <3>1, <3>2, <3>3
  <2>3. ASSUME NEW t \in Clock!Threads
        PROVE  /\ thread'[t].state # "running" => TopOf(t)'.pc \in {"forkret", "yielded", "slept"}
               /\ thread'[t].state = "sleeping" => TopOf(t)'.pc = "slept"
    <3>1. t = k => thread[t].state = "running"
      <4>1. Placed(c)
        BY <1>0 DEF Placement
      <4>2. t = k => cpu[c].thread = t /\ cpu[c].thread # Clock!None
        BY <1>a
      <4>q. QED
        BY <4>1, <4>2 DEF Placed
    <3>2. thread'[t].state # "running" => thread[t].state # "running" /\ TopOf(t)' = TopOf(t)
      BY <1>a, <1>b, <3>1 DEF Becomes, StatesKept
    <3>3. /\ thread[t].state # "running" => TopOf(t).pc \in {"forkret", "yielded", "slept"}
          /\ thread[t].state = "sleeping" => TopOf(t).pc = "slept"
      BY <1>0 DEF Placement
    <3>q. QED
      BY <3>2, <3>3 DEF StatesKept
  <2>q. QED
    BY <2>1, <2>2, <2>3 DEF Placement
<1>4. Modes'
  <2>1. ASSUME NEW d \in Clock!Cpus PROVE Mode(cpu'[d], TopOf(Clock!Ctx(d))', scan'[d].ran)
    BY <1>0, <1>1, <1>c DEF Moved, Modes, Move
  <2>2. ASSUME NEW t \in Clock!Threads
        PROVE  /\ TopOf(t)'.pc = "slept" => TopOf(t)'.intena
               /\ TopOf(t)'.pc = "yielded" => ~TopOf(t)'.intena
    <3>1. TopOf(t)' = IF t = k THEN f ELSE TopOf(t)
      BY <1>a, <1>b DEF Becomes
    <3>q. QED
      BY <3>1, <1>0 DEF Modes, Move
  <2>q. QED
    BY <2>1, <2>2 DEF Modes
<1>q. QED
  BY <1>1, <1>2, <1>3, <1>4, <1>b, <1>c

LEMMA CpuFields ==
  ASSUME NEW x \in CpuT, NEW g \in BOOLEAN, NEW m \in 0..2, NEW b \in BOOLEAN
  PROVE  [x EXCEPT !.flag = g, !.intena = b, !.ncli = m] \in CpuT
BY DEF CpuT

LEMMA CpuStates ==
  ASSUME NEW x \in CpuT
  PROVE  /\ x.ncli < 2 =>
              /\ Clock!pushcli(x) \in CpuT /\ Clock!pushcli(x).thread = x.thread
              /\ Clock!pushcli(x).ncli = x.ncli + 1 /\ Clock!pushcli(x).flag = FALSE
              /\ Clock!pushcli(x).intena = IF x.ncli = 0 THEN x.flag ELSE x.intena
         /\ x.ncli > 0 =>
              /\ Clock!popcli(x) \in CpuT /\ Clock!popcli(x).thread = x.thread
              /\ Clock!popcli(x).ncli = x.ncli - 1 /\ Clock!popcli(x).flag = (x.ncli = 1 /\ x.intena)
              /\ Clock!popcli(x).intena = (x.ncli > 1 /\ x.intena)
<1> USE DEF CpuT, Clock!pushcli, Clock!popcli
<1>1. x.ncli < 2 => Clock!pushcli(x).thread = x.thread /\ Clock!pushcli(x).ncli = x.ncli + 1
        /\ Clock!pushcli(x).flag = FALSE
  OBVIOUS
<1>2. x.ncli < 2 => Clock!pushcli(x).intena = IF x.ncli = 0 THEN x.flag ELSE x.intena
  OBVIOUS
<1>a. x.ncli \in 0..2 /\ x.thread \in Clock!Threads \cup {Clock!None} /\ x.flag \in BOOLEAN
        /\ x.intena \in BOOLEAN
  OBVIOUS
<1>3. x.ncli < 2 => Clock!pushcli(x) \in CpuT
  <2> SUFFICES ASSUME x.ncli < 2 PROVE Clock!pushcli(x) \in CpuT
    OBVIOUS
  <2> DEFINE g == FALSE
             b == IF x.ncli = 0 THEN x.flag ELSE x.intena
             m == x.ncli + 1
  <2>1. m \in 0..2 /\ g \in BOOLEAN /\ b \in BOOLEAN
    BY <1>a
  <2>2. Clock!pushcli(x) = [x EXCEPT !.flag = g, !.intena = b, !.ncli = m]
    BY Zenon
  <2> HIDE DEF Clock!pushcli, CpuT, g, b, m
  <2>3. [x EXCEPT !.flag = g, !.intena = b, !.ncli = m] \in CpuT
    BY <2>1, CpuFields
  <2>q. QED
    BY <2>2, <2>3
<1>4. x.ncli > 0 => Clock!popcli(x).thread = x.thread /\ Clock!popcli(x).ncli = x.ncli - 1
  OBVIOUS
<1>5. x.ncli > 0 => Clock!popcli(x).flag = (x.ncli = 1 /\ x.intena)
  OBVIOUS
<1>6. x.ncli > 0 => Clock!popcli(x).intena = (x.ncli > 1 /\ x.intena)
  OBVIOUS
<1>7. x.ncli > 0 => Clock!popcli(x) \in CpuT
  <2> SUFFICES ASSUME x.ncli > 0 PROVE Clock!popcli(x) \in CpuT
    OBVIOUS
  <2> DEFINE g == x.ncli = 1 /\ x.intena
             b == x.ncli > 1 /\ x.intena
             m == x.ncli - 1
  <2>1. m \in 0..2 /\ g \in BOOLEAN /\ b \in BOOLEAN
    BY <1>a
  <2>2. Clock!popcli(x) = [x EXCEPT !.flag = g, !.intena = b, !.ncli = m]
    BY Zenon
  <2> HIDE DEF Clock!popcli, CpuT, g, b, m
  <2>3. [x EXCEPT !.flag = g, !.intena = b, !.ncli = m] \in CpuT
    BY <2>1, CpuFields
  <2>q. QED
    BY <2>2, <2>3
<1>q. QED
  BY ONLY <1>1, <1>2, <1>3, <1>4, <1>5, <1>6, <1>7

LEMMA ModeIs ==
  ASSUME NEW x \in CpuT, NEW f \in Frames, NEW ran
  PROVE  /\ f.pc = "sleep" => (Mode(x, f, ran) <=> x.ncli = (IF f.spins THEN 1 ELSE 0)
                    /\ (x.flag <=> ~f.spins) /\ (f.spins => x.intena))
         /\ f.pc = "again" => (Mode(x, f, ran) <=> x.ncli = (IF f.spins THEN 1 ELSE 0)
                    /\ (x.flag <=> ~f.spins) /\ (f.spins => x.intena))
         /\ f.pc = "acquire" => (Mode(x, f, ran) <=> x.ncli = (IF f.spins THEN 1 ELSE 0)
                    /\ (x.flag <=> ~f.spins) /\ (f.spins => x.intena))
         /\ f.pc = "user" /\ ~f.spins => (Mode(x, f, ran) <=> x.ncli = 0 /\ x.flag)
         /\ f.pc = "return" /\ ~f.spins => (Mode(x, f, ran) <=> x.ncli = 0 /\ x.flag)
         /\ f.pc = "hlt" /\ ~f.spins => (Mode(x, f, ran) <=> x.ncli = 0 /\ x.flag)
         /\ f.pc = "test" /\ ~f.spins => (Mode(x, f, ran) <=> x.ncli = 1 /\ ~x.flag /\ x.intena)
         /\ f.pc = "sleep1" => (Mode(x, f, ran) <=> x.ncli = (IF f.spins THEN 2 ELSE 1) /\ ~x.flag
                    /\ x.intena)
         /\ f.pc = "tick" => (Mode(x, f, ran) <=> x.ncli = (IF f.spins THEN 1 ELSE 0) /\ ~x.flag
                    /\ (f.spins => ~x.intena))
         /\ f.pc = "yield" => (Mode(x, f, ran) <=> x.ncli = (IF f.spins THEN 1 ELSE 0) /\ ~x.flag
                    /\ (f.spins => ~x.intena))
         /\ f.pc = "wakeup" => (Mode(x, f, ran) <=> x.ncli = (IF f.spins THEN 2 ELSE 1) /\ ~x.flag
                    /\ ~x.intena)
         /\ f.pc = "ticked" /\ ~f.spins => (Mode(x, f, ran) <=> x.ncli = 1 /\ ~x.flag /\ ~x.intena)
         /\ f.pc = "iret" /\ ~f.spins => (Mode(x, f, ran) <=> x.ncli = 0 /\ ~x.flag)
         /\ f.pc = "yielded" /\ ~f.spins => (Mode(x, f, ran) <=> x.ncli = 1 /\ ~x.flag)
         /\ f.pc = "slept" /\ ~f.spins => (Mode(x, f, ran) <=> x.ncli = 1 /\ ~x.flag)
         /\ f.pc = "forkret" /\ ~f.spins => (Mode(x, f, ran) <=> x.ncli = 1 /\ ~x.flag)
         /\ f.pc = "scan" /\ ~f.spins => (Mode(x, f, ran) <=> x.ncli = 1 /\ ~x.flag
                    /\ (~ran => x.intena))
         /\ f.pc = "loop" /\ ~f.spins => (Mode(x, f, ran) <=> x.ncli = 0)
<1> USE DEF Mode, Held, TicksPcs, PtablePcs, HandlerPcs, Awake, CpuT
<1>1. f.pc = "sleep" => (Mode(x, f, ran) <=> x.ncli = (IF f.spins THEN 1 ELSE 0)
              /\ (x.flag <=> ~f.spins) /\ (f.spins => x.intena))
  OBVIOUS
<1>2. f.pc = "again" => (Mode(x, f, ran) <=> x.ncli = (IF f.spins THEN 1 ELSE 0)
              /\ (x.flag <=> ~f.spins) /\ (f.spins => x.intena))
  OBVIOUS
<1>3. f.pc = "acquire" => (Mode(x, f, ran) <=> x.ncli = (IF f.spins THEN 1 ELSE 0)
              /\ (x.flag <=> ~f.spins) /\ (f.spins => x.intena))
  OBVIOUS
<1>4. f.pc = "user" /\ ~f.spins => (Mode(x, f, ran) <=> x.ncli = 0 /\ x.flag)
  OBVIOUS
<1>5. f.pc = "return" /\ ~f.spins => (Mode(x, f, ran) <=> x.ncli = 0 /\ x.flag)
  OBVIOUS
<1>6. f.pc = "hlt" /\ ~f.spins => (Mode(x, f, ran) <=> x.ncli = 0 /\ x.flag)
  OBVIOUS
<1>7. f.pc = "test" /\ ~f.spins => (Mode(x, f, ran) <=> x.ncli = 1 /\ ~x.flag /\ x.intena)
  OBVIOUS
<1>8. f.pc = "sleep1" => (Mode(x, f, ran) <=> x.ncli = (IF f.spins THEN 2 ELSE 1) /\ ~x.flag
              /\ x.intena)
  OBVIOUS
<1>9. f.pc = "tick" => (Mode(x, f, ran) <=> x.ncli = (IF f.spins THEN 1 ELSE 0) /\ ~x.flag
              /\ (f.spins => ~x.intena))
  OBVIOUS
<1>10. f.pc = "yield" => (Mode(x, f, ran) <=> x.ncli = (IF f.spins THEN 1 ELSE 0) /\ ~x.flag
               /\ (f.spins => ~x.intena))
  OBVIOUS
<1>11. f.pc = "wakeup" => (Mode(x, f, ran) <=> x.ncli = (IF f.spins THEN 2 ELSE 1) /\ ~x.flag
               /\ ~x.intena)
  OBVIOUS
<1>12. f.pc = "ticked" /\ ~f.spins => (Mode(x, f, ran) <=> x.ncli = 1 /\ ~x.flag /\ ~x.intena)
  OBVIOUS
<1>13. f.pc = "iret" /\ ~f.spins => (Mode(x, f, ran) <=> x.ncli = 0 /\ ~x.flag)
  OBVIOUS
<1>14. f.pc = "yielded" /\ ~f.spins => (Mode(x, f, ran) <=> x.ncli = 1 /\ ~x.flag)
  OBVIOUS
<1>15. f.pc = "slept" /\ ~f.spins => (Mode(x, f, ran) <=> x.ncli = 1 /\ ~x.flag)
  OBVIOUS
<1>16. f.pc = "forkret" /\ ~f.spins => (Mode(x, f, ran) <=> x.ncli = 1 /\ ~x.flag)
  OBVIOUS
<1>17. f.pc = "scan" /\ ~f.spins => (Mode(x, f, ran) <=> x.ncli = 1 /\ ~x.flag /\ (~ran => x.intena))
  OBVIOUS
<1>18. f.pc = "loop" /\ ~f.spins => (Mode(x, f, ran) <=> x.ncli = 0)
  OBVIOUS
<1>q. QED
   BY ONLY <1>1, <1>2, <1>3, <1>4, <1>5, <1>6, <1>7, <1>8, <1>9, <1>10, <1>11, <1>12, <1>13, <1>14,
       <1>15, <1>16, <1>17, <1>18, Zenon

LEMMA CpuIs ==
  ASSUME NEW x \in CpuT
  PROVE  /\ x.ncli \in 0..2 /\ x.flag \in BOOLEAN /\ x.intena \in BOOLEAN
         /\ x.thread = Clock!None \/ x.thread \in Clock!Threads
BY DEF CpuT

LEMMA FrameIs ==
  ASSUME NEW f \in Frames
  PROVE  f.spins \in BOOLEAN /\ f.intena \in BOOLEAN
BY DEF Frames

LEMMA GotIs ==
  ASSUME NEW c \in Clock!Cpus, cpu[c] \in CpuT, Clock!Top(c).spins \in BOOLEAN, ~Clock!Top(c).spins
         => cpu[c].ncli < 2
  PROVE  /\ Clock!Got(c) \in CpuT /\ Clock!Got(c).thread = cpu[c].thread
         /\ Clock!Got(c).ncli = IF Clock!Top(c).spins THEN cpu[c].ncli ELSE cpu[c].ncli + 1
         /\ Clock!Got(c).flag = IF Clock!Top(c).spins THEN cpu[c].flag ELSE FALSE
         /\ Clock!Got(c).intena = IF ~Clock!Top(c).spins /\ cpu[c].ncli = 0 THEN cpu[c].flag
              ELSE cpu[c].intena
<1>1. CASE Clock!Top(c).spins
  BY <1>1 DEF Clock!Got
<1>2. CASE ~Clock!Top(c).spins
  <2>1. Clock!Got(c) = Clock!pushcli(cpu[c])
    BY <1>2 DEF Clock!Got
  <2>2. /\ Clock!pushcli(cpu[c]) \in CpuT /\ Clock!pushcli(cpu[c]).thread = cpu[c].thread
        /\ Clock!pushcli(cpu[c]).ncli = cpu[c].ncli + 1 /\ Clock!pushcli(cpu[c]).flag = FALSE
        /\ Clock!pushcli(cpu[c]).intena = IF cpu[c].ncli = 0 THEN cpu[c].flag ELSE cpu[c].intena
    BY <1>2, CpuStates
  <2>q. QED
    BY <1>2, <2>1, <2>2
<1>q. QED
  BY <1>1, <1>2

LEMMA SpinIs ==
  ASSUME NEW f \in Frames
  PROVE  /\ [f EXCEPT !.spins = TRUE] \in Frames
         /\ [f EXCEPT !.spins = TRUE].pc = f.pc /\ [f EXCEPT !.spins = TRUE].spins = TRUE
<1> DEFINE P == ThreadPcs \cup SchedPcs \cup HandlerPcs
<1>1. Frames = [pc : P, spins : BOOLEAN, intena : BOOLEAN]
  BY Zenon DEF Frames
<1> HIDE DEF P
<1>2. f \in [pc : P, spins : BOOLEAN, intena : BOOLEAN]
  BY <1>1
<1>3. [f EXCEPT !.spins = TRUE] \in [pc : P, spins : BOOLEAN, intena : BOOLEAN]
  BY <1>2
<1>4. [f EXCEPT !.spins = TRUE].pc = f.pc /\ [f EXCEPT !.spins = TRUE].spins = TRUE
  BY <1>2
<1>q. QED
  BY <1>1, <1>3, <1>4

LEMMA SavedIs ==
  ASSUME NEW f \in Frames, NEW p \in ThreadPcs \cup SchedPcs \cup HandlerPcs, NEW b \in BOOLEAN
  PROVE  /\ Clock!Saved(f, p, b) \in Frames
         /\ Clock!Saved(f, p, b).pc = p /\ Clock!Saved(f, p, b).spins = FALSE
         /\ Clock!Saved(f, p, b).intena = b
<1> DEFINE P == ThreadPcs \cup SchedPcs \cup HandlerPcs
<1>1. Frames = [pc : P, spins : BOOLEAN, intena : BOOLEAN]
  BY Zenon DEF Frames
<1> HIDE DEF P
<1>2. f \in [pc : P, spins : BOOLEAN, intena : BOOLEAN] /\ p \in P
  BY <1>1 DEF P
<1>3. [f EXCEPT !.pc = p, !.spins = FALSE, !.intena = b] \in [pc : P, spins : BOOLEAN, intena : BOOLEAN]
  BY <1>2
<1>4. /\ Clock!Saved(f, p, b).pc = p /\ Clock!Saved(f, p, b).spins = FALSE
      /\ Clock!Saved(f, p, b).intena = b
  BY <1>2 DEF Clock!Saved
<1>q. QED
  BY <1>1, <1>3, <1>4 DEF Clock!Saved

\* What is known where a CPU is.
LEMMA Here ==
  ASSUME ClockInv, NEW c \in Clock!Cpus
  PROVE  /\ Clock!Ctx(c) \in Clock!Contexts /\ Clock!Top(c) = TopOf(Clock!Ctx(c))
         /\ TopOf(Clock!Ctx(c)) \in Frames
         /\ cpu[c] \in CpuT /\ Mode(cpu[c], TopOf(Clock!Ctx(c)), scan[c].ran)
         /\ TopOf(Clock!Ctx(c)).pc \in ThreadPcs =>
              /\ Clock!Ctx(c) \in Clock!Threads /\ Clock!Ctx(c) = cpu[c].thread
              /\ Depth(Clock!Ctx(c)) = 1 /\ BaseOf(Clock!Ctx(c)) = TopOf(Clock!Ctx(c))
         /\ TopOf(Clock!Ctx(c)).pc \in SchedPcs =>
              /\ Clock!Ctx(c) \notin Clock!Threads /\ Clock!Ctx(c) = Clock!Sched(c)
              /\ cpu[c].thread = Clock!None
              /\ Depth(Clock!Ctx(c)) = 1 /\ BaseOf(Clock!Ctx(c)) = TopOf(Clock!Ctx(c))
         /\ TopOf(Clock!Ctx(c)).pc \in HandlerPcs => Depth(Clock!Ctx(c)) = 2
         /\ cpu[c].thread # Clock!None => Clock!Ctx(c) = cpu[c].thread
              /\ Clock!Ctx(c) \in Clock!Threads /\ thread[Clock!Ctx(c)].state = "running"
         /\ cpu[c].thread = Clock!None => Clock!Ctx(c) = Clock!Sched(c)
              /\ Clock!Ctx(c) \notin Clock!Threads
         /\ TopOf(Clock!Ctx(c)).pc \in {"yield", "yielded"} => Clock!Ctx(c) \in Clock!Threads
<1>0. cpu \in [Clock!Cpus -> CpuT] /\ ClockTypes /\ Stacks /\ Placement /\ Modes
  BY DEF ClockInv, ClockTypes, CpuT
<1>1. /\ Clock!Ctx(c) \in Clock!Contexts /\ Clock!Sched(c) \notin Clock!Threads
      /\ Clock!Ctx(c) = IF cpu[c].thread = Clock!None THEN Clock!Sched(c) ELSE cpu[c].thread
      /\ cpu[c].thread # Clock!None => cpu[c].thread \in Clock!Threads
  BY <1>0, Apart
<1>2. /\ TopOf(Clock!Ctx(c)) \in Frames
      /\ Depth(Clock!Ctx(c)) = 1 \/ Depth(Clock!Ctx(c)) = 2
      /\ Depth(Clock!Ctx(c)) = 1 => TopOf(Clock!Ctx(c)) = BaseOf(Clock!Ctx(c))
      /\ Clock!Ctx(c) \in Clock!Threads => BaseOf(Clock!Ctx(c)).pc \in ThreadPcs
      /\ Clock!Ctx(c) \notin Clock!Threads => BaseOf(Clock!Ctx(c)).pc \in SchedPcs
      /\ Depth(Clock!Ctx(c)) = 2 => TopOf(Clock!Ctx(c)).pc \in HandlerPcs
      /\ Head(stack[Clock!Ctx(c)]) = TopOf(Clock!Ctx(c))
  BY <1>0, <1>1, Shapes
<1>3. cpu[c] \in CpuT /\ Mode(cpu[c], TopOf(Clock!Ctx(c)), scan[c].ran)
  BY <1>0 DEF Modes
<1>4. \A p \in HandlerPcs : p \notin ThreadPcs /\ p \notin SchedPcs
  BY DEF HandlerPcs, ThreadPcs, SchedPcs, Awake, Calm
<1>5. \A p \in ThreadPcs : p \notin SchedPcs
  BY DEF ThreadPcs, SchedPcs, Awake, Calm
<1>6. cpu[c].thread # Clock!None => thread[cpu[c].thread].state = "running"
  BY <1>0 DEF Placement, Placed
<1>7. TopOf(Clock!Ctx(c)).pc \in {"yield", "yielded"} => Clock!Ctx(c) \in Clock!Threads
  <2>1. ASSUME Clock!Ctx(c) \notin Clock!Threads
               PROVE TopOf(Clock!Ctx(c)).pc \notin {"yield", "yielded"}
    <3>1. Depth(Clock!Ctx(c)) = 2 => TopOf(Clock!Ctx(c)).pc \notin {"yield", "yielded"}
      BY <1>0, <1>1, <2>1, Shapes
    <3>2. Depth(Clock!Ctx(c)) = 1 => TopOf(Clock!Ctx(c)).pc \in SchedPcs
      BY <1>2, <2>1
    <3>3. "yield" \notin SchedPcs /\ "yielded" \notin SchedPcs
      BY DEF SchedPcs, Calm
    <3>q. QED
      BY <1>2, <3>1, <3>2, <3>3
  <2>q. QED
    BY <2>1
<1>q. QED
  BY <1>1, <1>2, <1>3, <1>4, <1>5, <1>6, <1>7 DEF Clock!Top

LEMMA BackIs ==
  ASSUME NEW c \in Clock!Cpus, NEW b \in BOOLEAN, Clock!Restore(c) \in CpuT, Clock!Restore(c).ncli = 1,
         Clock!Restore(c).intena = b
  PROVE  /\ Clock!popcli(Clock!Restore(c)) \in CpuT /\ Clock!popcli(Clock!Restore(c)).ncli = 0
         /\ Clock!popcli(Clock!Restore(c)).thread = Clock!Restore(c).thread
         /\ Clock!popcli(Clock!Restore(c)).flag = b
<1> DEFINE z == Clock!Restore(c)
<1>1. z \in CpuT /\ z.ncli = 1 /\ z.ncli > 0 /\ z.ncli - 1 = 0
  OBVIOUS
<1>b. z.intena = b /\ b \in BOOLEAN
  OBVIOUS
<1> HIDE DEF z
<1>2. /\ Clock!popcli(z) \in CpuT /\ Clock!popcli(z).ncli = z.ncli - 1
      /\ Clock!popcli(z).thread = z.thread
      /\ Clock!popcli(z).flag = (z.ncli = 1 /\ z.intena)
  BY <1>1, CpuStates
<1>3. Clock!popcli(z).flag = b
  BY <1>1, <1>2, <1>b
<1>q. QED
  BY <1>1, <1>2, <1>3 DEF z

LEMMA PopTwo ==
  ASSUME NEW x \in CpuT, x.ncli = 2, x.intena = FALSE
  PROVE  /\ Clock!popcli(x) \in CpuT /\ Clock!popcli(x).ncli = 1 /\ Clock!popcli(x).thread = x.thread
         /\ Clock!popcli(x).flag = FALSE /\ Clock!popcli(x).intena = FALSE
<1>1. x.ncli > 0
  OBVIOUS
<1>2. /\ Clock!popcli(x) \in CpuT /\ Clock!popcli(x).ncli = x.ncli - 1
      /\ Clock!popcli(x).thread = x.thread
      /\ Clock!popcli(x).flag = (x.ncli = 1 /\ x.intena)
      /\ Clock!popcli(x).intena = (x.ncli > 1 /\ x.intena)
  BY <1>1, CpuStates
<1>3. x.ncli - 1 = 1 /\ (x.ncli = 1 /\ x.intena) = FALSE /\ (x.ncli > 1 /\ x.intena) = FALSE
  OBVIOUS
<1>q. QED
  BY <1>2, <1>3

\* What wakeup makes of a thread.
Woken(t) == IF thread[t].state = "sleeping" THEN [thread[t] EXCEPT !.state = "runnable"] ELSE thread[t]

LEMMA WokenIs ==
  ASSUME ClockTypes, NEW t \in Clock!Threads
  PROVE  /\ Woken(t) \in ThreadT
         /\ Woken(t).n = thread[t].n /\ Woken(t).ticks0 = thread[t].ticks0
         /\ Woken(t).killed = thread[t].killed
         /\ Woken(t).waited = thread[t].waited /\ Woken(t).state # "sleeping"
         /\ \/ Woken(t).state = thread[t].state
            \/ thread[t].state = "sleeping" /\ Woken(t).state = "runnable"
<1>1. thread[t] \in ThreadT
  BY DEF ClockTypes
<1>2. CASE thread[t].state = "sleeping"
  <2>1. Woken(t) = [thread[t] EXCEPT !.state = "runnable"]
    BY <1>2 DEF Woken
  <2>2. [thread[t] EXCEPT !.state = "runnable"] \in ThreadT
    BY <1>1
  <2>q. QED
    BY <1>1, <1>2, <2>1, <2>2
<1>3. CASE thread[t].state # "sleeping"
  <2>1. Woken(t) = thread[t]
    BY <1>3 DEF Woken
  <2>2. /\ Woken(t).n = thread[t].n /\ Woken(t).ticks0 = thread[t].ticks0
        /\ Woken(t).killed = thread[t].killed
        /\ Woken(t).waited = thread[t].waited /\ Woken(t).state = thread[t].state
    BY <2>1, Zenon
  <2>3. Woken(t) \in ThreadT
    BY <1>1, <2>1, Zenon
  <2>4. Woken(t).state # "sleeping"
    BY <1>3, <2>2
  <2>q. QED
    BY <2>2, <2>3, <2>4, Zenon
<1>q. QED
  BY <1>2, <1>3

LEMMA ModBelow == ASSUME NEW b \in Nat \ {0}, NEW a \in 0..(b - 1) PROVE a % b = a
  BY SMT
LEMMA ModOnce == ASSUME NEW b \in Nat \ {0}, NEW a \in b..(2 * b - 1) PROVE a % b = a - b
  BY SMT

LEMMA TickIs ==
  ASSUME NEW b \in Nat \ {0}, NEW a \in 0..(b - 1)
  PROVE  (a + 1) % b = IF a = b - 1 THEN 0 ELSE a + 1
<1>1. CASE a = b - 1
  BY <1>1, ModOnce
<1>2. CASE a # b - 1
  BY <1>2, ModBelow
<1>q. QED
  BY <1>1, <1>2

LEMMA ElapsedIs ==
  ASSUME NEW t \in Clock!Threads, thread[t].ticks0 \in 0..(TickWrap - 1),
         thread[t].waited \in 0..(TickWrap - 1), ticks \in 0..(TickWrap - 1),
         thread[t].ticks0 + thread[t].waited = ticks
           \/ thread[t].ticks0 + thread[t].waited = ticks + TickWrap
  PROVE  Clock!Elapsed(t) = thread[t].waited
<1> DEFINE a == ticks - thread[t].ticks0 + TickWrap
<1>1. CASE thread[t].ticks0 + thread[t].waited = ticks
  <2>1. a \in TickWrap..(2 * TickWrap - 1) /\ a - TickWrap = thread[t].waited
    BY <1>1, ClockAssumption
  <2>2. a % TickWrap = a - TickWrap
    BY <2>1, ClockAssumption, ModOnce
  <2>q. QED
    BY <2>1, <2>2 DEF Clock!Elapsed
<1>2. CASE thread[t].ticks0 + thread[t].waited = ticks + TickWrap
  <2>1. a \in 0..(TickWrap - 1) /\ a = thread[t].waited
    BY <1>2, ClockAssumption
  <2>2. a % TickWrap = a
    BY <2>1, ClockAssumption, ModBelow
  <2>q. QED
    BY <2>1, <2>2 DEF Clock!Elapsed
<1>q. QED
  BY <1>1, <1>2

MustWait(t) == Clock!Waits(t) /\ ~thread[t].killed

LEMMA ThreadIs ==
  ASSUME ClockTypes, NEW t \in Clock!Threads
  PROVE  /\ thread[t].ticks0 \in 0..(TickWrap - 1) /\ thread[t].waited \in 0..(TickWrap - 1)
         /\ ticks \in 0..(TickWrap - 1)
         /\ thread[t].n \in Int /\ TickWrap \in Nat \ {0}
<1>1. thread[t].n \in Sleeps \cup {0}
  BY DEF ClockTypes
<1>2. thread[t].n \in Sleeps \/ thread[t].n = 0
  BY <1>1, Zenon
<1>3. thread[t].n \in Int
  <2>1. thread[t].n \in Sleeps => thread[t].n \in Int
    BY ClockAssumption, Zenon
  <2>2. thread[t].n = 0 => thread[t].n \in Int
    OBVIOUS
  <2>q. QED
    BY <1>2, <2>1, <2>2, Zenon
<1>q. QED
  BY <1>3, ClockAssumption DEF ClockTypes

LEMMA SleepersMove ==
  ASSUME ClockInv, NEW c \in Clock!Cpus, NEW f, Moved(c, f), thread' = thread, ticks' = ticks,
         f.pc = "tick" => TopOf(Clock!Ctx(c)).pc = "tick",
         Clock!Ctx(c) \in Clock!Threads /\ Depth(Clock!Ctx(c)) = 1 =>
           LET t == Clock!Ctx(c) IN
           /\ f.pc \in {"slept", "test", "sleep1", "again"} =>
                BaseOf(t).pc \in {"slept", "test", "sleep1", "again"}
           /\ f.pc = "return" => thread[t].killed \/ thread[t].waited >= thread[t].n % TickWrap,
         f.pc = "sleep1" => thread[Clock!Ctx(c)].waited < thread[Clock!Ctx(c)].n % TickWrap,
         WakeComes => WakeComes'
  PROVE  Sleepers'
<1>0. Sleepers
  BY DEF ClockInv
<1>1. TickDue' /\ SleepDue'
  <2>1. TickDue'
    BY <1>0 DEF Sleepers, TickDue, Moved
  <2>2. SleepDue'
    <3> SUFFICES ASSUME NEW d \in Clock!Cpus, TopOf(Clock!Ctx(d))'.pc = "sleep1"
                 PROVE  thread[Clock!Ctx(d)].waited < thread[Clock!Ctx(d)].n % TickWrap
      BY DEF SleepDue, Moved
    <3>q. QED
      BY <1>0 DEF Sleepers, SleepDue, Moved
  <2>q. QED
    BY <2>1, <2>2
<1>2. ASSUME NEW t \in Clock!Threads PROVE Counted(t)' /\ Sleeping(t)'
  <2>1. Counted(t) /\ Sleeping(t)
    BY <1>0 DEF Sleepers
  <2>2. BaseOf(t)' = IF t = Clock!Ctx(c) /\ Depth(t) = 1 THEN f ELSE BaseOf(t)
    BY DEF Moved
  <2>3. Counted(t)'
    BY <2>1, <2>2 DEF Counted
  <2>4. Sleeping(t)'
    BY <2>1, <2>2 DEF Sleeping
  <2>q. QED
    BY <2>3, <2>4
<1>q. QED
  BY <1>1, <1>2 DEF Sleepers

LEMMA LoopKeeps ==
  ASSUME ClockInv, NEW c \in Clock!Cpus, Clock!At(c, "loop"), cpu' = [cpu EXCEPT ![c] = Clock!Loop(@)],
         stack' = Clock!Goto(c, "acquire"), UNCHANGED <<owner, thread, ticks, scan, panic>>
  PROVE  ClockInv'
<1> DEFINE k == Clock!Ctx(c)
           y == Clock!Loop(cpu[c])
           f == Clock!Saved(Clock!Top(c), "acquire", FALSE)
<1>0. ClockTypes /\ Stacks /\ Placement /\ Modes /\ Holders /\ Sleepers
  BY DEF ClockInv
<1>1. /\ ~panic /\ TopOf(k).pc = "loop" /\ Clock!Top(c) = TopOf(k) /\ TopOf(k) \in Frames
      /\ k \in Clock!Contexts
      /\ cpu[c] \in CpuT /\ Mode(cpu[c], TopOf(k), scan[c].ran)
  BY Here DEF Clock!At, Clock!Take, Clock!Goto
<1>2. TopOf(k).spins \in BOOLEAN /\ cpu[c].ncli \in 0..2 /\ cpu[c].flag \in BOOLEAN
        /\ cpu[c].intena \in BOOLEAN
  BY <1>1, CpuIs, FrameIs
<1>3. f \in Frames /\ f.pc = "acquire" /\ f.spins = FALSE
  BY <1>1, SavedIs DEF ThreadPcs, SchedPcs, HandlerPcs, Awake, Calm
<1>n. ~TopOf(k).spins
  BY <1>1, <1>0, Shapes DEF SpinPcs
<1>m. cpu[c].ncli = 0
  BY <1>1, <1>n, ModeIs
<1>4. y \in CpuT /\ y.thread = cpu[c].thread
      /\ y.ncli = cpu[c].ncli /\ y.flag /\ y.intena = cpu[c].intena
  BY <1>1, <1>2 DEF Clock!Loop, CpuT
<1>5. Mode(y, f, scan[c].ran)
  <2> HIDE DEF y, f
  <2>3. (y.ncli = (IF f.spins THEN 1 ELSE 0) /\ (y.flag <=> ~f.spins) /\ (f.spins => y.intena))
    <3>1. CASE TopOf(k).spins
      BY <1>2, <1>3, <1>4, <1>m, <3>1
    <3>2. CASE ~TopOf(k).spins
      BY <1>2, <1>3, <1>4, <1>m, <3>2
    <3>q. QED
      BY <3>1, <3>2
  <2>q. QED
    BY <1>3, <1>4, <2>3, ModeIs
<1>6. /\ cpu' = [cpu EXCEPT ![c] = y] /\ stack' = Clock!Place(f, k)
  BY <1>0, <1>1 DEF ClockTypes, CpuT, Clock!Goto, Clock!ReleaseTo, Clock!Goto
<1>7. Move(c, y, f)
  BY <1>1, <1>3, <1>4, <1>5, <1>6
  DEF Move, Kind, ThreadPcs, SchedPcs, HandlerPcs, Awake, Calm, SpinPcs
<1>8. StatesKept /\ scan' = scan
  BY <1>0 DEF StatesKept, ClockTypes, Clock!ReleaseTo, Clock!Goto
<1>9. /\ Stacks' /\ Placement' /\ Modes' /\ Moved(c, f)
      /\ stack' \in [Clock!Contexts -> Seq(Frames)] /\ cpu' \in [Clock!Cpus -> CpuT]
  BY <1>7, <1>8, MoveKeeps
<1> HIDE DEF y, f
<1>t. ClockTypes'
  <2>1. cpu' \in [Clock!Cpus -> [flag : BOOLEAN, ncli : 0..2, intena : BOOLEAN,
                thread : Clock!Threads \cup {Clock!None}]]
    BY <1>9 DEF CpuT
  <2>2. owner' \in [Clock!Locks -> Clock!Cpus \cup {Clock!None}]
    BY <1>0 DEF ClockTypes, Clock!Take, Clock!ReleaseTo, Clock!Goto
  <2>3. /\ thread' \in [Clock!Threads -> ThreadT]
        /\ ticks' \in 0..(TickWrap - 1)
    BY <1>0, ClockAssumption DEF ClockTypes, Clock!Goto
  <2>4. scan' \in [Clock!Cpus -> [next : Nat, ran : BOOLEAN]] /\ panic' = FALSE
    BY <1>0, <1>1, <1>8 DEF ClockTypes, Clock!Goto
  <2>q. QED
    BY <1>9, <2>1, <2>2, <2>3, <2>4 DEF ClockTypes
<1>h. Holders'
  <2>1. \A d \in Clock!Cpus : TopOf(Clock!Ctx(d))' = IF d = c THEN f ELSE TopOf(Clock!Ctx(d))
    BY <1>9 DEF Moved
  <2>2. \A d \in Clock!Cpus : d # Clock!None /\ d \notin {Clock!None}
    BY DEF Clock!Cpus, Clock!None
  <2>3. \A d \in Clock!Cpus : /\ owner["ticks"] = d <=> TopOf(Clock!Ctx(d)).pc \in TicksPcs
                              /\ owner["ptable"] = d <=> TopOf(Clock!Ctx(d)).pc \in PtablePcs
    BY <1>0 DEF Holders
  <2>4. \A l \in Clock!Locks : owner'[l] = owner[l]
    BY <1>0, <1>1 DEF ClockTypes, Clock!Take, Clock!ReleaseTo, Clock!Locks, Clock!Goto
  <2>5. "ticks" \in Clock!Locks /\ "ptable" \in Clock!Locks
    BY DEF Clock!Locks
  <2>q. QED
     BY <1>1, <1>3, <2>1, <2>2, <2>3, <2>4, <2>5 DEF Holders, TicksPcs, PtablePcs, Clock!Free,
         Clock!Take, Clock!Goto
<1>s. Sleepers'
  <2>1. thread' = thread /\ ticks' = ticks
    BY DEF Clock!ReleaseTo, Clock!Goto
  <2>2. WakeComes => WakeComes'
    <3> SUFFICES ASSUME NEW o \in Clock!Cpus, owner["ticks"] = o, TopOf(Clock!Ctx(o)).pc = "wakeup"
                        PROVE WakeComes'
      BY DEF WakeComes
    <3>1. o # Clock!None
      BY DEF Clock!Cpus, Clock!None
    <3>2. owner'["ticks"] = o
       BY <1>0, <1>1, <3>1 DEF ClockTypes, Clock!Locks, Holders, TicksPcs, Clock!Take, Clock!Free,
           Clock!ReleaseTo, Clock!Goto
    <3>3. TopOf(Clock!Ctx(o))'.pc = "wakeup"
      BY <1>1, <1>3, <1>9 DEF Moved
    <3>q. QED
      BY <3>2, <3>3 DEF WakeComes
  <2>3. k \in Clock!Threads /\ Depth(k) = 1 => BaseOf(k).pc = "loop" /\ Counted(k) /\ Sleeping(k)
    BY <1>0, <1>1, Shapes DEF Sleepers
  <2>4. k \in Clock!Threads /\ Depth(k) = 1 =>
          /\ f.pc \in {"slept", "test", "sleep1", "again"}
               => BaseOf(k).pc \in {"slept", "test", "sleep1", "again"}
          /\ f.pc = "return" => thread[k].killed \/ thread[k].waited >= thread[k].n % TickWrap
    BY <1>3, <2>3 DEF Sleeping
  <2>6. f.pc = "sleep1" => thread[k].waited < thread[k].n % TickWrap
    BY <1>0, <1>1, <1>3 DEF Sleepers, SleepDue
  <2>5. f.pc = "tick" => TopOf(k).pc = "tick"
    BY <1>1, <1>3
  <2>q. QED
    BY <1>9, <2>1, <2>2, <2>4, <2>5, <2>6, SleepersMove
<1>q. QED
  BY <1>9, <1>t, <1>h, <1>s DEF ClockInv

LEMMA AcquireKeeps ==
  ASSUME ClockInv, NEW c \in Clock!Cpus, Clock!Take(c, "acquire", "ptable"),
         cpu' = [cpu EXCEPT ![c] = Clock!Got(c)], stack' = Clock!Goto(c, "scan"),
         UNCHANGED <<thread, ticks, scan, panic>>
  PROVE  ClockInv'
<1> DEFINE k == Clock!Ctx(c)
           y == Clock!Got(c)
           f == Clock!Saved(Clock!Top(c), "scan", FALSE)
<1>0. ClockTypes /\ Stacks /\ Placement /\ Modes /\ Holders /\ Sleepers
  BY DEF ClockInv
<1>1. /\ ~panic /\ TopOf(k).pc = "acquire" /\ Clock!Top(c) = TopOf(k) /\ TopOf(k) \in Frames
      /\ k \in Clock!Contexts
      /\ cpu[c] \in CpuT /\ Mode(cpu[c], TopOf(k), scan[c].ran)
  BY Here DEF Clock!At, Clock!Take, Clock!Goto
<1>2. TopOf(k).spins \in BOOLEAN /\ cpu[c].ncli \in 0..2 /\ cpu[c].flag \in BOOLEAN
        /\ cpu[c].intena \in BOOLEAN
  BY <1>1, CpuIs, FrameIs
<1>3. f \in Frames /\ f.pc = "scan" /\ f.spins = FALSE
  BY <1>1, SavedIs DEF ThreadPcs, SchedPcs, HandlerPcs, Awake, Calm
<1>m. cpu[c].ncli = (IF TopOf(k).spins THEN 1 ELSE 0) /\ (cpu[c].flag <=> ~TopOf(k).spins)
        /\ (TopOf(k).spins => cpu[c].intena)
  BY <1>1, ModeIs
<1>4. y \in CpuT /\ y.thread = cpu[c].thread
      /\ y.ncli = (IF TopOf(k).spins THEN cpu[c].ncli ELSE cpu[c].ncli + 1)
           /\ y.flag = (IF TopOf(k).spins THEN cpu[c].flag ELSE FALSE)
      /\ y.intena = (IF ~TopOf(k).spins /\ cpu[c].ncli = 0 THEN cpu[c].flag ELSE cpu[c].intena)
  <2>1. Clock!Top(c).spins \in BOOLEAN /\ (~Clock!Top(c).spins => cpu[c].ncli < 2)
    BY <1>1, <1>2, <1>m
  <2>2. Clock!Top(c) = TopOf(k) /\ cpu[c] \in CpuT
    BY <1>1
  <2> HIDE DEF k
  <2>q. QED
    BY <2>1, <2>2, GotIs
<1>5. Mode(y, f, scan[c].ran)
  <2> HIDE DEF y, f
  <2>3. (y.ncli = 1 /\ ~y.flag /\ (~scan[c].ran => y.intena))
    <3>1. CASE TopOf(k).spins
      BY <1>2, <1>3, <1>4, <1>m, <3>1
    <3>2. CASE ~TopOf(k).spins
      BY <1>2, <1>3, <1>4, <1>m, <3>2
    <3>q. QED
      BY <3>1, <3>2
  <2>q. QED
    BY <1>3, <1>4, <2>3, ModeIs
<1>6. /\ cpu' = [cpu EXCEPT ![c] = y] /\ stack' = Clock!Place(f, k)
  BY <1>0, <1>1 DEF ClockTypes, CpuT, Clock!Goto, Clock!ReleaseTo, Clock!Goto
<1>7. Move(c, y, f)
  BY <1>1, <1>3, <1>4, <1>5, <1>6
  DEF Move, Kind, ThreadPcs, SchedPcs, HandlerPcs, Awake, Calm, SpinPcs
<1>8. StatesKept /\ scan' = scan
  BY <1>0 DEF StatesKept, ClockTypes, Clock!ReleaseTo, Clock!Goto
<1>9. /\ Stacks' /\ Placement' /\ Modes' /\ Moved(c, f)
      /\ stack' \in [Clock!Contexts -> Seq(Frames)] /\ cpu' \in [Clock!Cpus -> CpuT]
  BY <1>7, <1>8, MoveKeeps
<1> HIDE DEF y, f
<1>t. ClockTypes'
  <2>1. cpu' \in [Clock!Cpus -> [flag : BOOLEAN, ncli : 0..2, intena : BOOLEAN,
                thread : Clock!Threads \cup {Clock!None}]]
    BY <1>9 DEF CpuT
  <2>2. owner' \in [Clock!Locks -> Clock!Cpus \cup {Clock!None}]
    BY <1>0 DEF ClockTypes, Clock!Take, Clock!ReleaseTo, Clock!Goto
  <2>3. /\ thread' \in [Clock!Threads -> ThreadT]
        /\ ticks' \in 0..(TickWrap - 1)
    BY <1>0, ClockAssumption DEF ClockTypes, Clock!Goto
  <2>4. scan' \in [Clock!Cpus -> [next : Nat, ran : BOOLEAN]] /\ panic' = FALSE
    BY <1>0, <1>1, <1>8 DEF ClockTypes, Clock!Goto
  <2>q. QED
    BY <1>9, <2>1, <2>2, <2>3, <2>4 DEF ClockTypes
<1>h. Holders'
  <2>1. \A d \in Clock!Cpus : TopOf(Clock!Ctx(d))' = IF d = c THEN f ELSE TopOf(Clock!Ctx(d))
    BY <1>9 DEF Moved
  <2>2. \A d \in Clock!Cpus : d # Clock!None /\ d \notin {Clock!None}
    BY DEF Clock!Cpus, Clock!None
  <2>3. \A d \in Clock!Cpus : /\ owner["ticks"] = d <=> TopOf(Clock!Ctx(d)).pc \in TicksPcs
                              /\ owner["ptable"] = d <=> TopOf(Clock!Ctx(d)).pc \in PtablePcs
    BY <1>0 DEF Holders
  <2>4. \A l \in Clock!Locks : owner'[l] = IF l = "ptable" THEN c ELSE owner[l]
    BY <1>0, <1>1 DEF ClockTypes, Clock!Take, Clock!ReleaseTo, Clock!Locks, Clock!Goto
  <2>5. "ticks" \in Clock!Locks /\ "ptable" \in Clock!Locks
    BY DEF Clock!Locks
  <2>q. QED
     BY <1>1, <1>3, <2>1, <2>2, <2>3, <2>4, <2>5 DEF Holders, TicksPcs, PtablePcs, Clock!Free,
         Clock!Take, Clock!Goto
<1>s. Sleepers'
  <2>1. thread' = thread /\ ticks' = ticks
    BY DEF Clock!ReleaseTo, Clock!Goto
  <2>2. WakeComes => WakeComes'
    <3> SUFFICES ASSUME NEW o \in Clock!Cpus, owner["ticks"] = o, TopOf(Clock!Ctx(o)).pc = "wakeup"
                        PROVE WakeComes'
      BY DEF WakeComes
    <3>1. o # Clock!None
      BY DEF Clock!Cpus, Clock!None
    <3>2. owner'["ticks"] = o
       BY <1>0, <1>1, <3>1 DEF ClockTypes, Clock!Locks, Holders, TicksPcs, Clock!Take, Clock!Free,
           Clock!ReleaseTo, Clock!Goto
    <3>3. TopOf(Clock!Ctx(o))'.pc = "wakeup"
      BY <1>1, <1>3, <1>9 DEF Moved
    <3>q. QED
      BY <3>2, <3>3 DEF WakeComes
  <2>3. k \in Clock!Threads /\ Depth(k) = 1 => BaseOf(k).pc = "acquire" /\ Counted(k) /\ Sleeping(k)
    BY <1>0, <1>1, Shapes DEF Sleepers
  <2>4. k \in Clock!Threads /\ Depth(k) = 1 =>
          /\ f.pc \in {"slept", "test", "sleep1", "again"}
               => BaseOf(k).pc \in {"slept", "test", "sleep1", "again"}
          /\ f.pc = "return" => thread[k].killed \/ thread[k].waited >= thread[k].n % TickWrap
    BY <1>3, <2>3 DEF Sleeping
  <2>6. f.pc = "sleep1" => thread[k].waited < thread[k].n % TickWrap
    BY <1>0, <1>1, <1>3 DEF Sleepers, SleepDue
  <2>5. f.pc = "tick" => TopOf(k).pc = "tick"
    BY <1>1, <1>3
  <2>q. QED
    BY <1>9, <2>1, <2>2, <2>4, <2>5, <2>6, SleepersMove
<1>q. QED
  BY <1>9, <1>t, <1>h, <1>s DEF ClockInv

LEMMA TickUnlockKeeps ==
  ASSUME ClockInv, NEW c \in Clock!Cpus, Clock!TickUnlock(c)
  PROVE  ClockInv'
<1> DEFINE k == Clock!Ctx(c)
           y == Clock!popcli(cpu[c])
           f == Clock!Saved(Clock!Top(c), Clock!AfterHandler(c), FALSE)
<1>0. ClockTypes /\ Stacks /\ Placement /\ Modes /\ Holders /\ Sleepers
  BY DEF ClockInv
<1>1. /\ ~panic /\ TopOf(k).pc = "ticked" /\ Clock!Top(c) = TopOf(k) /\ TopOf(k) \in Frames
      /\ k \in Clock!Contexts
      /\ cpu[c] \in CpuT /\ Mode(cpu[c], TopOf(k), scan[c].ran)
  BY Here DEF Clock!At, Clock!Take, Clock!TickUnlock
<1>2. TopOf(k).spins \in BOOLEAN /\ cpu[c].ncli \in 0..2 /\ cpu[c].flag \in BOOLEAN
        /\ cpu[c].intena \in BOOLEAN
  BY <1>1, CpuIs, FrameIs
<1>3. f \in Frames /\ f.pc = Clock!AfterHandler(c) /\ f.spins = FALSE
        /\ Clock!AfterHandler(c) \in {"iret", "yield"}
  <2>1. Clock!AfterHandler(c) \in {"iret", "yield"}
    BY DEF Clock!AfterHandler
  <2>2. Clock!AfterHandler(c) \in ThreadPcs \cup SchedPcs \cup HandlerPcs
    BY <2>1 DEF HandlerPcs
  <2>q. QED
    BY <1>1, <2>1, <2>2, SavedIs
<1>n. ~TopOf(k).spins
  BY <1>1, <1>0, Shapes DEF SpinPcs
<1>m. cpu[c].ncli = 1 /\ ~cpu[c].flag /\ ~cpu[c].intena
  BY <1>1, <1>n, ModeIs
<1>4. y \in CpuT /\ y.thread = cpu[c].thread
      /\ y.ncli = cpu[c].ncli - 1 /\ (y.flag <=> cpu[c].ncli = 1 /\ cpu[c].intena)
      /\ y.intena = (cpu[c].ncli > 1 /\ cpu[c].intena)
  <2>1. cpu[c].ncli > 0
    BY <1>1, <1>2, <1>m
  <2>q. QED
    BY <1>1, <2>1, CpuStates
<1>5. Mode(y, f, scan[c].ran)
  <2> HIDE DEF y, f
  <2>3. (f.pc = "iret" => y.ncli = 0 /\ ~y.flag)
          /\ (f.pc = "yield" => y.ncli = (IF f.spins THEN 1 ELSE 0) /\ ~y.flag
                /\ (f.spins => ~y.intena))
    <3>1. CASE TopOf(k).spins
      BY <1>2, <1>3, <1>4, <1>m, <3>1
    <3>2. CASE ~TopOf(k).spins
      BY <1>2, <1>3, <1>4, <1>m, <3>2
    <3>q. QED
      BY <3>1, <3>2
  <2>q. QED
    BY <1>3, <1>4, <2>3, ModeIs
<1>6. /\ cpu' = [cpu EXCEPT ![c] = y] /\ stack' = Clock!Place(f, k)
  BY <1>0, <1>1 DEF ClockTypes, CpuT, Clock!Goto, Clock!ReleaseTo, Clock!TickUnlock
<1>7. Move(c, y, f)
  BY <1>1, <1>3, <1>4, <1>5, <1>6, Here
  DEF Move, Kind, ThreadPcs, SchedPcs, HandlerPcs, Awake, Calm, SpinPcs, Clock!AfterHandler
<1>8. StatesKept /\ scan' = scan
  BY <1>0 DEF StatesKept, ClockTypes, Clock!ReleaseTo, Clock!TickUnlock
<1>9. /\ Stacks' /\ Placement' /\ Modes' /\ Moved(c, f)
      /\ stack' \in [Clock!Contexts -> Seq(Frames)] /\ cpu' \in [Clock!Cpus -> CpuT]
  BY <1>7, <1>8, MoveKeeps
<1> HIDE DEF y, f
<1>t. ClockTypes'
  <2>1. cpu' \in [Clock!Cpus -> [flag : BOOLEAN, ncli : 0..2, intena : BOOLEAN,
                thread : Clock!Threads \cup {Clock!None}]]
    BY <1>9 DEF CpuT
  <2>2. owner' \in [Clock!Locks -> Clock!Cpus \cup {Clock!None}]
    BY <1>0 DEF ClockTypes, Clock!Take, Clock!ReleaseTo, Clock!TickUnlock
  <2>3. /\ thread' \in [Clock!Threads -> ThreadT]
        /\ ticks' \in 0..(TickWrap - 1)
    BY <1>0, ClockAssumption DEF ClockTypes, Clock!TickUnlock
  <2>4. scan' \in [Clock!Cpus -> [next : Nat, ran : BOOLEAN]] /\ panic' = FALSE
    BY <1>0, <1>1, <1>8 DEF ClockTypes, Clock!TickUnlock
  <2>q. QED
    BY <1>9, <2>1, <2>2, <2>3, <2>4 DEF ClockTypes
<1>h. Holders'
  <2>1. \A d \in Clock!Cpus : TopOf(Clock!Ctx(d))' = IF d = c THEN f ELSE TopOf(Clock!Ctx(d))
    BY <1>9 DEF Moved
  <2>2. \A d \in Clock!Cpus : d # Clock!None /\ d \notin {Clock!None}
    BY DEF Clock!Cpus, Clock!None
  <2>3. \A d \in Clock!Cpus : /\ owner["ticks"] = d <=> TopOf(Clock!Ctx(d)).pc \in TicksPcs
                              /\ owner["ptable"] = d <=> TopOf(Clock!Ctx(d)).pc \in PtablePcs
    BY <1>0 DEF Holders
  <2>4. \A l \in Clock!Locks : owner'[l] = IF l = "ticks" THEN Clock!None ELSE owner[l]
    BY <1>0, <1>1 DEF ClockTypes, Clock!Take, Clock!ReleaseTo, Clock!Locks, Clock!TickUnlock
  <2>5. "ticks" \in Clock!Locks /\ "ptable" \in Clock!Locks
    BY DEF Clock!Locks
  <2>q. QED
     BY <1>1, <1>3, <2>1, <2>2, <2>3, <2>4, <2>5 DEF Holders, TicksPcs, PtablePcs, Clock!Free,
         Clock!Take, Clock!TickUnlock
<1>s. Sleepers'
  <2>1. thread' = thread /\ ticks' = ticks
    BY DEF Clock!ReleaseTo, Clock!TickUnlock
  <2>2. WakeComes => WakeComes'
    <3> SUFFICES ASSUME NEW o \in Clock!Cpus, owner["ticks"] = o, TopOf(Clock!Ctx(o)).pc = "wakeup"
                        PROVE WakeComes'
      BY DEF WakeComes
    <3>1. o # Clock!None
      BY DEF Clock!Cpus, Clock!None
    <3>2. owner'["ticks"] = o
       BY <1>0, <1>1, <3>1 DEF ClockTypes, Clock!Locks, Holders, TicksPcs, Clock!Take, Clock!Free,
           Clock!ReleaseTo, Clock!TickUnlock
    <3>3. TopOf(Clock!Ctx(o))'.pc = "wakeup"
      BY <1>1, <1>3, <1>9 DEF Moved
    <3>q. QED
      BY <3>2, <3>3 DEF WakeComes
  <2>3. k \in Clock!Threads /\ Depth(k) = 1 => BaseOf(k).pc = "ticked" /\ Counted(k) /\ Sleeping(k)
    BY <1>0, <1>1, Shapes DEF Sleepers
  <2>4. k \in Clock!Threads /\ Depth(k) = 1 =>
          /\ f.pc \in {"slept", "test", "sleep1", "again"}
               => BaseOf(k).pc \in {"slept", "test", "sleep1", "again"}
          /\ f.pc = "return" => thread[k].killed \/ thread[k].waited >= thread[k].n % TickWrap
    BY <1>3, <2>3 DEF Sleeping
  <2>6. f.pc = "sleep1" => thread[k].waited < thread[k].n % TickWrap
    BY <1>0, <1>1, <1>3 DEF Sleepers, SleepDue
  <2>5. f.pc = "tick" => TopOf(k).pc = "tick"
    BY <1>1, <1>3
  <2>q. QED
    BY <1>9, <2>1, <2>2, <2>4, <2>5, <2>6, SleepersMove
<1>q. QED
  BY <1>9, <1>t, <1>h, <1>s DEF ClockInv

LEMMA SpinTickKeeps ==
  ASSUME ClockInv, NEW c \in Clock!Cpus, Clock!Spin(c, "tick", "ticks")
  PROVE  ClockInv'
<1> DEFINE k == Clock!Ctx(c)
           y == Clock!pushcli(cpu[c])
           f == [Clock!Top(c) EXCEPT !.spins = TRUE]
<1>0. ClockTypes /\ Stacks /\ Placement /\ Modes /\ Holders /\ Sleepers
  BY DEF ClockInv
<1>1. /\ ~panic /\ TopOf(k).pc = "tick" /\ Clock!Top(c) = TopOf(k) /\ TopOf(k) \in Frames
      /\ k \in Clock!Contexts
      /\ cpu[c] \in CpuT /\ Mode(cpu[c], TopOf(k), scan[c].ran)
  BY Here DEF Clock!At, Clock!Take, Clock!Spin
<1>2. TopOf(k).spins \in BOOLEAN /\ cpu[c].ncli \in 0..2 /\ cpu[c].flag \in BOOLEAN
        /\ cpu[c].intena \in BOOLEAN
  BY <1>1, CpuIs, FrameIs
<1>3. f \in Frames /\ f.pc = "tick" /\ f.spins = TRUE
  BY <1>1, SpinIs
<1>m. cpu[c].ncli = (IF TopOf(k).spins THEN 1 ELSE 0) /\ ~cpu[c].flag
        /\ (TopOf(k).spins => ~cpu[c].intena)
  BY <1>1, ModeIs
<1>u. ~TopOf(k).spins
  BY <1>1 DEF Clock!Spin
<1>v. owner["ticks"] # c
  BY <1>0, <1>1 DEF Holders, TicksPcs, PtablePcs
<1>4. y \in CpuT /\ y.thread = cpu[c].thread
      /\ y.ncli = cpu[c].ncli + 1 /\ ~y.flag
      /\ y.intena = (IF cpu[c].ncli = 0 THEN cpu[c].flag ELSE cpu[c].intena)
  <2>1. cpu[c].ncli < 2
    BY <1>2, <1>m, <1>u
  <2>q. QED
    BY <1>1, <1>u, <2>1, CpuStates
<1>5. Mode(y, f, scan[c].ran)
  <2> HIDE DEF y, f
  <2>3. (y.ncli = (IF f.spins THEN 1 ELSE 0) /\ ~y.flag /\ (f.spins => ~y.intena))
    <3>1. CASE TopOf(k).spins
      BY <1>2, <1>3, <1>4, <1>m, <3>1, <1>u
    <3>2. CASE ~TopOf(k).spins
      BY <1>2, <1>3, <1>4, <1>m, <3>2
    <3>q. QED
      BY <3>1, <3>2
  <2>q. QED
    BY <1>3, <1>4, <2>3, ModeIs
<1>6. /\ cpu' = [cpu EXCEPT ![c] = y] /\ stack' = Clock!Place(f, k)
  BY <1>0, <1>1, <1>v DEF ClockTypes, CpuT, Clock!Goto, Clock!ReleaseTo, Clock!Spin
<1>7. Move(c, y, f)
  BY <1>1, <1>3, <1>4, <1>5, <1>6, Here
  DEF Move, Kind, ThreadPcs, SchedPcs, HandlerPcs, Awake, Calm, SpinPcs
<1>8. StatesKept /\ scan' = scan
  BY <1>0 DEF StatesKept, ClockTypes, Clock!ReleaseTo, Clock!Spin
<1>9. /\ Stacks' /\ Placement' /\ Modes' /\ Moved(c, f)
      /\ stack' \in [Clock!Contexts -> Seq(Frames)] /\ cpu' \in [Clock!Cpus -> CpuT]
  BY <1>7, <1>8, MoveKeeps
<1> HIDE DEF y, f
<1>t. ClockTypes'
  <2>1. cpu' \in [Clock!Cpus -> [flag : BOOLEAN, ncli : 0..2, intena : BOOLEAN,
                thread : Clock!Threads \cup {Clock!None}]]
    BY <1>9 DEF CpuT
  <2>2. owner' \in [Clock!Locks -> Clock!Cpus \cup {Clock!None}]
    BY <1>0 DEF ClockTypes, Clock!Take, Clock!ReleaseTo, Clock!Spin
  <2>3. /\ thread' \in [Clock!Threads -> ThreadT]
        /\ ticks' \in 0..(TickWrap - 1)
    BY <1>0, ClockAssumption DEF ClockTypes, Clock!Spin
  <2>4. scan' \in [Clock!Cpus -> [next : Nat, ran : BOOLEAN]] /\ panic' = FALSE
    BY <1>0, <1>1, <1>8, <1>v DEF ClockTypes, Clock!Spin
  <2>q. QED
    BY <1>9, <2>1, <2>2, <2>3, <2>4 DEF ClockTypes
<1>h. Holders'
  <2>1. \A d \in Clock!Cpus : TopOf(Clock!Ctx(d))' = IF d = c THEN f ELSE TopOf(Clock!Ctx(d))
    BY <1>9 DEF Moved
  <2>2. \A d \in Clock!Cpus : d # Clock!None /\ d \notin {Clock!None}
    BY DEF Clock!Cpus, Clock!None
  <2>3. \A d \in Clock!Cpus : /\ owner["ticks"] = d <=> TopOf(Clock!Ctx(d)).pc \in TicksPcs
                              /\ owner["ptable"] = d <=> TopOf(Clock!Ctx(d)).pc \in PtablePcs
    BY <1>0 DEF Holders
  <2>4. \A l \in Clock!Locks : owner'[l] = owner[l]
    BY <1>0, <1>1 DEF ClockTypes, Clock!Take, Clock!ReleaseTo, Clock!Locks, Clock!Spin
  <2>5. "ticks" \in Clock!Locks /\ "ptable" \in Clock!Locks
    BY DEF Clock!Locks
  <2>q. QED
     BY <1>1, <1>3, <2>1, <2>2, <2>3, <2>4, <2>5 DEF Holders, TicksPcs, PtablePcs, Clock!Free,
         Clock!Take, Clock!Spin
<1>s. Sleepers'
  <2>1. thread' = thread /\ ticks' = ticks
    BY DEF Clock!ReleaseTo, Clock!Spin
  <2>2. WakeComes => WakeComes'
    <3> SUFFICES ASSUME NEW o \in Clock!Cpus, owner["ticks"] = o, TopOf(Clock!Ctx(o)).pc = "wakeup"
                        PROVE WakeComes'
      BY DEF WakeComes
    <3>1. o # Clock!None
      BY DEF Clock!Cpus, Clock!None
    <3>2. owner'["ticks"] = o
       BY <1>0, <1>1, <3>1 DEF ClockTypes, Clock!Locks, Holders, TicksPcs, Clock!Take, Clock!Free,
           Clock!ReleaseTo, Clock!Spin
    <3>3. TopOf(Clock!Ctx(o))'.pc = "wakeup"
      BY <1>1, <1>3, <1>9 DEF Moved
    <3>q. QED
      BY <3>2, <3>3 DEF WakeComes
  <2>3. k \in Clock!Threads /\ Depth(k) = 1 => BaseOf(k).pc = "tick" /\ Counted(k) /\ Sleeping(k)
    BY <1>0, <1>1, Shapes DEF Sleepers
  <2>4. k \in Clock!Threads /\ Depth(k) = 1 =>
          /\ f.pc \in {"slept", "test", "sleep1", "again"}
               => BaseOf(k).pc \in {"slept", "test", "sleep1", "again"}
          /\ f.pc = "return" => thread[k].killed \/ thread[k].waited >= thread[k].n % TickWrap
    BY <1>3, <2>3 DEF Sleeping
  <2>6. f.pc = "sleep1" => thread[k].waited < thread[k].n % TickWrap
    BY <1>0, <1>1, <1>3 DEF Sleepers, SleepDue
  <2>5. f.pc = "tick" => TopOf(k).pc = "tick"
    BY <1>1, <1>3
  <2>q. QED
    BY <1>9, <2>1, <2>2, <2>4, <2>5, <2>6, SleepersMove
<1>q. QED
  BY <1>9, <1>t, <1>h, <1>s DEF ClockInv

LEMMA SpinWakeupKeeps ==
  ASSUME ClockInv, NEW c \in Clock!Cpus, Clock!Spin(c, "wakeup", "ptable")
  PROVE  ClockInv'
<1> DEFINE k == Clock!Ctx(c)
           y == Clock!pushcli(cpu[c])
           f == [Clock!Top(c) EXCEPT !.spins = TRUE]
<1>0. ClockTypes /\ Stacks /\ Placement /\ Modes /\ Holders /\ Sleepers
  BY DEF ClockInv
<1>1. /\ ~panic /\ TopOf(k).pc = "wakeup" /\ Clock!Top(c) = TopOf(k) /\ TopOf(k) \in Frames
      /\ k \in Clock!Contexts
      /\ cpu[c] \in CpuT /\ Mode(cpu[c], TopOf(k), scan[c].ran)
  BY Here DEF Clock!At, Clock!Take, Clock!Spin
<1>2. TopOf(k).spins \in BOOLEAN /\ cpu[c].ncli \in 0..2 /\ cpu[c].flag \in BOOLEAN
        /\ cpu[c].intena \in BOOLEAN
  BY <1>1, CpuIs, FrameIs
<1>3. f \in Frames /\ f.pc = "wakeup" /\ f.spins = TRUE
  BY <1>1, SpinIs
<1>m. cpu[c].ncli = (IF TopOf(k).spins THEN 2 ELSE 1) /\ ~cpu[c].flag /\ ~cpu[c].intena
  BY <1>1, ModeIs
<1>u. ~TopOf(k).spins
  BY <1>1 DEF Clock!Spin
<1>v. owner["ptable"] # c
  BY <1>0, <1>1 DEF Holders, TicksPcs, PtablePcs
<1>4. y \in CpuT /\ y.thread = cpu[c].thread
      /\ y.ncli = cpu[c].ncli + 1 /\ ~y.flag
      /\ y.intena = (IF cpu[c].ncli = 0 THEN cpu[c].flag ELSE cpu[c].intena)
  <2>1. cpu[c].ncli < 2
    BY <1>2, <1>m, <1>u
  <2>q. QED
    BY <1>1, <1>u, <2>1, CpuStates
<1>5. Mode(y, f, scan[c].ran)
  <2> HIDE DEF y, f
  <2>3. (y.ncli = (IF f.spins THEN 2 ELSE 1) /\ ~y.flag /\ ~y.intena)
    <3>1. CASE TopOf(k).spins
      BY <1>2, <1>3, <1>4, <1>m, <3>1, <1>u
    <3>2. CASE ~TopOf(k).spins
      BY <1>2, <1>3, <1>4, <1>m, <3>2
    <3>q. QED
      BY <3>1, <3>2
  <2>q. QED
    BY <1>3, <1>4, <2>3, ModeIs
<1>6. /\ cpu' = [cpu EXCEPT ![c] = y] /\ stack' = Clock!Place(f, k)
  BY <1>0, <1>1, <1>v DEF ClockTypes, CpuT, Clock!Goto, Clock!ReleaseTo, Clock!Spin
<1>7. Move(c, y, f)
  BY <1>1, <1>3, <1>4, <1>5, <1>6, Here
  DEF Move, Kind, ThreadPcs, SchedPcs, HandlerPcs, Awake, Calm, SpinPcs
<1>8. StatesKept /\ scan' = scan
  BY <1>0 DEF StatesKept, ClockTypes, Clock!ReleaseTo, Clock!Spin
<1>9. /\ Stacks' /\ Placement' /\ Modes' /\ Moved(c, f)
      /\ stack' \in [Clock!Contexts -> Seq(Frames)] /\ cpu' \in [Clock!Cpus -> CpuT]
  BY <1>7, <1>8, MoveKeeps
<1> HIDE DEF y, f
<1>t. ClockTypes'
  <2>1. cpu' \in [Clock!Cpus -> [flag : BOOLEAN, ncli : 0..2, intena : BOOLEAN,
                thread : Clock!Threads \cup {Clock!None}]]
    BY <1>9 DEF CpuT
  <2>2. owner' \in [Clock!Locks -> Clock!Cpus \cup {Clock!None}]
    BY <1>0 DEF ClockTypes, Clock!Take, Clock!ReleaseTo, Clock!Spin
  <2>3. /\ thread' \in [Clock!Threads -> ThreadT]
        /\ ticks' \in 0..(TickWrap - 1)
    BY <1>0, ClockAssumption DEF ClockTypes, Clock!Spin
  <2>4. scan' \in [Clock!Cpus -> [next : Nat, ran : BOOLEAN]] /\ panic' = FALSE
    BY <1>0, <1>1, <1>8, <1>v DEF ClockTypes, Clock!Spin
  <2>q. QED
    BY <1>9, <2>1, <2>2, <2>3, <2>4 DEF ClockTypes
<1>h. Holders'
  <2>1. \A d \in Clock!Cpus : TopOf(Clock!Ctx(d))' = IF d = c THEN f ELSE TopOf(Clock!Ctx(d))
    BY <1>9 DEF Moved
  <2>2. \A d \in Clock!Cpus : d # Clock!None /\ d \notin {Clock!None}
    BY DEF Clock!Cpus, Clock!None
  <2>3. \A d \in Clock!Cpus : /\ owner["ticks"] = d <=> TopOf(Clock!Ctx(d)).pc \in TicksPcs
                              /\ owner["ptable"] = d <=> TopOf(Clock!Ctx(d)).pc \in PtablePcs
    BY <1>0 DEF Holders
  <2>4. \A l \in Clock!Locks : owner'[l] = owner[l]
    BY <1>0, <1>1 DEF ClockTypes, Clock!Take, Clock!ReleaseTo, Clock!Locks, Clock!Spin
  <2>5. "ticks" \in Clock!Locks /\ "ptable" \in Clock!Locks
    BY DEF Clock!Locks
  <2>q. QED
     BY <1>1, <1>3, <2>1, <2>2, <2>3, <2>4, <2>5 DEF Holders, TicksPcs, PtablePcs, Clock!Free,
         Clock!Take, Clock!Spin
<1>s. Sleepers'
  <2>1. thread' = thread /\ ticks' = ticks
    BY DEF Clock!ReleaseTo, Clock!Spin
  <2>2. WakeComes => WakeComes'
    <3> SUFFICES ASSUME NEW o \in Clock!Cpus, owner["ticks"] = o, TopOf(Clock!Ctx(o)).pc = "wakeup"
                        PROVE WakeComes'
      BY DEF WakeComes
    <3>1. o # Clock!None
      BY DEF Clock!Cpus, Clock!None
    <3>2. owner'["ticks"] = o
       BY <1>0, <1>1, <3>1 DEF ClockTypes, Clock!Locks, Holders, TicksPcs, Clock!Take, Clock!Free,
           Clock!ReleaseTo, Clock!Spin
    <3>3. TopOf(Clock!Ctx(o))'.pc = "wakeup"
      BY <1>1, <1>3, <1>9 DEF Moved
    <3>q. QED
      BY <3>2, <3>3 DEF WakeComes
  <2>3. k \in Clock!Threads /\ Depth(k) = 1 => BaseOf(k).pc = "wakeup" /\ Counted(k) /\ Sleeping(k)
    BY <1>0, <1>1, Shapes DEF Sleepers
  <2>4. k \in Clock!Threads /\ Depth(k) = 1 =>
          /\ f.pc \in {"slept", "test", "sleep1", "again"}
               => BaseOf(k).pc \in {"slept", "test", "sleep1", "again"}
          /\ f.pc = "return" => thread[k].killed \/ thread[k].waited >= thread[k].n % TickWrap
    BY <1>3, <2>3 DEF Sleeping
  <2>6. f.pc = "sleep1" => thread[k].waited < thread[k].n % TickWrap
    BY <1>0, <1>1, <1>3 DEF Sleepers, SleepDue
  <2>5. f.pc = "tick" => TopOf(k).pc = "tick"
    BY <1>1, <1>3
  <2>q. QED
    BY <1>9, <2>1, <2>2, <2>4, <2>5, <2>6, SleepersMove
<1>q. QED
  BY <1>9, <1>t, <1>h, <1>s DEF ClockInv

LEMMA SpinYieldKeeps ==
  ASSUME ClockInv, NEW c \in Clock!Cpus, Clock!Spin(c, "yield", "ptable")
  PROVE  ClockInv'
<1> DEFINE k == Clock!Ctx(c)
           y == Clock!pushcli(cpu[c])
           f == [Clock!Top(c) EXCEPT !.spins = TRUE]
<1>0. ClockTypes /\ Stacks /\ Placement /\ Modes /\ Holders /\ Sleepers
  BY DEF ClockInv
<1>1. /\ ~panic /\ TopOf(k).pc = "yield" /\ Clock!Top(c) = TopOf(k) /\ TopOf(k) \in Frames
      /\ k \in Clock!Contexts
      /\ cpu[c] \in CpuT /\ Mode(cpu[c], TopOf(k), scan[c].ran)
  BY Here DEF Clock!At, Clock!Take, Clock!Spin
<1>2. TopOf(k).spins \in BOOLEAN /\ cpu[c].ncli \in 0..2 /\ cpu[c].flag \in BOOLEAN
        /\ cpu[c].intena \in BOOLEAN
  BY <1>1, CpuIs, FrameIs
<1>3. f \in Frames /\ f.pc = "yield" /\ f.spins = TRUE
  BY <1>1, SpinIs
<1>m. cpu[c].ncli = (IF TopOf(k).spins THEN 1 ELSE 0) /\ ~cpu[c].flag
        /\ (TopOf(k).spins => ~cpu[c].intena)
  BY <1>1, ModeIs
<1>u. ~TopOf(k).spins
  BY <1>1 DEF Clock!Spin
<1>v. owner["ptable"] # c
  BY <1>0, <1>1 DEF Holders, TicksPcs, PtablePcs
<1>4. y \in CpuT /\ y.thread = cpu[c].thread
      /\ y.ncli = cpu[c].ncli + 1 /\ ~y.flag
      /\ y.intena = (IF cpu[c].ncli = 0 THEN cpu[c].flag ELSE cpu[c].intena)
  <2>1. cpu[c].ncli < 2
    BY <1>2, <1>m, <1>u
  <2>q. QED
    BY <1>1, <1>u, <2>1, CpuStates
<1>5. Mode(y, f, scan[c].ran)
  <2> HIDE DEF y, f
  <2>3. (y.ncli = (IF f.spins THEN 1 ELSE 0) /\ ~y.flag /\ (f.spins => ~y.intena))
    <3>1. CASE TopOf(k).spins
      BY <1>2, <1>3, <1>4, <1>m, <3>1, <1>u
    <3>2. CASE ~TopOf(k).spins
      BY <1>2, <1>3, <1>4, <1>m, <3>2
    <3>q. QED
      BY <3>1, <3>2
  <2>q. QED
    BY <1>3, <1>4, <2>3, ModeIs
<1>6. /\ cpu' = [cpu EXCEPT ![c] = y] /\ stack' = Clock!Place(f, k)
  BY <1>0, <1>1, <1>v DEF ClockTypes, CpuT, Clock!Goto, Clock!ReleaseTo, Clock!Spin
<1>7. Move(c, y, f)
  BY <1>1, <1>3, <1>4, <1>5, <1>6, Here
  DEF Move, Kind, ThreadPcs, SchedPcs, HandlerPcs, Awake, Calm, SpinPcs
<1>8. StatesKept /\ scan' = scan
  BY <1>0 DEF StatesKept, ClockTypes, Clock!ReleaseTo, Clock!Spin
<1>9. /\ Stacks' /\ Placement' /\ Modes' /\ Moved(c, f)
      /\ stack' \in [Clock!Contexts -> Seq(Frames)] /\ cpu' \in [Clock!Cpus -> CpuT]
  BY <1>7, <1>8, MoveKeeps
<1> HIDE DEF y, f
<1>t. ClockTypes'
  <2>1. cpu' \in [Clock!Cpus -> [flag : BOOLEAN, ncli : 0..2, intena : BOOLEAN,
                thread : Clock!Threads \cup {Clock!None}]]
    BY <1>9 DEF CpuT
  <2>2. owner' \in [Clock!Locks -> Clock!Cpus \cup {Clock!None}]
    BY <1>0 DEF ClockTypes, Clock!Take, Clock!ReleaseTo, Clock!Spin
  <2>3. /\ thread' \in [Clock!Threads -> ThreadT]
        /\ ticks' \in 0..(TickWrap - 1)
    BY <1>0, ClockAssumption DEF ClockTypes, Clock!Spin
  <2>4. scan' \in [Clock!Cpus -> [next : Nat, ran : BOOLEAN]] /\ panic' = FALSE
    BY <1>0, <1>1, <1>8, <1>v DEF ClockTypes, Clock!Spin
  <2>q. QED
    BY <1>9, <2>1, <2>2, <2>3, <2>4 DEF ClockTypes
<1>h. Holders'
  <2>1. \A d \in Clock!Cpus : TopOf(Clock!Ctx(d))' = IF d = c THEN f ELSE TopOf(Clock!Ctx(d))
    BY <1>9 DEF Moved
  <2>2. \A d \in Clock!Cpus : d # Clock!None /\ d \notin {Clock!None}
    BY DEF Clock!Cpus, Clock!None
  <2>3. \A d \in Clock!Cpus : /\ owner["ticks"] = d <=> TopOf(Clock!Ctx(d)).pc \in TicksPcs
                              /\ owner["ptable"] = d <=> TopOf(Clock!Ctx(d)).pc \in PtablePcs
    BY <1>0 DEF Holders
  <2>4. \A l \in Clock!Locks : owner'[l] = owner[l]
    BY <1>0, <1>1 DEF ClockTypes, Clock!Take, Clock!ReleaseTo, Clock!Locks, Clock!Spin
  <2>5. "ticks" \in Clock!Locks /\ "ptable" \in Clock!Locks
    BY DEF Clock!Locks
  <2>q. QED
     BY <1>1, <1>3, <2>1, <2>2, <2>3, <2>4, <2>5 DEF Holders, TicksPcs, PtablePcs, Clock!Free,
         Clock!Take, Clock!Spin
<1>s. Sleepers'
  <2>1. thread' = thread /\ ticks' = ticks
    BY DEF Clock!ReleaseTo, Clock!Spin
  <2>2. WakeComes => WakeComes'
    <3> SUFFICES ASSUME NEW o \in Clock!Cpus, owner["ticks"] = o, TopOf(Clock!Ctx(o)).pc = "wakeup"
                        PROVE WakeComes'
      BY DEF WakeComes
    <3>1. o # Clock!None
      BY DEF Clock!Cpus, Clock!None
    <3>2. owner'["ticks"] = o
       BY <1>0, <1>1, <3>1 DEF ClockTypes, Clock!Locks, Holders, TicksPcs, Clock!Take, Clock!Free,
           Clock!ReleaseTo, Clock!Spin
    <3>3. TopOf(Clock!Ctx(o))'.pc = "wakeup"
      BY <1>1, <1>3, <1>9 DEF Moved
    <3>q. QED
      BY <3>2, <3>3 DEF WakeComes
  <2>3. k \in Clock!Threads /\ Depth(k) = 1 => BaseOf(k).pc = "yield" /\ Counted(k) /\ Sleeping(k)
    BY <1>0, <1>1, Shapes DEF Sleepers
  <2>4. k \in Clock!Threads /\ Depth(k) = 1 =>
          /\ f.pc \in {"slept", "test", "sleep1", "again"}
               => BaseOf(k).pc \in {"slept", "test", "sleep1", "again"}
          /\ f.pc = "return" => thread[k].killed \/ thread[k].waited >= thread[k].n % TickWrap
    BY <1>3, <2>3 DEF Sleeping
  <2>6. f.pc = "sleep1" => thread[k].waited < thread[k].n % TickWrap
    BY <1>0, <1>1, <1>3 DEF Sleepers, SleepDue
  <2>5. f.pc = "tick" => TopOf(k).pc = "tick"
    BY <1>1, <1>3
  <2>q. QED
    BY <1>9, <2>1, <2>2, <2>4, <2>5, <2>6, SleepersMove
<1>q. QED
  BY <1>9, <1>t, <1>h, <1>s DEF ClockInv

LEMMA SpinAcquireKeeps ==
  ASSUME ClockInv, NEW c \in Clock!Cpus, Clock!Spin(c, "acquire", "ptable")
  PROVE  ClockInv'
<1> DEFINE k == Clock!Ctx(c)
           y == Clock!pushcli(cpu[c])
           f == [Clock!Top(c) EXCEPT !.spins = TRUE]
<1>0. ClockTypes /\ Stacks /\ Placement /\ Modes /\ Holders /\ Sleepers
  BY DEF ClockInv
<1>1. /\ ~panic /\ TopOf(k).pc = "acquire" /\ Clock!Top(c) = TopOf(k) /\ TopOf(k) \in Frames
      /\ k \in Clock!Contexts
      /\ cpu[c] \in CpuT /\ Mode(cpu[c], TopOf(k), scan[c].ran)
  BY Here DEF Clock!At, Clock!Take, Clock!Spin
<1>2. TopOf(k).spins \in BOOLEAN /\ cpu[c].ncli \in 0..2 /\ cpu[c].flag \in BOOLEAN
        /\ cpu[c].intena \in BOOLEAN
  BY <1>1, CpuIs, FrameIs
<1>3. f \in Frames /\ f.pc = "acquire" /\ f.spins = TRUE
  BY <1>1, SpinIs
<1>m. cpu[c].ncli = (IF TopOf(k).spins THEN 1 ELSE 0) /\ (cpu[c].flag <=> ~TopOf(k).spins)
        /\ (TopOf(k).spins => cpu[c].intena)
  BY <1>1, ModeIs
<1>u. ~TopOf(k).spins
  BY <1>1 DEF Clock!Spin
<1>v. owner["ptable"] # c
  BY <1>0, <1>1 DEF Holders, TicksPcs, PtablePcs
<1>4. y \in CpuT /\ y.thread = cpu[c].thread
      /\ y.ncli = cpu[c].ncli + 1 /\ ~y.flag
      /\ y.intena = (IF cpu[c].ncli = 0 THEN cpu[c].flag ELSE cpu[c].intena)
  <2>1. cpu[c].ncli < 2
    BY <1>2, <1>m, <1>u
  <2>q. QED
    BY <1>1, <1>u, <2>1, CpuStates
<1>5. Mode(y, f, scan[c].ran)
  <2> HIDE DEF y, f
  <2>3. (y.ncli = (IF f.spins THEN 1 ELSE 0) /\ (y.flag <=> ~f.spins) /\ (f.spins => y.intena))
    <3>1. CASE TopOf(k).spins
      BY <1>2, <1>3, <1>4, <1>m, <3>1, <1>u
    <3>2. CASE ~TopOf(k).spins
      BY <1>2, <1>3, <1>4, <1>m, <3>2
    <3>q. QED
      BY <3>1, <3>2
  <2>q. QED
    BY <1>3, <1>4, <2>3, ModeIs
<1>6. /\ cpu' = [cpu EXCEPT ![c] = y] /\ stack' = Clock!Place(f, k)
  BY <1>0, <1>1, <1>v DEF ClockTypes, CpuT, Clock!Goto, Clock!ReleaseTo, Clock!Spin
<1>7. Move(c, y, f)
  BY <1>1, <1>3, <1>4, <1>5, <1>6, Here
  DEF Move, Kind, ThreadPcs, SchedPcs, HandlerPcs, Awake, Calm, SpinPcs
<1>8. StatesKept /\ scan' = scan
  BY <1>0 DEF StatesKept, ClockTypes, Clock!ReleaseTo, Clock!Spin
<1>9. /\ Stacks' /\ Placement' /\ Modes' /\ Moved(c, f)
      /\ stack' \in [Clock!Contexts -> Seq(Frames)] /\ cpu' \in [Clock!Cpus -> CpuT]
  BY <1>7, <1>8, MoveKeeps
<1> HIDE DEF y, f
<1>t. ClockTypes'
  <2>1. cpu' \in [Clock!Cpus -> [flag : BOOLEAN, ncli : 0..2, intena : BOOLEAN,
                thread : Clock!Threads \cup {Clock!None}]]
    BY <1>9 DEF CpuT
  <2>2. owner' \in [Clock!Locks -> Clock!Cpus \cup {Clock!None}]
    BY <1>0 DEF ClockTypes, Clock!Take, Clock!ReleaseTo, Clock!Spin
  <2>3. /\ thread' \in [Clock!Threads -> ThreadT]
        /\ ticks' \in 0..(TickWrap - 1)
    BY <1>0, ClockAssumption DEF ClockTypes, Clock!Spin
  <2>4. scan' \in [Clock!Cpus -> [next : Nat, ran : BOOLEAN]] /\ panic' = FALSE
    BY <1>0, <1>1, <1>8, <1>v DEF ClockTypes, Clock!Spin
  <2>q. QED
    BY <1>9, <2>1, <2>2, <2>3, <2>4 DEF ClockTypes
<1>h. Holders'
  <2>1. \A d \in Clock!Cpus : TopOf(Clock!Ctx(d))' = IF d = c THEN f ELSE TopOf(Clock!Ctx(d))
    BY <1>9 DEF Moved
  <2>2. \A d \in Clock!Cpus : d # Clock!None /\ d \notin {Clock!None}
    BY DEF Clock!Cpus, Clock!None
  <2>3. \A d \in Clock!Cpus : /\ owner["ticks"] = d <=> TopOf(Clock!Ctx(d)).pc \in TicksPcs
                              /\ owner["ptable"] = d <=> TopOf(Clock!Ctx(d)).pc \in PtablePcs
    BY <1>0 DEF Holders
  <2>4. \A l \in Clock!Locks : owner'[l] = owner[l]
    BY <1>0, <1>1 DEF ClockTypes, Clock!Take, Clock!ReleaseTo, Clock!Locks, Clock!Spin
  <2>5. "ticks" \in Clock!Locks /\ "ptable" \in Clock!Locks
    BY DEF Clock!Locks
  <2>q. QED
     BY <1>1, <1>3, <2>1, <2>2, <2>3, <2>4, <2>5 DEF Holders, TicksPcs, PtablePcs, Clock!Free,
         Clock!Take, Clock!Spin
<1>s. Sleepers'
  <2>1. thread' = thread /\ ticks' = ticks
    BY DEF Clock!ReleaseTo, Clock!Spin
  <2>2. WakeComes => WakeComes'
    <3> SUFFICES ASSUME NEW o \in Clock!Cpus, owner["ticks"] = o, TopOf(Clock!Ctx(o)).pc = "wakeup"
                        PROVE WakeComes'
      BY DEF WakeComes
    <3>1. o # Clock!None
      BY DEF Clock!Cpus, Clock!None
    <3>2. owner'["ticks"] = o
       BY <1>0, <1>1, <3>1 DEF ClockTypes, Clock!Locks, Holders, TicksPcs, Clock!Take, Clock!Free,
           Clock!ReleaseTo, Clock!Spin
    <3>3. TopOf(Clock!Ctx(o))'.pc = "wakeup"
      BY <1>1, <1>3, <1>9 DEF Moved
    <3>q. QED
      BY <3>2, <3>3 DEF WakeComes
  <2>3. k \in Clock!Threads /\ Depth(k) = 1 => BaseOf(k).pc = "acquire" /\ Counted(k) /\ Sleeping(k)
    BY <1>0, <1>1, Shapes DEF Sleepers
  <2>4. k \in Clock!Threads /\ Depth(k) = 1 =>
          /\ f.pc \in {"slept", "test", "sleep1", "again"}
               => BaseOf(k).pc \in {"slept", "test", "sleep1", "again"}
          /\ f.pc = "return" => thread[k].killed \/ thread[k].waited >= thread[k].n % TickWrap
    BY <1>3, <2>3 DEF Sleeping
  <2>6. f.pc = "sleep1" => thread[k].waited < thread[k].n % TickWrap
    BY <1>0, <1>1, <1>3 DEF Sleepers, SleepDue
  <2>5. f.pc = "tick" => TopOf(k).pc = "tick"
    BY <1>1, <1>3
  <2>q. QED
    BY <1>9, <2>1, <2>2, <2>4, <2>5, <2>6, SleepersMove
<1>q. QED
  BY <1>9, <1>t, <1>h, <1>s DEF ClockInv

LEMMA SpinSleepKeeps ==
  ASSUME ClockInv, NEW c \in Clock!Cpus, Clock!Spin(c, "sleep", "ticks")
  PROVE  ClockInv'
<1> DEFINE k == Clock!Ctx(c)
           y == Clock!pushcli(cpu[c])
           f == [Clock!Top(c) EXCEPT !.spins = TRUE]
<1>0. ClockTypes /\ Stacks /\ Placement /\ Modes /\ Holders /\ Sleepers
  BY DEF ClockInv
<1>1. /\ ~panic /\ TopOf(k).pc = "sleep" /\ Clock!Top(c) = TopOf(k) /\ TopOf(k) \in Frames
      /\ k \in Clock!Contexts
      /\ cpu[c] \in CpuT /\ Mode(cpu[c], TopOf(k), scan[c].ran)
  BY Here DEF Clock!At, Clock!Take, Clock!Spin
<1>2. TopOf(k).spins \in BOOLEAN /\ cpu[c].ncli \in 0..2 /\ cpu[c].flag \in BOOLEAN
        /\ cpu[c].intena \in BOOLEAN
  BY <1>1, CpuIs, FrameIs
<1>3. f \in Frames /\ f.pc = "sleep" /\ f.spins = TRUE
  BY <1>1, SpinIs
<1>m. cpu[c].ncli = (IF TopOf(k).spins THEN 1 ELSE 0) /\ (cpu[c].flag <=> ~TopOf(k).spins)
        /\ (TopOf(k).spins => cpu[c].intena)
  BY <1>1, ModeIs
<1>u. ~TopOf(k).spins
  BY <1>1 DEF Clock!Spin
<1>v. owner["ticks"] # c
  BY <1>0, <1>1 DEF Holders, TicksPcs, PtablePcs
<1>4. y \in CpuT /\ y.thread = cpu[c].thread
      /\ y.ncli = cpu[c].ncli + 1 /\ ~y.flag
      /\ y.intena = (IF cpu[c].ncli = 0 THEN cpu[c].flag ELSE cpu[c].intena)
  <2>1. cpu[c].ncli < 2
    BY <1>2, <1>m, <1>u
  <2>q. QED
    BY <1>1, <1>u, <2>1, CpuStates
<1>5. Mode(y, f, scan[c].ran)
  <2> HIDE DEF y, f
  <2>3. (y.ncli = (IF f.spins THEN 1 ELSE 0) /\ (y.flag <=> ~f.spins) /\ (f.spins => y.intena))
    <3>1. CASE TopOf(k).spins
      BY <1>2, <1>3, <1>4, <1>m, <3>1, <1>u
    <3>2. CASE ~TopOf(k).spins
      BY <1>2, <1>3, <1>4, <1>m, <3>2
    <3>q. QED
      BY <3>1, <3>2
  <2>q. QED
    BY <1>3, <1>4, <2>3, ModeIs
<1>6. /\ cpu' = [cpu EXCEPT ![c] = y] /\ stack' = Clock!Place(f, k)
  BY <1>0, <1>1, <1>v DEF ClockTypes, CpuT, Clock!Goto, Clock!ReleaseTo, Clock!Spin
<1>7. Move(c, y, f)
  BY <1>1, <1>3, <1>4, <1>5, <1>6, Here
  DEF Move, Kind, ThreadPcs, SchedPcs, HandlerPcs, Awake, Calm, SpinPcs
<1>8. StatesKept /\ scan' = scan
  BY <1>0 DEF StatesKept, ClockTypes, Clock!ReleaseTo, Clock!Spin
<1>9. /\ Stacks' /\ Placement' /\ Modes' /\ Moved(c, f)
      /\ stack' \in [Clock!Contexts -> Seq(Frames)] /\ cpu' \in [Clock!Cpus -> CpuT]
  BY <1>7, <1>8, MoveKeeps
<1> HIDE DEF y, f
<1>t. ClockTypes'
  <2>1. cpu' \in [Clock!Cpus -> [flag : BOOLEAN, ncli : 0..2, intena : BOOLEAN,
                thread : Clock!Threads \cup {Clock!None}]]
    BY <1>9 DEF CpuT
  <2>2. owner' \in [Clock!Locks -> Clock!Cpus \cup {Clock!None}]
    BY <1>0 DEF ClockTypes, Clock!Take, Clock!ReleaseTo, Clock!Spin
  <2>3. /\ thread' \in [Clock!Threads -> ThreadT]
        /\ ticks' \in 0..(TickWrap - 1)
    BY <1>0, ClockAssumption DEF ClockTypes, Clock!Spin
  <2>4. scan' \in [Clock!Cpus -> [next : Nat, ran : BOOLEAN]] /\ panic' = FALSE
    BY <1>0, <1>1, <1>8, <1>v DEF ClockTypes, Clock!Spin
  <2>q. QED
    BY <1>9, <2>1, <2>2, <2>3, <2>4 DEF ClockTypes
<1>h. Holders'
  <2>1. \A d \in Clock!Cpus : TopOf(Clock!Ctx(d))' = IF d = c THEN f ELSE TopOf(Clock!Ctx(d))
    BY <1>9 DEF Moved
  <2>2. \A d \in Clock!Cpus : d # Clock!None /\ d \notin {Clock!None}
    BY DEF Clock!Cpus, Clock!None
  <2>3. \A d \in Clock!Cpus : /\ owner["ticks"] = d <=> TopOf(Clock!Ctx(d)).pc \in TicksPcs
                              /\ owner["ptable"] = d <=> TopOf(Clock!Ctx(d)).pc \in PtablePcs
    BY <1>0 DEF Holders
  <2>4. \A l \in Clock!Locks : owner'[l] = owner[l]
    BY <1>0, <1>1 DEF ClockTypes, Clock!Take, Clock!ReleaseTo, Clock!Locks, Clock!Spin
  <2>5. "ticks" \in Clock!Locks /\ "ptable" \in Clock!Locks
    BY DEF Clock!Locks
  <2>q. QED
     BY <1>1, <1>3, <2>1, <2>2, <2>3, <2>4, <2>5 DEF Holders, TicksPcs, PtablePcs, Clock!Free,
         Clock!Take, Clock!Spin
<1>s. Sleepers'
  <2>1. thread' = thread /\ ticks' = ticks
    BY DEF Clock!ReleaseTo, Clock!Spin
  <2>2. WakeComes => WakeComes'
    <3> SUFFICES ASSUME NEW o \in Clock!Cpus, owner["ticks"] = o, TopOf(Clock!Ctx(o)).pc = "wakeup"
                        PROVE WakeComes'
      BY DEF WakeComes
    <3>1. o # Clock!None
      BY DEF Clock!Cpus, Clock!None
    <3>2. owner'["ticks"] = o
       BY <1>0, <1>1, <3>1 DEF ClockTypes, Clock!Locks, Holders, TicksPcs, Clock!Take, Clock!Free,
           Clock!ReleaseTo, Clock!Spin
    <3>3. TopOf(Clock!Ctx(o))'.pc = "wakeup"
      BY <1>1, <1>3, <1>9 DEF Moved
    <3>q. QED
      BY <3>2, <3>3 DEF WakeComes
  <2>3. k \in Clock!Threads /\ Depth(k) = 1 => BaseOf(k).pc = "sleep" /\ Counted(k) /\ Sleeping(k)
    BY <1>0, <1>1, Shapes DEF Sleepers
  <2>4. k \in Clock!Threads /\ Depth(k) = 1 =>
          /\ f.pc \in {"slept", "test", "sleep1", "again"}
               => BaseOf(k).pc \in {"slept", "test", "sleep1", "again"}
          /\ f.pc = "return" => thread[k].killed \/ thread[k].waited >= thread[k].n % TickWrap
    BY <1>3, <2>3 DEF Sleeping
  <2>6. f.pc = "sleep1" => thread[k].waited < thread[k].n % TickWrap
    BY <1>0, <1>1, <1>3 DEF Sleepers, SleepDue
  <2>5. f.pc = "tick" => TopOf(k).pc = "tick"
    BY <1>1, <1>3
  <2>q. QED
    BY <1>9, <2>1, <2>2, <2>4, <2>5, <2>6, SleepersMove
<1>q. QED
  BY <1>9, <1>t, <1>h, <1>s DEF ClockInv

LEMMA SpinSleep1Keeps ==
  ASSUME ClockInv, NEW c \in Clock!Cpus, Clock!Spin(c, "sleep1", "ptable")
  PROVE  ClockInv'
<1> DEFINE k == Clock!Ctx(c)
           y == Clock!pushcli(cpu[c])
           f == [Clock!Top(c) EXCEPT !.spins = TRUE]
<1>0. ClockTypes /\ Stacks /\ Placement /\ Modes /\ Holders /\ Sleepers
  BY DEF ClockInv
<1>1. /\ ~panic /\ TopOf(k).pc = "sleep1" /\ Clock!Top(c) = TopOf(k) /\ TopOf(k) \in Frames
      /\ k \in Clock!Contexts
      /\ cpu[c] \in CpuT /\ Mode(cpu[c], TopOf(k), scan[c].ran)
  BY Here DEF Clock!At, Clock!Take, Clock!Spin
<1>2. TopOf(k).spins \in BOOLEAN /\ cpu[c].ncli \in 0..2 /\ cpu[c].flag \in BOOLEAN
        /\ cpu[c].intena \in BOOLEAN
  BY <1>1, CpuIs, FrameIs
<1>3. f \in Frames /\ f.pc = "sleep1" /\ f.spins = TRUE
  BY <1>1, SpinIs
<1>m. cpu[c].ncli = (IF TopOf(k).spins THEN 2 ELSE 1) /\ ~cpu[c].flag /\ cpu[c].intena
  BY <1>1, ModeIs
<1>u. ~TopOf(k).spins
  BY <1>1 DEF Clock!Spin
<1>v. owner["ptable"] # c
  BY <1>0, <1>1 DEF Holders, TicksPcs, PtablePcs
<1>4. y \in CpuT /\ y.thread = cpu[c].thread
      /\ y.ncli = cpu[c].ncli + 1 /\ ~y.flag
      /\ y.intena = (IF cpu[c].ncli = 0 THEN cpu[c].flag ELSE cpu[c].intena)
  <2>1. cpu[c].ncli < 2
    BY <1>2, <1>m, <1>u
  <2>q. QED
    BY <1>1, <1>u, <2>1, CpuStates
<1>5. Mode(y, f, scan[c].ran)
  <2> HIDE DEF y, f
  <2>3. (y.ncli = (IF f.spins THEN 2 ELSE 1) /\ ~y.flag /\ y.intena)
    <3>1. CASE TopOf(k).spins
      BY <1>2, <1>3, <1>4, <1>m, <3>1, <1>u
    <3>2. CASE ~TopOf(k).spins
      BY <1>2, <1>3, <1>4, <1>m, <3>2
    <3>q. QED
      BY <3>1, <3>2
  <2>q. QED
    BY <1>3, <1>4, <2>3, ModeIs
<1>6. /\ cpu' = [cpu EXCEPT ![c] = y] /\ stack' = Clock!Place(f, k)
  BY <1>0, <1>1, <1>v DEF ClockTypes, CpuT, Clock!Goto, Clock!ReleaseTo, Clock!Spin
<1>7. Move(c, y, f)
  BY <1>1, <1>3, <1>4, <1>5, <1>6, Here
  DEF Move, Kind, ThreadPcs, SchedPcs, HandlerPcs, Awake, Calm, SpinPcs
<1>8. StatesKept /\ scan' = scan
  BY <1>0 DEF StatesKept, ClockTypes, Clock!ReleaseTo, Clock!Spin
<1>9. /\ Stacks' /\ Placement' /\ Modes' /\ Moved(c, f)
      /\ stack' \in [Clock!Contexts -> Seq(Frames)] /\ cpu' \in [Clock!Cpus -> CpuT]
  BY <1>7, <1>8, MoveKeeps
<1> HIDE DEF y, f
<1>t. ClockTypes'
  <2>1. cpu' \in [Clock!Cpus -> [flag : BOOLEAN, ncli : 0..2, intena : BOOLEAN,
                thread : Clock!Threads \cup {Clock!None}]]
    BY <1>9 DEF CpuT
  <2>2. owner' \in [Clock!Locks -> Clock!Cpus \cup {Clock!None}]
    BY <1>0 DEF ClockTypes, Clock!Take, Clock!ReleaseTo, Clock!Spin
  <2>3. /\ thread' \in [Clock!Threads -> ThreadT]
        /\ ticks' \in 0..(TickWrap - 1)
    BY <1>0, ClockAssumption DEF ClockTypes, Clock!Spin
  <2>4. scan' \in [Clock!Cpus -> [next : Nat, ran : BOOLEAN]] /\ panic' = FALSE
    BY <1>0, <1>1, <1>8, <1>v DEF ClockTypes, Clock!Spin
  <2>q. QED
    BY <1>9, <2>1, <2>2, <2>3, <2>4 DEF ClockTypes
<1>h. Holders'
  <2>1. \A d \in Clock!Cpus : TopOf(Clock!Ctx(d))' = IF d = c THEN f ELSE TopOf(Clock!Ctx(d))
    BY <1>9 DEF Moved
  <2>2. \A d \in Clock!Cpus : d # Clock!None /\ d \notin {Clock!None}
    BY DEF Clock!Cpus, Clock!None
  <2>3. \A d \in Clock!Cpus : /\ owner["ticks"] = d <=> TopOf(Clock!Ctx(d)).pc \in TicksPcs
                              /\ owner["ptable"] = d <=> TopOf(Clock!Ctx(d)).pc \in PtablePcs
    BY <1>0 DEF Holders
  <2>4. \A l \in Clock!Locks : owner'[l] = owner[l]
    BY <1>0, <1>1 DEF ClockTypes, Clock!Take, Clock!ReleaseTo, Clock!Locks, Clock!Spin
  <2>5. "ticks" \in Clock!Locks /\ "ptable" \in Clock!Locks
    BY DEF Clock!Locks
  <2>q. QED
     BY <1>1, <1>3, <2>1, <2>2, <2>3, <2>4, <2>5 DEF Holders, TicksPcs, PtablePcs, Clock!Free,
         Clock!Take, Clock!Spin
<1>s. Sleepers'
  <2>1. thread' = thread /\ ticks' = ticks
    BY DEF Clock!ReleaseTo, Clock!Spin
  <2>2. WakeComes => WakeComes'
    <3> SUFFICES ASSUME NEW o \in Clock!Cpus, owner["ticks"] = o, TopOf(Clock!Ctx(o)).pc = "wakeup"
                        PROVE WakeComes'
      BY DEF WakeComes
    <3>1. o # Clock!None
      BY DEF Clock!Cpus, Clock!None
    <3>2. owner'["ticks"] = o
       BY <1>0, <1>1, <3>1 DEF ClockTypes, Clock!Locks, Holders, TicksPcs, Clock!Take, Clock!Free,
           Clock!ReleaseTo, Clock!Spin
    <3>3. TopOf(Clock!Ctx(o))'.pc = "wakeup"
      BY <1>1, <1>3, <1>9 DEF Moved
    <3>q. QED
      BY <3>2, <3>3 DEF WakeComes
  <2>3. k \in Clock!Threads /\ Depth(k) = 1 => BaseOf(k).pc = "sleep1" /\ Counted(k) /\ Sleeping(k)
    BY <1>0, <1>1, Shapes DEF Sleepers
  <2>4. k \in Clock!Threads /\ Depth(k) = 1 =>
          /\ f.pc \in {"slept", "test", "sleep1", "again"}
               => BaseOf(k).pc \in {"slept", "test", "sleep1", "again"}
          /\ f.pc = "return" => thread[k].killed \/ thread[k].waited >= thread[k].n % TickWrap
    BY <1>3, <2>3 DEF Sleeping
  <2>6. f.pc = "sleep1" => thread[k].waited < thread[k].n % TickWrap
    BY <1>0, <1>1, <1>3 DEF Sleepers, SleepDue
  <2>5. f.pc = "tick" => TopOf(k).pc = "tick"
    BY <1>1, <1>3
  <2>q. QED
    BY <1>9, <2>1, <2>2, <2>4, <2>5, <2>6, SleepersMove
<1>q. QED
  BY <1>9, <1>t, <1>h, <1>s DEF ClockInv

LEMMA SpinAgainKeeps ==
  ASSUME ClockInv, NEW c \in Clock!Cpus, Clock!Spin(c, "again", "ticks")
  PROVE  ClockInv'
<1> DEFINE k == Clock!Ctx(c)
           y == Clock!pushcli(cpu[c])
           f == [Clock!Top(c) EXCEPT !.spins = TRUE]
<1>0. ClockTypes /\ Stacks /\ Placement /\ Modes /\ Holders /\ Sleepers
  BY DEF ClockInv
<1>1. /\ ~panic /\ TopOf(k).pc = "again" /\ Clock!Top(c) = TopOf(k) /\ TopOf(k) \in Frames
      /\ k \in Clock!Contexts
      /\ cpu[c] \in CpuT /\ Mode(cpu[c], TopOf(k), scan[c].ran)
  BY Here DEF Clock!At, Clock!Take, Clock!Spin
<1>2. TopOf(k).spins \in BOOLEAN /\ cpu[c].ncli \in 0..2 /\ cpu[c].flag \in BOOLEAN
        /\ cpu[c].intena \in BOOLEAN
  BY <1>1, CpuIs, FrameIs
<1>3. f \in Frames /\ f.pc = "again" /\ f.spins = TRUE
  BY <1>1, SpinIs
<1>m. cpu[c].ncli = (IF TopOf(k).spins THEN 1 ELSE 0) /\ (cpu[c].flag <=> ~TopOf(k).spins)
        /\ (TopOf(k).spins => cpu[c].intena)
  BY <1>1, ModeIs
<1>u. ~TopOf(k).spins
  BY <1>1 DEF Clock!Spin
<1>v. owner["ticks"] # c
  BY <1>0, <1>1 DEF Holders, TicksPcs, PtablePcs
<1>4. y \in CpuT /\ y.thread = cpu[c].thread
      /\ y.ncli = cpu[c].ncli + 1 /\ ~y.flag
      /\ y.intena = (IF cpu[c].ncli = 0 THEN cpu[c].flag ELSE cpu[c].intena)
  <2>1. cpu[c].ncli < 2
    BY <1>2, <1>m, <1>u
  <2>q. QED
    BY <1>1, <1>u, <2>1, CpuStates
<1>5. Mode(y, f, scan[c].ran)
  <2> HIDE DEF y, f
  <2>3. (y.ncli = (IF f.spins THEN 1 ELSE 0) /\ (y.flag <=> ~f.spins) /\ (f.spins => y.intena))
    <3>1. CASE TopOf(k).spins
      BY <1>2, <1>3, <1>4, <1>m, <3>1, <1>u
    <3>2. CASE ~TopOf(k).spins
      BY <1>2, <1>3, <1>4, <1>m, <3>2
    <3>q. QED
      BY <3>1, <3>2
  <2>q. QED
    BY <1>3, <1>4, <2>3, ModeIs
<1>6. /\ cpu' = [cpu EXCEPT ![c] = y] /\ stack' = Clock!Place(f, k)
  BY <1>0, <1>1, <1>v DEF ClockTypes, CpuT, Clock!Goto, Clock!ReleaseTo, Clock!Spin
<1>7. Move(c, y, f)
  BY <1>1, <1>3, <1>4, <1>5, <1>6, Here
  DEF Move, Kind, ThreadPcs, SchedPcs, HandlerPcs, Awake, Calm, SpinPcs
<1>8. StatesKept /\ scan' = scan
  BY <1>0 DEF StatesKept, ClockTypes, Clock!ReleaseTo, Clock!Spin
<1>9. /\ Stacks' /\ Placement' /\ Modes' /\ Moved(c, f)
      /\ stack' \in [Clock!Contexts -> Seq(Frames)] /\ cpu' \in [Clock!Cpus -> CpuT]
  BY <1>7, <1>8, MoveKeeps
<1> HIDE DEF y, f
<1>t. ClockTypes'
  <2>1. cpu' \in [Clock!Cpus -> [flag : BOOLEAN, ncli : 0..2, intena : BOOLEAN,
                thread : Clock!Threads \cup {Clock!None}]]
    BY <1>9 DEF CpuT
  <2>2. owner' \in [Clock!Locks -> Clock!Cpus \cup {Clock!None}]
    BY <1>0 DEF ClockTypes, Clock!Take, Clock!ReleaseTo, Clock!Spin
  <2>3. /\ thread' \in [Clock!Threads -> ThreadT]
        /\ ticks' \in 0..(TickWrap - 1)
    BY <1>0, ClockAssumption DEF ClockTypes, Clock!Spin
  <2>4. scan' \in [Clock!Cpus -> [next : Nat, ran : BOOLEAN]] /\ panic' = FALSE
    BY <1>0, <1>1, <1>8, <1>v DEF ClockTypes, Clock!Spin
  <2>q. QED
    BY <1>9, <2>1, <2>2, <2>3, <2>4 DEF ClockTypes
<1>h. Holders'
  <2>1. \A d \in Clock!Cpus : TopOf(Clock!Ctx(d))' = IF d = c THEN f ELSE TopOf(Clock!Ctx(d))
    BY <1>9 DEF Moved
  <2>2. \A d \in Clock!Cpus : d # Clock!None /\ d \notin {Clock!None}
    BY DEF Clock!Cpus, Clock!None
  <2>3. \A d \in Clock!Cpus : /\ owner["ticks"] = d <=> TopOf(Clock!Ctx(d)).pc \in TicksPcs
                              /\ owner["ptable"] = d <=> TopOf(Clock!Ctx(d)).pc \in PtablePcs
    BY <1>0 DEF Holders
  <2>4. \A l \in Clock!Locks : owner'[l] = owner[l]
    BY <1>0, <1>1 DEF ClockTypes, Clock!Take, Clock!ReleaseTo, Clock!Locks, Clock!Spin
  <2>5. "ticks" \in Clock!Locks /\ "ptable" \in Clock!Locks
    BY DEF Clock!Locks
  <2>q. QED
     BY <1>1, <1>3, <2>1, <2>2, <2>3, <2>4, <2>5 DEF Holders, TicksPcs, PtablePcs, Clock!Free,
         Clock!Take, Clock!Spin
<1>s. Sleepers'
  <2>1. thread' = thread /\ ticks' = ticks
    BY DEF Clock!ReleaseTo, Clock!Spin
  <2>2. WakeComes => WakeComes'
    <3> SUFFICES ASSUME NEW o \in Clock!Cpus, owner["ticks"] = o, TopOf(Clock!Ctx(o)).pc = "wakeup"
                        PROVE WakeComes'
      BY DEF WakeComes
    <3>1. o # Clock!None
      BY DEF Clock!Cpus, Clock!None
    <3>2. owner'["ticks"] = o
       BY <1>0, <1>1, <3>1 DEF ClockTypes, Clock!Locks, Holders, TicksPcs, Clock!Take, Clock!Free,
           Clock!ReleaseTo, Clock!Spin
    <3>3. TopOf(Clock!Ctx(o))'.pc = "wakeup"
      BY <1>1, <1>3, <1>9 DEF Moved
    <3>q. QED
      BY <3>2, <3>3 DEF WakeComes
  <2>3. k \in Clock!Threads /\ Depth(k) = 1 => BaseOf(k).pc = "again" /\ Counted(k) /\ Sleeping(k)
    BY <1>0, <1>1, Shapes DEF Sleepers
  <2>4. k \in Clock!Threads /\ Depth(k) = 1 =>
          /\ f.pc \in {"slept", "test", "sleep1", "again"}
               => BaseOf(k).pc \in {"slept", "test", "sleep1", "again"}
          /\ f.pc = "return" => thread[k].killed \/ thread[k].waited >= thread[k].n % TickWrap
    BY <1>3, <2>3 DEF Sleeping
  <2>6. f.pc = "sleep1" => thread[k].waited < thread[k].n % TickWrap
    BY <1>0, <1>1, <1>3 DEF Sleepers, SleepDue
  <2>5. f.pc = "tick" => TopOf(k).pc = "tick"
    BY <1>1, <1>3
  <2>q. QED
    BY <1>9, <2>1, <2>2, <2>4, <2>5, <2>6, SleepersMove
<1>q. QED
  BY <1>9, <1>t, <1>h, <1>s DEF ClockInv

LEMMA BackKeeps ==
  ASSUME ClockInv, NEW c \in Clock!Cpus, Clock!BackFrom(c, "yielded", "iret")
  PROVE  ClockInv'
<1> DEFINE k == Clock!Ctx(c)
           y == Clock!popcli(Clock!Restore(c))
           f == Clock!Saved(Clock!Top(c), "iret", FALSE)
<1>0. ClockTypes /\ Stacks /\ Placement /\ Modes /\ Holders /\ Sleepers
  BY DEF ClockInv
<1>1. /\ ~panic /\ TopOf(k).pc = "yielded" /\ Clock!Top(c) = TopOf(k) /\ TopOf(k) \in Frames
      /\ k \in Clock!Contexts
      /\ cpu[c] \in CpuT /\ Mode(cpu[c], TopOf(k), scan[c].ran)
  BY Here DEF Clock!At, Clock!Take, Clock!BackFrom
<1>2. TopOf(k).spins \in BOOLEAN /\ cpu[c].ncli \in 0..2 /\ cpu[c].flag \in BOOLEAN
        /\ cpu[c].intena \in BOOLEAN
  BY <1>1, CpuIs, FrameIs
<1>3. f \in Frames /\ f.pc = "iret" /\ f.spins = FALSE
  BY <1>1, SavedIs DEF ThreadPcs, SchedPcs, HandlerPcs, Awake, Calm
<1>n. ~TopOf(k).spins
  BY <1>1, <1>0, Shapes DEF SpinPcs
<1>m. cpu[c].ncli = 1 /\ ~cpu[c].flag
  BY <1>1, <1>n, ModeIs
<1>4. y \in CpuT /\ y.thread = cpu[c].thread
      /\ y.ncli = cpu[c].ncli - 1 /\ ~y.flag
  <2>1. Clock!Restore(c) \in CpuT /\ Clock!Restore(c).ncli = 1 /\ Clock!Restore(c).intena = FALSE
          /\ Clock!Restore(c).thread = cpu[c].thread
    <3>1. TopOf(k).intena = FALSE
      BY <1>0, <1>1, FrameIs, Here DEF Modes
    <3>q. QED
      BY <1>1, <1>2, <1>m, <3>1 DEF Clock!Restore, CpuT
  <2>2. cpu[c].ncli = 1
    BY <1>m
  <2>3. Clock!popcli(Clock!Restore(c)) \in CpuT /\ Clock!popcli(Clock!Restore(c)).ncli = 0
          /\ Clock!popcli(Clock!Restore(c)).thread = cpu[c].thread
        /\ Clock!popcli(Clock!Restore(c)).flag = FALSE
    BY <2>1, BackIs
  <2>q. QED
    BY <2>2, <2>3
<1>5. Mode(y, f, scan[c].ran)
  <2> HIDE DEF y, f
  <2>3. (y.ncli = 0 /\ ~y.flag)
    <3>1. CASE TopOf(k).spins
      BY <1>2, <1>3, <1>4, <1>m, <3>1
    <3>2. CASE ~TopOf(k).spins
      BY <1>2, <1>3, <1>4, <1>m, <3>2
    <3>q. QED
      BY <3>1, <3>2
  <2>q. QED
    BY <1>3, <1>4, <2>3, ModeIs
<1>6. /\ cpu' = [cpu EXCEPT ![c] = y] /\ stack' = Clock!Place(f, k)
  BY <1>0, <1>1 DEF ClockTypes, CpuT, Clock!Goto, Clock!ReleaseTo, Clock!BackFrom
<1>7. Move(c, y, f)
  BY <1>1, <1>3, <1>4, <1>5, <1>6
  DEF Move, Kind, ThreadPcs, SchedPcs, HandlerPcs, Awake, Calm, SpinPcs
<1>8. StatesKept /\ scan' = scan
  BY <1>0 DEF StatesKept, ClockTypes, Clock!ReleaseTo, Clock!BackFrom
<1>9. /\ Stacks' /\ Placement' /\ Modes' /\ Moved(c, f)
      /\ stack' \in [Clock!Contexts -> Seq(Frames)] /\ cpu' \in [Clock!Cpus -> CpuT]
  BY <1>7, <1>8, MoveKeeps
<1> HIDE DEF y, f
<1>t. ClockTypes'
  <2>1. cpu' \in [Clock!Cpus -> [flag : BOOLEAN, ncli : 0..2, intena : BOOLEAN,
                thread : Clock!Threads \cup {Clock!None}]]
    BY <1>9 DEF CpuT
  <2>2. owner' \in [Clock!Locks -> Clock!Cpus \cup {Clock!None}]
    BY <1>0 DEF ClockTypes, Clock!Take, Clock!ReleaseTo, Clock!BackFrom
  <2>3. /\ thread' \in [Clock!Threads -> ThreadT]
        /\ ticks' \in 0..(TickWrap - 1)
    BY <1>0, ClockAssumption DEF ClockTypes, Clock!BackFrom
  <2>4. scan' \in [Clock!Cpus -> [next : Nat, ran : BOOLEAN]] /\ panic' = FALSE
    BY <1>0, <1>1, <1>8 DEF ClockTypes, Clock!BackFrom
  <2>q. QED
    BY <1>9, <2>1, <2>2, <2>3, <2>4 DEF ClockTypes
<1>h. Holders'
  <2>1. \A d \in Clock!Cpus : TopOf(Clock!Ctx(d))' = IF d = c THEN f ELSE TopOf(Clock!Ctx(d))
    BY <1>9 DEF Moved
  <2>2. \A d \in Clock!Cpus : d # Clock!None /\ d \notin {Clock!None}
    BY DEF Clock!Cpus, Clock!None
  <2>3. \A d \in Clock!Cpus : /\ owner["ticks"] = d <=> TopOf(Clock!Ctx(d)).pc \in TicksPcs
                              /\ owner["ptable"] = d <=> TopOf(Clock!Ctx(d)).pc \in PtablePcs
    BY <1>0 DEF Holders
  <2>4. \A l \in Clock!Locks : owner'[l] = IF l = "ptable" THEN Clock!None ELSE owner[l]
    BY <1>0, <1>1 DEF ClockTypes, Clock!Take, Clock!ReleaseTo, Clock!Locks, Clock!BackFrom
  <2>5. "ticks" \in Clock!Locks /\ "ptable" \in Clock!Locks
    BY DEF Clock!Locks
  <2>q. QED
     BY <1>1, <1>3, <2>1, <2>2, <2>3, <2>4, <2>5 DEF Holders, TicksPcs, PtablePcs, Clock!Free,
         Clock!Take, Clock!BackFrom
<1>s. Sleepers'
  <2>1. thread' = thread /\ ticks' = ticks
    BY DEF Clock!ReleaseTo, Clock!BackFrom
  <2>2. WakeComes => WakeComes'
    <3> SUFFICES ASSUME NEW o \in Clock!Cpus, owner["ticks"] = o, TopOf(Clock!Ctx(o)).pc = "wakeup"
                        PROVE WakeComes'
      BY DEF WakeComes
    <3>1. o # Clock!None
      BY DEF Clock!Cpus, Clock!None
    <3>2. owner'["ticks"] = o
       BY <1>0, <1>1, <3>1 DEF ClockTypes, Clock!Locks, Holders, TicksPcs, Clock!Take, Clock!Free,
           Clock!ReleaseTo, Clock!BackFrom
    <3>3. TopOf(Clock!Ctx(o))'.pc = "wakeup"
      BY <1>1, <1>3, <1>9 DEF Moved
    <3>q. QED
      BY <3>2, <3>3 DEF WakeComes
  <2>3. k \in Clock!Threads /\ Depth(k) = 1 => BaseOf(k).pc = "yielded" /\ Counted(k) /\ Sleeping(k)
    BY <1>0, <1>1, Shapes DEF Sleepers
  <2>4. k \in Clock!Threads /\ Depth(k) = 1 =>
          /\ f.pc \in {"slept", "test", "sleep1", "again"}
               => BaseOf(k).pc \in {"slept", "test", "sleep1", "again"}
          /\ f.pc = "return" => thread[k].killed \/ thread[k].waited >= thread[k].n % TickWrap
    BY <1>3, <2>3 DEF Sleeping
  <2>6. f.pc = "sleep1" => thread[k].waited < thread[k].n % TickWrap
    BY <1>0, <1>1, <1>3 DEF Sleepers, SleepDue
  <2>5. f.pc = "tick" => TopOf(k).pc = "tick"
    BY <1>1, <1>3
  <2>q. QED
    BY <1>9, <2>1, <2>2, <2>4, <2>5, <2>6, SleepersMove
<1>q. QED
  BY <1>9, <1>t, <1>h, <1>s DEF ClockInv

LEMMA WakeKeeps ==
  ASSUME ClockInv, NEW c \in Clock!Cpus, Clock!BackFrom(c, "slept", "again")
  PROVE  ClockInv'
<1> DEFINE k == Clock!Ctx(c)
           y == Clock!popcli(Clock!Restore(c))
           f == Clock!Saved(Clock!Top(c), "again", FALSE)
<1>0. ClockTypes /\ Stacks /\ Placement /\ Modes /\ Holders /\ Sleepers
  BY DEF ClockInv
<1>1. /\ ~panic /\ TopOf(k).pc = "slept" /\ Clock!Top(c) = TopOf(k) /\ TopOf(k) \in Frames
      /\ k \in Clock!Contexts
      /\ cpu[c] \in CpuT /\ Mode(cpu[c], TopOf(k), scan[c].ran)
  BY Here DEF Clock!At, Clock!Take, Clock!BackFrom
<1>2. TopOf(k).spins \in BOOLEAN /\ cpu[c].ncli \in 0..2 /\ cpu[c].flag \in BOOLEAN
        /\ cpu[c].intena \in BOOLEAN
  BY <1>1, CpuIs, FrameIs
<1>3. f \in Frames /\ f.pc = "again" /\ f.spins = FALSE
  BY <1>1, SavedIs DEF ThreadPcs, SchedPcs, HandlerPcs, Awake, Calm
<1>n. ~TopOf(k).spins
  BY <1>1, <1>0, Shapes DEF SpinPcs
<1>m. cpu[c].ncli = 1 /\ ~cpu[c].flag
  BY <1>1, <1>n, ModeIs
<1>4. y \in CpuT /\ y.thread = cpu[c].thread
      /\ y.ncli = cpu[c].ncli - 1 /\ y.flag
  <2>1. Clock!Restore(c) \in CpuT /\ Clock!Restore(c).ncli = 1 /\ Clock!Restore(c).intena = TRUE
          /\ Clock!Restore(c).thread = cpu[c].thread
    <3>1. TopOf(k).intena = TRUE
      BY <1>0, <1>1, FrameIs, Here DEF Modes, ThreadPcs
    <3>q. QED
      BY <1>1, <1>2, <1>m, <3>1 DEF Clock!Restore, CpuT
  <2>2. cpu[c].ncli = 1
    BY <1>m
  <2>3. Clock!popcli(Clock!Restore(c)) \in CpuT /\ Clock!popcli(Clock!Restore(c)).ncli = 0
          /\ Clock!popcli(Clock!Restore(c)).thread = cpu[c].thread
        /\ Clock!popcli(Clock!Restore(c)).flag = TRUE
    BY <2>1, BackIs
  <2>q. QED
    BY <2>2, <2>3
<1>5. Mode(y, f, scan[c].ran)
  <2> HIDE DEF y, f
  <2>3. (y.ncli = (IF f.spins THEN 1 ELSE 0) /\ (y.flag <=> ~f.spins) /\ (f.spins => y.intena))
    <3>1. CASE TopOf(k).spins
      BY <1>2, <1>3, <1>4, <1>m, <3>1
    <3>2. CASE ~TopOf(k).spins
      BY <1>2, <1>3, <1>4, <1>m, <3>2
    <3>q. QED
      BY <3>1, <3>2
  <2>q. QED
    BY <1>3, <1>4, <2>3, ModeIs
<1>6. /\ cpu' = [cpu EXCEPT ![c] = y] /\ stack' = Clock!Place(f, k)
  BY <1>0, <1>1 DEF ClockTypes, CpuT, Clock!Goto, Clock!ReleaseTo, Clock!BackFrom
<1>7. Move(c, y, f)
  BY <1>1, <1>3, <1>4, <1>5, <1>6
  DEF Move, Kind, ThreadPcs, SchedPcs, HandlerPcs, Awake, Calm, SpinPcs
<1>8. StatesKept /\ scan' = scan
  BY <1>0 DEF StatesKept, ClockTypes, Clock!ReleaseTo, Clock!BackFrom
<1>9. /\ Stacks' /\ Placement' /\ Modes' /\ Moved(c, f)
      /\ stack' \in [Clock!Contexts -> Seq(Frames)] /\ cpu' \in [Clock!Cpus -> CpuT]
  BY <1>7, <1>8, MoveKeeps
<1> HIDE DEF y, f
<1>t. ClockTypes'
  <2>1. cpu' \in [Clock!Cpus -> [flag : BOOLEAN, ncli : 0..2, intena : BOOLEAN,
                thread : Clock!Threads \cup {Clock!None}]]
    BY <1>9 DEF CpuT
  <2>2. owner' \in [Clock!Locks -> Clock!Cpus \cup {Clock!None}]
    BY <1>0 DEF ClockTypes, Clock!Take, Clock!ReleaseTo, Clock!BackFrom
  <2>3. /\ thread' \in [Clock!Threads -> ThreadT]
        /\ ticks' \in 0..(TickWrap - 1)
    BY <1>0, ClockAssumption DEF ClockTypes, Clock!BackFrom
  <2>4. scan' \in [Clock!Cpus -> [next : Nat, ran : BOOLEAN]] /\ panic' = FALSE
    BY <1>0, <1>1, <1>8 DEF ClockTypes, Clock!BackFrom
  <2>q. QED
    BY <1>9, <2>1, <2>2, <2>3, <2>4 DEF ClockTypes
<1>h. Holders'
  <2>1. \A d \in Clock!Cpus : TopOf(Clock!Ctx(d))' = IF d = c THEN f ELSE TopOf(Clock!Ctx(d))
    BY <1>9 DEF Moved
  <2>2. \A d \in Clock!Cpus : d # Clock!None /\ d \notin {Clock!None}
    BY DEF Clock!Cpus, Clock!None
  <2>3. \A d \in Clock!Cpus : /\ owner["ticks"] = d <=> TopOf(Clock!Ctx(d)).pc \in TicksPcs
                              /\ owner["ptable"] = d <=> TopOf(Clock!Ctx(d)).pc \in PtablePcs
    BY <1>0 DEF Holders
  <2>4. \A l \in Clock!Locks : owner'[l] = IF l = "ptable" THEN Clock!None ELSE owner[l]
    BY <1>0, <1>1 DEF ClockTypes, Clock!Take, Clock!ReleaseTo, Clock!Locks, Clock!BackFrom
  <2>5. "ticks" \in Clock!Locks /\ "ptable" \in Clock!Locks
    BY DEF Clock!Locks
  <2>q. QED
     BY <1>1, <1>3, <2>1, <2>2, <2>3, <2>4, <2>5 DEF Holders, TicksPcs, PtablePcs, Clock!Free,
         Clock!Take, Clock!BackFrom
<1>s. Sleepers'
  <2>1. thread' = thread /\ ticks' = ticks
    BY DEF Clock!ReleaseTo, Clock!BackFrom
  <2>2. WakeComes => WakeComes'
    <3> SUFFICES ASSUME NEW o \in Clock!Cpus, owner["ticks"] = o, TopOf(Clock!Ctx(o)).pc = "wakeup"
                        PROVE WakeComes'
      BY DEF WakeComes
    <3>1. o # Clock!None
      BY DEF Clock!Cpus, Clock!None
    <3>2. owner'["ticks"] = o
       BY <1>0, <1>1, <3>1 DEF ClockTypes, Clock!Locks, Holders, TicksPcs, Clock!Take, Clock!Free,
           Clock!ReleaseTo, Clock!BackFrom
    <3>3. TopOf(Clock!Ctx(o))'.pc = "wakeup"
      BY <1>1, <1>3, <1>9 DEF Moved
    <3>q. QED
      BY <3>2, <3>3 DEF WakeComes
  <2>3. k \in Clock!Threads /\ Depth(k) = 1 => BaseOf(k).pc = "slept" /\ Counted(k) /\ Sleeping(k)
    BY <1>0, <1>1, Shapes DEF Sleepers
  <2>4. k \in Clock!Threads /\ Depth(k) = 1 =>
          /\ f.pc \in {"slept", "test", "sleep1", "again"}
               => BaseOf(k).pc \in {"slept", "test", "sleep1", "again"}
          /\ f.pc = "return" => thread[k].killed \/ thread[k].waited >= thread[k].n % TickWrap
    BY <1>3, <2>3 DEF Sleeping
  <2>6. f.pc = "sleep1" => thread[k].waited < thread[k].n % TickWrap
    BY <1>0, <1>1, <1>3 DEF Sleepers, SleepDue
  <2>5. f.pc = "tick" => TopOf(k).pc = "tick"
    BY <1>1, <1>3
  <2>q. QED
    BY <1>9, <2>1, <2>2, <2>4, <2>5, <2>6, SleepersMove
<1>q. QED
  BY <1>9, <1>t, <1>h, <1>s DEF ClockInv

LEMMA ForkretKeeps ==
  ASSUME ClockInv, NEW c \in Clock!Cpus, Clock!Forkret(c)
  PROVE  ClockInv'
<1> DEFINE k == Clock!Ctx(c)
           y == [Clock!popcli(cpu[c]) EXCEPT !.flag = TRUE]
           f == Clock!Saved(Clock!Top(c), "user", FALSE)
<1>0. ClockTypes /\ Stacks /\ Placement /\ Modes /\ Holders /\ Sleepers
  BY DEF ClockInv
<1>1. /\ ~panic /\ TopOf(k).pc = "forkret" /\ Clock!Top(c) = TopOf(k) /\ TopOf(k) \in Frames
      /\ k \in Clock!Contexts
      /\ cpu[c] \in CpuT /\ Mode(cpu[c], TopOf(k), scan[c].ran)
  BY Here DEF Clock!At, Clock!Take, Clock!Forkret
<1>2. TopOf(k).spins \in BOOLEAN /\ cpu[c].ncli \in 0..2 /\ cpu[c].flag \in BOOLEAN
        /\ cpu[c].intena \in BOOLEAN
  BY <1>1, CpuIs, FrameIs
<1>3. f \in Frames /\ f.pc = "user" /\ f.spins = FALSE
  BY <1>1, SavedIs DEF ThreadPcs, SchedPcs, HandlerPcs, Awake, Calm
<1>n. ~TopOf(k).spins
  BY <1>1, <1>0, Shapes DEF SpinPcs
<1>m. cpu[c].ncli = 1 /\ ~cpu[c].flag
  BY <1>1, <1>n, ModeIs
<1>4. y \in CpuT /\ y.thread = cpu[c].thread
      /\ y.ncli = cpu[c].ncli - 1 /\ y.flag
  <2>1. Clock!popcli(cpu[c]) \in CpuT /\ Clock!popcli(cpu[c]).ncli = cpu[c].ncli - 1
          /\ Clock!popcli(cpu[c]).thread = cpu[c].thread
    <3>1. cpu[c].ncli > 0
      BY <1>2, <1>m
    <3>q. QED
      BY <1>1, <3>1, CpuStates
  <2>q. QED
    BY <2>1 DEF CpuT
<1>5. Mode(y, f, scan[c].ran)
  <2> HIDE DEF y, f
  <2>3. (y.ncli = 0 /\ y.flag)
    <3>1. CASE TopOf(k).spins
      BY <1>2, <1>3, <1>4, <1>m, <3>1
    <3>2. CASE ~TopOf(k).spins
      BY <1>2, <1>3, <1>4, <1>m, <3>2
    <3>q. QED
      BY <3>1, <3>2
  <2>q. QED
    BY <1>3, <1>4, <2>3, ModeIs
<1>6. /\ cpu' = [cpu EXCEPT ![c] = y] /\ stack' = Clock!Place(f, k)
  BY <1>0, <1>1 DEF ClockTypes, CpuT, Clock!Goto, Clock!ReleaseTo, Clock!Forkret
<1>7. Move(c, y, f)
  BY <1>1, <1>3, <1>4, <1>5, <1>6
  DEF Move, Kind, ThreadPcs, SchedPcs, HandlerPcs, Awake, Calm, SpinPcs
<1>8. StatesKept /\ scan' = scan
  BY <1>0 DEF StatesKept, ClockTypes, Clock!ReleaseTo, Clock!Forkret
<1>9. /\ Stacks' /\ Placement' /\ Modes' /\ Moved(c, f)
      /\ stack' \in [Clock!Contexts -> Seq(Frames)] /\ cpu' \in [Clock!Cpus -> CpuT]
  BY <1>7, <1>8, MoveKeeps
<1> HIDE DEF y, f
<1>t. ClockTypes'
  <2>1. cpu' \in [Clock!Cpus -> [flag : BOOLEAN, ncli : 0..2, intena : BOOLEAN,
                thread : Clock!Threads \cup {Clock!None}]]
    BY <1>9 DEF CpuT
  <2>2. owner' \in [Clock!Locks -> Clock!Cpus \cup {Clock!None}]
    BY <1>0 DEF ClockTypes, Clock!Take, Clock!ReleaseTo, Clock!Forkret
  <2>3. /\ thread' \in [Clock!Threads -> ThreadT]
        /\ ticks' \in 0..(TickWrap - 1)
    BY <1>0, ClockAssumption DEF ClockTypes, Clock!Forkret
  <2>4. scan' \in [Clock!Cpus -> [next : Nat, ran : BOOLEAN]] /\ panic' = FALSE
    BY <1>0, <1>1, <1>8 DEF ClockTypes, Clock!Forkret
  <2>q. QED
    BY <1>9, <2>1, <2>2, <2>3, <2>4 DEF ClockTypes
<1>h. Holders'
  <2>1. \A d \in Clock!Cpus : TopOf(Clock!Ctx(d))' = IF d = c THEN f ELSE TopOf(Clock!Ctx(d))
    BY <1>9 DEF Moved
  <2>2. \A d \in Clock!Cpus : d # Clock!None /\ d \notin {Clock!None}
    BY DEF Clock!Cpus, Clock!None
  <2>3. \A d \in Clock!Cpus : /\ owner["ticks"] = d <=> TopOf(Clock!Ctx(d)).pc \in TicksPcs
                              /\ owner["ptable"] = d <=> TopOf(Clock!Ctx(d)).pc \in PtablePcs
    BY <1>0 DEF Holders
  <2>4. \A l \in Clock!Locks : owner'[l] = IF l = "ptable" THEN Clock!None ELSE owner[l]
    BY <1>0, <1>1 DEF ClockTypes, Clock!Take, Clock!ReleaseTo, Clock!Locks, Clock!Forkret
  <2>5. "ticks" \in Clock!Locks /\ "ptable" \in Clock!Locks
    BY DEF Clock!Locks
  <2>q. QED
     BY <1>1, <1>3, <2>1, <2>2, <2>3, <2>4, <2>5 DEF Holders, TicksPcs, PtablePcs, Clock!Free,
         Clock!Take, Clock!Forkret
<1>s. Sleepers'
  <2>1. thread' = thread /\ ticks' = ticks
    BY DEF Clock!ReleaseTo, Clock!Forkret
  <2>2. WakeComes => WakeComes'
    <3> SUFFICES ASSUME NEW o \in Clock!Cpus, owner["ticks"] = o, TopOf(Clock!Ctx(o)).pc = "wakeup"
                        PROVE WakeComes'
      BY DEF WakeComes
    <3>1. o # Clock!None
      BY DEF Clock!Cpus, Clock!None
    <3>2. owner'["ticks"] = o
       BY <1>0, <1>1, <3>1 DEF ClockTypes, Clock!Locks, Holders, TicksPcs, Clock!Take, Clock!Free,
           Clock!ReleaseTo, Clock!Forkret
    <3>3. TopOf(Clock!Ctx(o))'.pc = "wakeup"
      BY <1>1, <1>3, <1>9 DEF Moved
    <3>q. QED
      BY <3>2, <3>3 DEF WakeComes
  <2>3. k \in Clock!Threads /\ Depth(k) = 1 => BaseOf(k).pc = "forkret" /\ Counted(k) /\ Sleeping(k)
    BY <1>0, <1>1, Shapes DEF Sleepers
  <2>4. k \in Clock!Threads /\ Depth(k) = 1 =>
          /\ f.pc \in {"slept", "test", "sleep1", "again"}
               => BaseOf(k).pc \in {"slept", "test", "sleep1", "again"}
          /\ f.pc = "return" => thread[k].killed \/ thread[k].waited >= thread[k].n % TickWrap
    BY <1>3, <2>3 DEF Sleeping
  <2>6. f.pc = "sleep1" => thread[k].waited < thread[k].n % TickWrap
    BY <1>0, <1>1, <1>3 DEF Sleepers, SleepDue
  <2>5. f.pc = "tick" => TopOf(k).pc = "tick"
    BY <1>1, <1>3
  <2>q. QED
    BY <1>9, <2>1, <2>2, <2>4, <2>5, <2>6, SleepersMove
<1>q. QED
  BY <1>9, <1>t, <1>h, <1>s DEF ClockInv

LEMMA AgainKeeps ==
  ASSUME ClockInv, NEW c \in Clock!Cpus, Clock!Again(c)
  PROVE  ClockInv'
<1> DEFINE k == Clock!Ctx(c)
           y == Clock!Got(c)
           f == Clock!Saved(Clock!Top(c), "test", FALSE)
<1>0. ClockTypes /\ Stacks /\ Placement /\ Modes /\ Holders /\ Sleepers
  BY DEF ClockInv
<1>1. /\ ~panic /\ TopOf(k).pc = "again" /\ Clock!Top(c) = TopOf(k) /\ TopOf(k) \in Frames
      /\ k \in Clock!Contexts
      /\ cpu[c] \in CpuT /\ Mode(cpu[c], TopOf(k), scan[c].ran)
  BY Here DEF Clock!At, Clock!Take, Clock!Again
<1>2. TopOf(k).spins \in BOOLEAN /\ cpu[c].ncli \in 0..2 /\ cpu[c].flag \in BOOLEAN
        /\ cpu[c].intena \in BOOLEAN
  BY <1>1, CpuIs, FrameIs
<1>3. f \in Frames /\ f.pc = "test" /\ f.spins = FALSE
  BY <1>1, SavedIs DEF ThreadPcs, SchedPcs, HandlerPcs, Awake, Calm
<1>m. cpu[c].ncli = (IF TopOf(k).spins THEN 1 ELSE 0) /\ (cpu[c].flag <=> ~TopOf(k).spins)
        /\ (TopOf(k).spins => cpu[c].intena)
  BY <1>1, ModeIs
<1>4. y \in CpuT /\ y.thread = cpu[c].thread
      /\ y.ncli = (IF TopOf(k).spins THEN cpu[c].ncli ELSE cpu[c].ncli + 1)
           /\ y.flag = (IF TopOf(k).spins THEN cpu[c].flag ELSE FALSE)
      /\ y.intena = (IF ~TopOf(k).spins /\ cpu[c].ncli = 0 THEN cpu[c].flag ELSE cpu[c].intena)
  <2>1. Clock!Top(c).spins \in BOOLEAN /\ (~Clock!Top(c).spins => cpu[c].ncli < 2)
    BY <1>1, <1>2, <1>m
  <2>2. Clock!Top(c) = TopOf(k) /\ cpu[c] \in CpuT
    BY <1>1
  <2> HIDE DEF k
  <2>q. QED
    BY <2>1, <2>2, GotIs
<1>5. Mode(y, f, scan[c].ran)
  <2> HIDE DEF y, f
  <2>3. (y.ncli = 1 /\ ~y.flag /\ y.intena)
    <3>1. CASE TopOf(k).spins
      BY <1>2, <1>3, <1>4, <1>m, <3>1
    <3>2. CASE ~TopOf(k).spins
      BY <1>2, <1>3, <1>4, <1>m, <3>2
    <3>q. QED
      BY <3>1, <3>2
  <2>q. QED
    BY <1>3, <1>4, <2>3, ModeIs
<1>6. /\ cpu' = [cpu EXCEPT ![c] = y] /\ stack' = Clock!Place(f, k)
  BY <1>0, <1>1 DEF ClockTypes, CpuT, Clock!Goto, Clock!ReleaseTo, Clock!Again
<1>7. Move(c, y, f)
  BY <1>1, <1>3, <1>4, <1>5, <1>6
  DEF Move, Kind, ThreadPcs, SchedPcs, HandlerPcs, Awake, Calm, SpinPcs
<1>8. StatesKept /\ scan' = scan
  BY <1>0 DEF StatesKept, ClockTypes, Clock!ReleaseTo, Clock!Again
<1>9. /\ Stacks' /\ Placement' /\ Modes' /\ Moved(c, f)
      /\ stack' \in [Clock!Contexts -> Seq(Frames)] /\ cpu' \in [Clock!Cpus -> CpuT]
  BY <1>7, <1>8, MoveKeeps
<1> HIDE DEF y, f
<1>t. ClockTypes'
  <2>1. cpu' \in [Clock!Cpus -> [flag : BOOLEAN, ncli : 0..2, intena : BOOLEAN,
                thread : Clock!Threads \cup {Clock!None}]]
    BY <1>9 DEF CpuT
  <2>2. owner' \in [Clock!Locks -> Clock!Cpus \cup {Clock!None}]
    BY <1>0 DEF ClockTypes, Clock!Take, Clock!ReleaseTo, Clock!Again
  <2>3. /\ thread' \in [Clock!Threads -> ThreadT]
        /\ ticks' \in 0..(TickWrap - 1)
    BY <1>0, ClockAssumption DEF ClockTypes, Clock!Again
  <2>4. scan' \in [Clock!Cpus -> [next : Nat, ran : BOOLEAN]] /\ panic' = FALSE
    BY <1>0, <1>1, <1>8 DEF ClockTypes, Clock!Again
  <2>q. QED
    BY <1>9, <2>1, <2>2, <2>3, <2>4 DEF ClockTypes
<1>h. Holders'
  <2>1. \A d \in Clock!Cpus : TopOf(Clock!Ctx(d))' = IF d = c THEN f ELSE TopOf(Clock!Ctx(d))
    BY <1>9 DEF Moved
  <2>2. \A d \in Clock!Cpus : d # Clock!None /\ d \notin {Clock!None}
    BY DEF Clock!Cpus, Clock!None
  <2>3. \A d \in Clock!Cpus : /\ owner["ticks"] = d <=> TopOf(Clock!Ctx(d)).pc \in TicksPcs
                              /\ owner["ptable"] = d <=> TopOf(Clock!Ctx(d)).pc \in PtablePcs
    BY <1>0 DEF Holders
  <2>4. \A l \in Clock!Locks : owner'[l] = IF l = "ticks" THEN c ELSE owner[l]
    BY <1>0, <1>1 DEF ClockTypes, Clock!Take, Clock!ReleaseTo, Clock!Locks, Clock!Again
  <2>5. "ticks" \in Clock!Locks /\ "ptable" \in Clock!Locks
    BY DEF Clock!Locks
  <2>q. QED
     BY <1>1, <1>3, <2>1, <2>2, <2>3, <2>4, <2>5 DEF Holders, TicksPcs, PtablePcs, Clock!Free,
         Clock!Take, Clock!Again
<1>s. Sleepers'
  <2>1. thread' = thread /\ ticks' = ticks
    BY DEF Clock!ReleaseTo, Clock!Again
  <2>2. WakeComes => WakeComes'
    <3> SUFFICES ASSUME NEW o \in Clock!Cpus, owner["ticks"] = o, TopOf(Clock!Ctx(o)).pc = "wakeup"
                        PROVE WakeComes'
      BY DEF WakeComes
    <3>1. o # Clock!None
      BY DEF Clock!Cpus, Clock!None
    <3>2. owner'["ticks"] = o
       BY <1>0, <1>1, <3>1 DEF ClockTypes, Clock!Locks, Holders, TicksPcs, Clock!Take, Clock!Free,
           Clock!ReleaseTo, Clock!Again
    <3>3. TopOf(Clock!Ctx(o))'.pc = "wakeup"
      BY <1>1, <1>3, <1>9 DEF Moved
    <3>q. QED
      BY <3>2, <3>3 DEF WakeComes
  <2>3. k \in Clock!Threads /\ Depth(k) = 1 => BaseOf(k).pc = "again" /\ Counted(k) /\ Sleeping(k)
    BY <1>0, <1>1, Shapes DEF Sleepers
  <2>4. k \in Clock!Threads /\ Depth(k) = 1 =>
          /\ f.pc \in {"slept", "test", "sleep1", "again"}
               => BaseOf(k).pc \in {"slept", "test", "sleep1", "again"}
          /\ f.pc = "return" => thread[k].killed \/ thread[k].waited >= thread[k].n % TickWrap
    BY <1>3, <2>3 DEF Sleeping
  <2>6. f.pc = "sleep1" => thread[k].waited < thread[k].n % TickWrap
    BY <1>0, <1>1, <1>3 DEF Sleepers, SleepDue
  <2>5. f.pc = "tick" => TopOf(k).pc = "tick"
    BY <1>1, <1>3
  <2>q. QED
    BY <1>9, <2>1, <2>2, <2>4, <2>5, <2>6, SleepersMove
<1>q. QED
  BY <1>9, <1>t, <1>h, <1>s DEF ClockInv

LEMMA TestSleepKeeps ==
  ASSUME ClockInv, NEW c \in Clock!Cpus, Clock!At(c, "test"), Clock!Waits(cpu[c].thread),
         stack' = Clock!Goto(c, "sleep1"), UNCHANGED <<cpu, owner, thread, ticks, scan, panic>>
  PROVE  ClockInv'
<1> DEFINE k == Clock!Ctx(c)
           y == cpu[c]
           f == Clock!Saved(Clock!Top(c), "sleep1", FALSE)
<1>0. ClockTypes /\ Stacks /\ Placement /\ Modes /\ Holders /\ Sleepers
  BY DEF ClockInv
<1>1. /\ ~panic /\ TopOf(k).pc = "test" /\ Clock!Top(c) = TopOf(k) /\ TopOf(k) \in Frames
      /\ k \in Clock!Contexts
      /\ cpu[c] \in CpuT /\ Mode(cpu[c], TopOf(k), scan[c].ran)
  BY Here DEF Clock!At, Clock!Take, Clock!Waits
<1>2. TopOf(k).spins \in BOOLEAN /\ cpu[c].ncli \in 0..2 /\ cpu[c].flag \in BOOLEAN
        /\ cpu[c].intena \in BOOLEAN
  BY <1>1, CpuIs, FrameIs
<1>3. f \in Frames /\ f.pc = "sleep1" /\ f.spins = FALSE
  BY <1>1, SavedIs DEF ThreadPcs, SchedPcs, HandlerPcs, Awake, Calm
<1>n. ~TopOf(k).spins
  BY <1>1, <1>0, Shapes DEF SpinPcs
<1>m. cpu[c].ncli = 1 /\ ~cpu[c].flag /\ cpu[c].intena
  BY <1>1, <1>n, ModeIs
<1>4. y \in CpuT /\ y.thread = cpu[c].thread
      /\ y = cpu[c]
  BY <1>1, <1>2
<1>5. Mode(y, f, scan[c].ran)
  <2> HIDE DEF y, f
  <2>3. (y.ncli = (IF f.spins THEN 2 ELSE 1) /\ ~y.flag /\ y.intena)
    <3>1. CASE TopOf(k).spins
      BY <1>2, <1>3, <1>4, <1>m, <3>1
    <3>2. CASE ~TopOf(k).spins
      BY <1>2, <1>3, <1>4, <1>m, <3>2
    <3>q. QED
      BY <3>1, <3>2
  <2>q. QED
    BY <1>3, <1>4, <2>3, ModeIs
<1>6. /\ cpu' = [cpu EXCEPT ![c] = y] /\ stack' = Clock!Place(f, k)
  BY <1>0, <1>1 DEF ClockTypes, CpuT, Clock!Goto, Clock!ReleaseTo, Clock!Waits
<1>7. Move(c, y, f)
  BY <1>1, <1>3, <1>4, <1>5, <1>6
  DEF Move, Kind, ThreadPcs, SchedPcs, HandlerPcs, Awake, Calm, SpinPcs
<1>8. StatesKept /\ scan' = scan
  BY <1>0 DEF StatesKept, ClockTypes, Clock!ReleaseTo, Clock!Waits
<1>9. /\ Stacks' /\ Placement' /\ Modes' /\ Moved(c, f)
      /\ stack' \in [Clock!Contexts -> Seq(Frames)] /\ cpu' \in [Clock!Cpus -> CpuT]
  BY <1>7, <1>8, MoveKeeps
<1> HIDE DEF y, f
<1>t. ClockTypes'
  <2>1. cpu' \in [Clock!Cpus -> [flag : BOOLEAN, ncli : 0..2, intena : BOOLEAN,
                thread : Clock!Threads \cup {Clock!None}]]
    BY <1>9 DEF CpuT
  <2>2. owner' \in [Clock!Locks -> Clock!Cpus \cup {Clock!None}]
    BY <1>0 DEF ClockTypes, Clock!Take, Clock!ReleaseTo, Clock!Waits
  <2>3. /\ thread' \in [Clock!Threads -> ThreadT]
        /\ ticks' \in 0..(TickWrap - 1)
    BY <1>0, ClockAssumption DEF ClockTypes, Clock!Waits
  <2>4. scan' \in [Clock!Cpus -> [next : Nat, ran : BOOLEAN]] /\ panic' = FALSE
    BY <1>0, <1>1, <1>8 DEF ClockTypes, Clock!Waits
  <2>q. QED
    BY <1>9, <2>1, <2>2, <2>3, <2>4 DEF ClockTypes
<1>h. Holders'
  <2>1. \A d \in Clock!Cpus : TopOf(Clock!Ctx(d))' = IF d = c THEN f ELSE TopOf(Clock!Ctx(d))
    BY <1>9 DEF Moved
  <2>2. \A d \in Clock!Cpus : d # Clock!None /\ d \notin {Clock!None}
    BY DEF Clock!Cpus, Clock!None
  <2>3. \A d \in Clock!Cpus : /\ owner["ticks"] = d <=> TopOf(Clock!Ctx(d)).pc \in TicksPcs
                              /\ owner["ptable"] = d <=> TopOf(Clock!Ctx(d)).pc \in PtablePcs
    BY <1>0 DEF Holders
  <2>4. \A l \in Clock!Locks : owner'[l] = owner[l]
    BY <1>0, <1>1 DEF ClockTypes, Clock!Take, Clock!ReleaseTo, Clock!Locks, Clock!Waits
  <2>5. "ticks" \in Clock!Locks /\ "ptable" \in Clock!Locks
    BY DEF Clock!Locks
  <2>q. QED
     BY <1>1, <1>3, <2>1, <2>2, <2>3, <2>4, <2>5 DEF Holders, TicksPcs, PtablePcs, Clock!Free,
         Clock!Take, Clock!Waits
<1>s. Sleepers'
  <2>1. thread' = thread /\ ticks' = ticks
    BY DEF Clock!ReleaseTo, Clock!Waits
  <2>2. WakeComes => WakeComes'
    <3> SUFFICES ASSUME NEW o \in Clock!Cpus, owner["ticks"] = o, TopOf(Clock!Ctx(o)).pc = "wakeup"
                        PROVE WakeComes'
      BY DEF WakeComes
    <3>1. o # Clock!None
      BY DEF Clock!Cpus, Clock!None
    <3>2. owner'["ticks"] = o
       BY <1>0, <1>1, <3>1 DEF ClockTypes, Clock!Locks, Holders, TicksPcs, Clock!Take, Clock!Free,
           Clock!ReleaseTo, Clock!Waits
    <3>3. TopOf(Clock!Ctx(o))'.pc = "wakeup"
      BY <1>1, <1>3, <1>9 DEF Moved
    <3>q. QED
      BY <3>2, <3>3 DEF WakeComes
  <2>3. k \in Clock!Threads /\ Depth(k) = 1 => BaseOf(k).pc = "test" /\ Counted(k) /\ Sleeping(k)
    BY <1>0, <1>1, Shapes DEF Sleepers
  <2>w. thread[k].waited < thread[k].n % TickWrap
    <3>0. k \in Clock!Threads
      BY <1>1, Here DEF ThreadPcs
    <3>1. k = cpu[c].thread /\ Depth(k) = 1
      BY <1>1, Here DEF ThreadPcs
    <3>2. /\ thread[k].ticks0 \in 0..(TickWrap - 1) /\ thread[k].waited \in 0..(TickWrap - 1)
          /\ ticks \in 0..(TickWrap - 1)
          /\ thread[k].n \in Int /\ TickWrap \in Nat \ {0}
      BY <1>0, <3>0, ThreadIs
    <3>3. thread[k].n # 0 => Clock!Elapsed(k) = thread[k].waited
      BY <2>3, <3>0, <3>1, <3>2, ElapsedIs DEF Counted
    <3>4. Clock!Elapsed(k) \in Nat
      BY <3>2 DEF Clock!Elapsed
    <3>5. Clock!Elapsed(k) < thread[k].n % TickWrap
      BY <3>1 DEF Clock!Waits
    <3>6. thread[k].n # 0
      BY <3>2, <3>4, <3>5
    <3>q. QED
      BY <3>3, <3>5, <3>6
  <2>4. k \in Clock!Threads /\ Depth(k) = 1 =>
          /\ f.pc \in {"slept", "test", "sleep1", "again"}
               => BaseOf(k).pc \in {"slept", "test", "sleep1", "again"}
          /\ f.pc = "return" => thread[k].killed \/ thread[k].waited >= thread[k].n % TickWrap
    BY <1>3, <2>3, <2>w DEF Sleeping
  <2>6. f.pc = "sleep1" => thread[k].waited < thread[k].n % TickWrap
    BY <1>0, <1>1, <1>3, <2>w DEF Sleepers, SleepDue
  <2>5. f.pc = "tick" => TopOf(k).pc = "tick"
    BY <1>1, <1>3
  <2>q. QED
    BY <1>9, <2>1, <2>2, <2>4, <2>5, <2>6, SleepersMove
<1>q. QED
  BY <1>9, <1>t, <1>h, <1>s DEF ClockInv

LEMMA TestDoneKeeps ==
  ASSUME ClockInv, NEW c \in Clock!Cpus, Clock!At(c, "test"), ~MustWait(cpu[c].thread),
         Clock!ReleaseTo(c, "ticks", "return"), UNCHANGED <<thread, ticks, scan, panic>>
  PROVE  ClockInv'
<1> DEFINE k == Clock!Ctx(c)
           y == Clock!popcli(cpu[c])
           f == Clock!Saved(Clock!Top(c), "return", FALSE)
<1>0. ClockTypes /\ Stacks /\ Placement /\ Modes /\ Holders /\ Sleepers
  BY DEF ClockInv
<1>1. /\ ~panic /\ TopOf(k).pc = "test" /\ Clock!Top(c) = TopOf(k) /\ TopOf(k) \in Frames
      /\ k \in Clock!Contexts
      /\ cpu[c] \in CpuT /\ Mode(cpu[c], TopOf(k), scan[c].ran)
  BY Here DEF Clock!At, Clock!Take, Clock!Waits, Clock!ReleaseTo
<1>2. TopOf(k).spins \in BOOLEAN /\ cpu[c].ncli \in 0..2 /\ cpu[c].flag \in BOOLEAN
        /\ cpu[c].intena \in BOOLEAN
  BY <1>1, CpuIs, FrameIs
<1>3. f \in Frames /\ f.pc = "return" /\ f.spins = FALSE
  BY <1>1, SavedIs DEF ThreadPcs, SchedPcs, HandlerPcs, Awake, Calm
<1>n. ~TopOf(k).spins
  BY <1>1, <1>0, Shapes DEF SpinPcs
<1>m. cpu[c].ncli = 1 /\ ~cpu[c].flag /\ cpu[c].intena
  BY <1>1, <1>n, ModeIs
<1>4. y \in CpuT /\ y.thread = cpu[c].thread
      /\ y.ncli = cpu[c].ncli - 1 /\ (y.flag <=> cpu[c].ncli = 1 /\ cpu[c].intena)
      /\ y.intena = (cpu[c].ncli > 1 /\ cpu[c].intena)
  <2>1. cpu[c].ncli > 0
    BY <1>1, <1>2, <1>m
  <2>q. QED
    BY <1>1, <2>1, CpuStates
<1>5. Mode(y, f, scan[c].ran)
  <2> HIDE DEF y, f
  <2>3. (y.ncli = 0 /\ y.flag)
    <3>1. CASE TopOf(k).spins
      BY <1>2, <1>3, <1>4, <1>m, <3>1
    <3>2. CASE ~TopOf(k).spins
      BY <1>2, <1>3, <1>4, <1>m, <3>2
    <3>q. QED
      BY <3>1, <3>2
  <2>q. QED
    BY <1>3, <1>4, <2>3, ModeIs
<1>6. /\ cpu' = [cpu EXCEPT ![c] = y] /\ stack' = Clock!Place(f, k)
  BY <1>0, <1>1 DEF ClockTypes, CpuT, Clock!Goto, Clock!ReleaseTo, Clock!Waits, Clock!ReleaseTo
<1>7. Move(c, y, f)
  BY <1>1, <1>3, <1>4, <1>5, <1>6
  DEF Move, Kind, ThreadPcs, SchedPcs, HandlerPcs, Awake, Calm, SpinPcs
<1>8. StatesKept /\ scan' = scan
  BY <1>0 DEF StatesKept, ClockTypes, Clock!ReleaseTo, Clock!Waits, Clock!ReleaseTo
<1>9. /\ Stacks' /\ Placement' /\ Modes' /\ Moved(c, f)
      /\ stack' \in [Clock!Contexts -> Seq(Frames)] /\ cpu' \in [Clock!Cpus -> CpuT]
  BY <1>7, <1>8, MoveKeeps
<1> HIDE DEF y, f
<1>t. ClockTypes'
  <2>1. cpu' \in [Clock!Cpus -> [flag : BOOLEAN, ncli : 0..2, intena : BOOLEAN,
                thread : Clock!Threads \cup {Clock!None}]]
    BY <1>9 DEF CpuT
  <2>2. owner' \in [Clock!Locks -> Clock!Cpus \cup {Clock!None}]
    BY <1>0 DEF ClockTypes, Clock!Take, Clock!ReleaseTo, Clock!Waits, Clock!ReleaseTo
  <2>3. /\ thread' \in [Clock!Threads -> ThreadT]
        /\ ticks' \in 0..(TickWrap - 1)
    BY <1>0, ClockAssumption DEF ClockTypes, Clock!Waits, Clock!ReleaseTo
  <2>4. scan' \in [Clock!Cpus -> [next : Nat, ran : BOOLEAN]] /\ panic' = FALSE
    BY <1>0, <1>1, <1>8 DEF ClockTypes, Clock!Waits, Clock!ReleaseTo
  <2>q. QED
    BY <1>9, <2>1, <2>2, <2>3, <2>4 DEF ClockTypes
<1>h. Holders'
  <2>1. \A d \in Clock!Cpus : TopOf(Clock!Ctx(d))' = IF d = c THEN f ELSE TopOf(Clock!Ctx(d))
    BY <1>9 DEF Moved
  <2>2. \A d \in Clock!Cpus : d # Clock!None /\ d \notin {Clock!None}
    BY DEF Clock!Cpus, Clock!None
  <2>3. \A d \in Clock!Cpus : /\ owner["ticks"] = d <=> TopOf(Clock!Ctx(d)).pc \in TicksPcs
                              /\ owner["ptable"] = d <=> TopOf(Clock!Ctx(d)).pc \in PtablePcs
    BY <1>0 DEF Holders
  <2>4. \A l \in Clock!Locks : owner'[l] = IF l = "ticks" THEN Clock!None ELSE owner[l]
     BY <1>0, <1>1 DEF ClockTypes, Clock!Take, Clock!ReleaseTo, Clock!Locks, Clock!Waits,
         Clock!ReleaseTo
  <2>5. "ticks" \in Clock!Locks /\ "ptable" \in Clock!Locks
    BY DEF Clock!Locks
  <2>q. QED
     BY <1>1, <1>3, <2>1, <2>2, <2>3, <2>4, <2>5 DEF Holders, TicksPcs, PtablePcs, Clock!Free,
         Clock!Take, Clock!Waits, Clock!ReleaseTo
<1>s. Sleepers'
  <2>1. thread' = thread /\ ticks' = ticks
    BY DEF Clock!ReleaseTo, Clock!Waits, Clock!ReleaseTo
  <2>2. WakeComes => WakeComes'
    <3> SUFFICES ASSUME NEW o \in Clock!Cpus, owner["ticks"] = o, TopOf(Clock!Ctx(o)).pc = "wakeup"
                        PROVE WakeComes'
      BY DEF WakeComes
    <3>1. o # Clock!None
      BY DEF Clock!Cpus, Clock!None
    <3>2. owner'["ticks"] = o
       BY <1>0, <1>1, <3>1 DEF ClockTypes, Clock!Locks, Holders, TicksPcs, Clock!Take, Clock!Free,
           Clock!ReleaseTo, Clock!Waits, Clock!ReleaseTo
    <3>3. TopOf(Clock!Ctx(o))'.pc = "wakeup"
      BY <1>1, <1>3, <1>9 DEF Moved
    <3>q. QED
      BY <3>2, <3>3 DEF WakeComes
  <2>3. k \in Clock!Threads /\ Depth(k) = 1 => BaseOf(k).pc = "test" /\ Counted(k) /\ Sleeping(k)
    BY <1>0, <1>1, Shapes DEF Sleepers
  <2>w. k \in Clock!Threads => thread[k].killed \/ thread[k].waited >= thread[k].n % TickWrap
    <3>0. SUFFICES ASSUME k \in Clock!Threads, ~thread[k].killed
                          PROVE thread[k].waited >= thread[k].n % TickWrap
      OBVIOUS
    <3>1. k = cpu[c].thread /\ Depth(k) = 1
      BY <1>1, Here DEF ThreadPcs
    <3>2. /\ thread[k].ticks0 \in 0..(TickWrap - 1) /\ thread[k].waited \in 0..(TickWrap - 1)
          /\ ticks \in 0..(TickWrap - 1)
          /\ thread[k].n \in Int /\ TickWrap \in Nat \ {0}
      BY <1>0, <3>0, ThreadIs
    <3>3. thread[k].n # 0 => Clock!Elapsed(k) = thread[k].waited
      BY <2>3, <3>0, <3>1, <3>2, ElapsedIs DEF Counted
    <3>4. 0 % TickWrap = 0
      BY <3>2
    <3>5. ~(Clock!Elapsed(k) < thread[k].n % TickWrap)
      BY <3>0, <3>1 DEF Clock!Waits, MustWait
    <3>6. thread[k].n % TickWrap \in Nat
      BY <3>2
    <3>q. QED
      BY <3>2, <3>3, <3>4, <3>5, <3>6
  <2>4. k \in Clock!Threads /\ Depth(k) = 1 =>
          /\ f.pc \in {"slept", "test", "sleep1", "again"}
               => BaseOf(k).pc \in {"slept", "test", "sleep1", "again"}
          /\ f.pc = "return" => thread[k].killed \/ thread[k].waited >= thread[k].n % TickWrap
    BY <1>3, <2>3, <2>w DEF Sleeping
  <2>6. f.pc = "sleep1" => thread[k].waited < thread[k].n % TickWrap
    BY <1>0, <1>1, <1>3, <2>w DEF Sleepers, SleepDue
  <2>5. f.pc = "tick" => TopOf(k).pc = "tick"
    BY <1>1, <1>3
  <2>q. QED
    BY <1>9, <2>1, <2>2, <2>4, <2>5, <2>6, SleepersMove
<1>q. QED
  BY <1>9, <1>t, <1>h, <1>s DEF ClockInv

LEMMA TickLockKeeps ==
  ASSUME ClockInv, NEW c \in Clock!Cpus, Clock!TickLock(c)
  PROVE  ClockInv'
<1> DEFINE k == Clock!Ctx(c)
           y == Clock!Got(c)
           f == Clock!Saved(Clock!Top(c), "wakeup", FALSE)
<1>0. ClockTypes /\ Stacks /\ Placement /\ Modes /\ Holders /\ Sleepers
  BY DEF ClockInv
<1>1. /\ ~panic /\ TopOf(k).pc = "tick" /\ Clock!Top(c) = TopOf(k) /\ TopOf(k) \in Frames
      /\ k \in Clock!Contexts
      /\ cpu[c] \in CpuT /\ Mode(cpu[c], TopOf(k), scan[c].ran)
  BY Here DEF Clock!At, Clock!Take, Clock!TickLock
<1>2. TopOf(k).spins \in BOOLEAN /\ cpu[c].ncli \in 0..2 /\ cpu[c].flag \in BOOLEAN
        /\ cpu[c].intena \in BOOLEAN
  BY <1>1, CpuIs, FrameIs
<1>3. f \in Frames /\ f.pc = "wakeup" /\ f.spins = FALSE
  BY <1>1, SavedIs DEF ThreadPcs, SchedPcs, HandlerPcs, Awake, Calm
<1>m. cpu[c].ncli = (IF TopOf(k).spins THEN 1 ELSE 0) /\ ~cpu[c].flag
        /\ (TopOf(k).spins => ~cpu[c].intena)
  BY <1>1, ModeIs
<1>4. y \in CpuT /\ y.thread = cpu[c].thread
      /\ y.ncli = (IF TopOf(k).spins THEN cpu[c].ncli ELSE cpu[c].ncli + 1)
           /\ y.flag = (IF TopOf(k).spins THEN cpu[c].flag ELSE FALSE)
      /\ y.intena = (IF ~TopOf(k).spins /\ cpu[c].ncli = 0 THEN cpu[c].flag ELSE cpu[c].intena)
  <2>1. Clock!Top(c).spins \in BOOLEAN /\ (~Clock!Top(c).spins => cpu[c].ncli < 2)
    BY <1>1, <1>2, <1>m
  <2>2. Clock!Top(c) = TopOf(k) /\ cpu[c] \in CpuT
    BY <1>1
  <2> HIDE DEF k
  <2>q. QED
    BY <2>1, <2>2, GotIs
<1>5. Mode(y, f, scan[c].ran)
  <2> HIDE DEF y, f
  <2>3. (y.ncli = (IF f.spins THEN 2 ELSE 1) /\ ~y.flag /\ ~y.intena)
    <3>1. CASE TopOf(k).spins
      BY <1>2, <1>3, <1>4, <1>m, <3>1
    <3>2. CASE ~TopOf(k).spins
      BY <1>2, <1>3, <1>4, <1>m, <3>2
    <3>q. QED
      BY <3>1, <3>2
  <2>q. QED
    BY <1>3, <1>4, <2>3, ModeIs
<1>6. /\ cpu' = [cpu EXCEPT ![c] = y] /\ stack' = Clock!Place(f, k)
  BY <1>0, <1>1 DEF ClockTypes, CpuT, Clock!Goto, Clock!ReleaseTo, Clock!TickLock
<1>7. Move(c, y, f)
  BY <1>1, <1>3, <1>4, <1>5, <1>6
  DEF Move, Kind, ThreadPcs, SchedPcs, HandlerPcs, Awake, Calm, SpinPcs
<1>8. StatesKept /\ scan' = scan
  BY <1>0 DEF StatesKept, ClockTypes, Clock!ReleaseTo, Clock!TickLock
<1>9. /\ Stacks' /\ Placement' /\ Modes' /\ Moved(c, f)
      /\ stack' \in [Clock!Contexts -> Seq(Frames)] /\ cpu' \in [Clock!Cpus -> CpuT]
  BY <1>7, <1>8, MoveKeeps
<1> HIDE DEF y, f
<1>t. ClockTypes'
  <2>1. cpu' \in [Clock!Cpus -> [flag : BOOLEAN, ncli : 0..2, intena : BOOLEAN,
                thread : Clock!Threads \cup {Clock!None}]]
    BY <1>9 DEF CpuT
  <2>2. owner' \in [Clock!Locks -> Clock!Cpus \cup {Clock!None}]
    BY <1>0 DEF ClockTypes, Clock!Take, Clock!TickLock
  <2>3. thread' \in [Clock!Threads -> ThreadT]
    <3>1. c = 1 /\ \A t \in Clock!Threads : thread[t].waited < TickWrap - 1
      BY <1>0, <1>1 DEF Sleepers, TickDue
    <3>2. thread' = [t \in Clock!Threads |-> [thread[t] EXCEPT !.waited = IF thread[t].n # 0 THEN @ + 1
                  ELSE 0]]
      BY DEF Clock!TickLock
    <3>3. ASSUME NEW t \in Clock!Threads PROVE [thread[t] EXCEPT !.waited = IF thread[t].n # 0
                       THEN @ + 1 ELSE 0] \in ThreadT
      <4>1. thread[t] \in ThreadT
        BY <1>0 DEF ClockTypes
      <4> DEFINE q == IF thread[t].n # 0 THEN thread[t].waited + 1 ELSE 0
      <4>2. q \in 0..(TickWrap - 1)
        BY <1>0, <3>1, ThreadIs
      <4> HIDE DEF q
      <4>3. [thread[t] EXCEPT !.waited = q] \in ThreadT
        BY <4>1, <4>2
      <4>q. QED
        BY <4>3 DEF q
    <3>q. QED
      BY <3>2, <3>3
  <2>4. scan' \in [Clock!Cpus -> [next : Nat, ran : BOOLEAN]] /\ panic' = FALSE
    BY <1>0, <1>1, <1>8 DEF ClockTypes, Clock!TickLock
  <2>5. ticks' \in 0..(TickWrap - 1)
    BY <1>0, ClockAssumption, TickIs DEF ClockTypes, Clock!TickLock
  <2>q. QED
    BY <1>9, <2>1, <2>2, <2>3, <2>4, <2>5 DEF ClockTypes
<1>h. Holders'
  <2>1. \A d \in Clock!Cpus : TopOf(Clock!Ctx(d))' = IF d = c THEN f ELSE TopOf(Clock!Ctx(d))
    BY <1>9 DEF Moved
  <2>2. \A d \in Clock!Cpus : d # Clock!None /\ d \notin {Clock!None}
    BY DEF Clock!Cpus, Clock!None
  <2>3. \A d \in Clock!Cpus : /\ owner["ticks"] = d <=> TopOf(Clock!Ctx(d)).pc \in TicksPcs
                              /\ owner["ptable"] = d <=> TopOf(Clock!Ctx(d)).pc \in PtablePcs
    BY <1>0 DEF Holders
  <2>4. \A l \in Clock!Locks : owner'[l] = IF l = "ticks" THEN c ELSE owner[l]
    BY <1>0, <1>1 DEF ClockTypes, Clock!Take, Clock!ReleaseTo, Clock!Locks, Clock!TickLock
  <2>5. "ticks" \in Clock!Locks /\ "ptable" \in Clock!Locks
    BY DEF Clock!Locks
  <2>q. QED
     BY <1>1, <1>3, <2>1, <2>2, <2>3, <2>4, <2>5 DEF Holders, TicksPcs, PtablePcs, Clock!Free,
         Clock!Take, Clock!TickLock
<1>s. Sleepers'
  <2>a. \A t \in Clock!Threads : BaseOf(t)' = IF t = k /\ Depth(t) = 1 THEN f ELSE BaseOf(t)
    BY <1>9 DEF Moved
  <2>b. \A d \in Clock!Cpus : Clock!Ctx(d)' = Clock!Ctx(d) /\ TopOf(Clock!Ctx(d))' = IF d = c THEN f
          ELSE TopOf(Clock!Ctx(d))
    BY <1>9 DEF Moved
  <2>c. TickDue /\ SleepDue /\ \A t \in Clock!Threads : Counted(t) /\ Sleeping(t)
    BY <1>0 DEF Sleepers
  <2>d. \A t \in Clock!Threads : thread'[t] = [thread[t] EXCEPT !.waited = IF thread[t].n # 0
                THEN @ + 1 ELSE 0]
    BY DEF Clock!TickLock
  <2>e. c = 1 /\ \A t \in Clock!Threads : thread[t].waited < TickWrap - 1
    BY <1>1, <2>c DEF TickDue
  <2>f. \A t \in Clock!Threads :
          /\ thread'[t].n = thread[t].n /\ thread'[t].ticks0 = thread[t].ticks0
          /\ thread'[t].killed = thread[t].killed
          /\ thread'[t].state = thread[t].state
          /\ thread'[t].waited = IF thread[t].n # 0 THEN thread[t].waited + 1 ELSE 0
    <3> SUFFICES ASSUME NEW t \in Clock!Threads
                 PROVE  /\ thread'[t].n = thread[t].n /\ thread'[t].ticks0 = thread[t].ticks0
                        /\ thread'[t].killed = thread[t].killed
                        /\ thread'[t].state = thread[t].state
                        /\ thread'[t].waited = IF thread[t].n # 0 THEN thread[t].waited + 1 ELSE 0
      OBVIOUS
    <3>1. thread[t] \in ThreadT
      BY <1>0 DEF ClockTypes
    <3> DEFINE q == IF thread[t].n # 0 THEN thread[t].waited + 1 ELSE 0
    <3>2. thread'[t] = [thread[t] EXCEPT !.waited = q]
      BY <2>d
    <3> HIDE DEF q
    <3>3. /\ thread'[t].n = thread[t].n /\ thread'[t].ticks0 = thread[t].ticks0
          /\ thread'[t].state = thread[t].state
          /\ thread'[t].waited = q /\ thread'[t].killed = thread[t].killed
      BY <3>1, <3>2
    <3>q. QED
      BY <3>3 DEF q
  <2>g. \A d \in Clock!Cpus : TopOf(Clock!Ctx(d)).pc # "sleep1"
    <3>1. \A d \in Clock!Cpus : d # Clock!None
      BY DEF Clock!Cpus, Clock!None
    <3>q. QED
      BY <1>0, <3>1 DEF Clock!TickLock, Clock!Take, Clock!Free, Holders, TicksPcs
  <2>1. TickDue'
    BY <1>3, <2>b, <2>c, <2>e DEF TickDue
  <2>2. SleepDue'
    BY <1>3, <2>b, <2>g DEF SleepDue
  <2>3. ASSUME NEW t \in Clock!Threads PROVE Counted(t)' /\ Sleeping(t)'
    <3>1. Counted(t) /\ Sleeping(t) /\ BaseOf(t)' = BaseOf(t)
      BY <1>1, <2>a, <2>c, Here DEF HandlerPcs
    <3>2. /\ thread[t].ticks0 \in 0..(TickWrap - 1) /\ thread[t].waited \in 0..(TickWrap - 1)
          /\ ticks \in 0..(TickWrap - 1)
          /\ thread[t].n \in Int /\ TickWrap \in Nat \ {0}
      BY <1>0, ThreadIs
    <3>3. Counted(t)'
      <4>1. ticks' = IF ticks = TickWrap - 1 THEN 0 ELSE ticks + 1
        BY <3>2, TickIs DEF Clock!TickLock
      <4>2. thread'[t].n # 0 => thread'[t].waited = thread[t].waited + 1
        BY <2>f
      <4>3. thread[t].waited < TickWrap - 1
        BY <2>e
      <4>q. QED
        BY <2>f, <3>1, <3>2, <4>1, <4>2, <4>3 DEF Counted
    <3>4. Sleeping(t)'
      <4>1. BaseOf(t).pc = "return" => thread'[t].killed \/ thread'[t].waited >= thread'[t].n % TickWrap
        <5>1. CASE thread[t].n = 0
          <6>1. thread'[t].waited = 0 /\ thread'[t].n = 0
            BY <2>f, <5>1
          <6>2. 0 % TickWrap = 0
            BY <3>2
          <6>q. QED
            BY <6>1, <6>2
        <5>2. CASE thread[t].n # 0
          <6>1. thread'[t].waited = thread[t].waited + 1 /\ thread'[t].n = thread[t].n
                  /\ thread'[t].killed = thread[t].killed
            BY <2>f, <5>2
          <6>2. thread[t].n % TickWrap \in Nat
            BY <3>2
          <6>q. QED
            BY <3>1, <3>2, <6>1, <6>2 DEF Sleeping
        <5>q. QED
          BY <5>1, <5>2
      <4>2. WakeComes'
        <5>1. owner'["ticks"] = c
          BY <1>0 DEF ClockTypes, Clock!Locks, Clock!TickLock, Clock!Take
        <5>q. QED
          BY <1>3, <2>b, <5>1 DEF WakeComes
      <4>q. QED
        BY <3>1, <4>1, <4>2 DEF Sleeping
    <3>q. QED
      BY <3>3, <3>4
  <2>q. QED
    BY <2>1, <2>2, <2>3 DEF Sleepers
<1>q. QED
  BY <1>9, <1>t, <1>h, <1>s DEF ClockInv

LEMMA WakeAllKeeps ==
  ASSUME ClockInv, NEW c \in Clock!Cpus, Clock!WakeAll(c)
  PROVE  ClockInv'
<1> DEFINE k == Clock!Ctx(c)
           y == Clock!popcli(Clock!Got(c))
           f == Clock!Saved(Clock!Top(c), "ticked", FALSE)
<1>0. ClockTypes /\ Stacks /\ Placement /\ Modes /\ Holders /\ Sleepers
  BY DEF ClockInv
<1>1. /\ ~panic /\ TopOf(k).pc = "wakeup" /\ Clock!Top(c) = TopOf(k) /\ TopOf(k) \in Frames
      /\ k \in Clock!Contexts
      /\ cpu[c] \in CpuT /\ Mode(cpu[c], TopOf(k), scan[c].ran)
  BY Here DEF Clock!At, Clock!Take, Clock!WakeAll
<1>2. TopOf(k).spins \in BOOLEAN /\ cpu[c].ncli \in 0..2 /\ cpu[c].flag \in BOOLEAN
        /\ cpu[c].intena \in BOOLEAN
  BY <1>1, CpuIs, FrameIs
<1>3. f \in Frames /\ f.pc = "ticked" /\ f.spins = FALSE
  BY <1>1, SavedIs DEF ThreadPcs, SchedPcs, HandlerPcs, Awake, Calm
<1>m. cpu[c].ncli = (IF TopOf(k).spins THEN 2 ELSE 1) /\ ~cpu[c].flag /\ ~cpu[c].intena
  BY <1>1, ModeIs
<1>4. y \in CpuT /\ y.thread = cpu[c].thread
      /\ y.ncli = 1 /\ ~y.flag /\ ~y.intena
  <2>1. Clock!Top(c).spins \in BOOLEAN /\ (~Clock!Top(c).spins => cpu[c].ncli < 2)
    BY <1>1, <1>2, <1>m
  <2>2. Clock!Top(c) = TopOf(k) /\ cpu[c] \in CpuT
    BY <1>1
  <2> HIDE DEF k
  <2>3. Clock!Got(c) \in CpuT /\ Clock!Got(c).thread = cpu[c].thread /\ Clock!Got(c).ncli = 2
          /\ Clock!Got(c).intena = FALSE
    <3>1. /\ Clock!Got(c) \in CpuT /\ Clock!Got(c).thread = cpu[c].thread
          /\ Clock!Got(c).ncli = IF Clock!Top(c).spins THEN cpu[c].ncli ELSE cpu[c].ncli + 1
          /\ Clock!Got(c).intena = IF ~Clock!Top(c).spins /\ cpu[c].ncli = 0 THEN cpu[c].flag
               ELSE cpu[c].intena
      BY <2>1, <2>2, GotIs
    <3>q. QED
      BY <1>m, <1>2, <2>2, <3>1
  <2>q. QED
    BY <2>3, PopTwo
<1>5. Mode(y, f, scan[c].ran)
  <2> HIDE DEF y, f
  <2>3. (y.ncli = 1 /\ ~y.flag /\ ~y.intena)
    <3>1. CASE TopOf(k).spins
      BY <1>2, <1>3, <1>4, <1>m, <3>1
    <3>2. CASE ~TopOf(k).spins
      BY <1>2, <1>3, <1>4, <1>m, <3>2
    <3>q. QED
      BY <3>1, <3>2
  <2>q. QED
    BY <1>3, <1>4, <2>3, ModeIs
<1>6. /\ cpu' = [cpu EXCEPT ![c] = y] /\ stack' = Clock!Place(f, k)
  BY <1>0, <1>1 DEF ClockTypes, CpuT, Clock!Goto, Clock!ReleaseTo, Clock!WakeAll
<1>7. Move(c, y, f)
  BY <1>1, <1>3, <1>4, <1>5, <1>6
  DEF Move, Kind, ThreadPcs, SchedPcs, HandlerPcs, Awake, Calm, SpinPcs
<1>8. StatesKept /\ scan' = scan
  <2>1. thread' = [t \in Clock!Threads |-> Woken(t)] /\ scan' = scan
    BY DEF Clock!WakeAll, Woken
  <2>q. QED
    BY <1>0, <2>1, WokenIs DEF StatesKept
<1>9. /\ Stacks' /\ Placement' /\ Modes' /\ Moved(c, f)
      /\ stack' \in [Clock!Contexts -> Seq(Frames)] /\ cpu' \in [Clock!Cpus -> CpuT]
  BY <1>7, <1>8, MoveKeeps
<1> HIDE DEF y, f
<1>t. ClockTypes'
  <2>1. cpu' \in [Clock!Cpus -> [flag : BOOLEAN, ncli : 0..2, intena : BOOLEAN,
                thread : Clock!Threads \cup {Clock!None}]]
    BY <1>9 DEF CpuT
  <2>2. owner' \in [Clock!Locks -> Clock!Cpus \cup {Clock!None}]
    BY <1>0 DEF ClockTypes, Clock!Take, Clock!WakeAll
  <2>3. thread' \in [Clock!Threads -> ThreadT]
    <3>1. thread' = [t \in Clock!Threads |-> Woken(t)]
      BY DEF Clock!WakeAll, Woken
    <3>q. QED
      BY <1>0, <3>1, WokenIs
  <2>4. scan' \in [Clock!Cpus -> [next : Nat, ran : BOOLEAN]] /\ panic' = FALSE
    BY <1>0, <1>1, <1>8 DEF ClockTypes, Clock!WakeAll
  <2>5. ticks' \in 0..(TickWrap - 1)
    BY <1>0 DEF ClockTypes, Clock!WakeAll
  <2>q. QED
    BY <1>9, <2>1, <2>2, <2>3, <2>4, <2>5 DEF ClockTypes
<1>h. Holders'
  <2>1. \A d \in Clock!Cpus : TopOf(Clock!Ctx(d))' = IF d = c THEN f ELSE TopOf(Clock!Ctx(d))
    BY <1>9 DEF Moved
  <2>2. \A d \in Clock!Cpus : d # Clock!None /\ d \notin {Clock!None}
    BY DEF Clock!Cpus, Clock!None
  <2>3. \A d \in Clock!Cpus : /\ owner["ticks"] = d <=> TopOf(Clock!Ctx(d)).pc \in TicksPcs
                              /\ owner["ptable"] = d <=> TopOf(Clock!Ctx(d)).pc \in PtablePcs
    BY <1>0 DEF Holders
  <2>4. \A l \in Clock!Locks : owner'[l] = owner[l]
    BY <1>0, <1>1 DEF ClockTypes, Clock!Take, Clock!ReleaseTo, Clock!Locks, Clock!WakeAll
  <2>5. "ticks" \in Clock!Locks /\ "ptable" \in Clock!Locks
    BY DEF Clock!Locks
  <2>q. QED
     BY <1>1, <1>3, <2>1, <2>2, <2>3, <2>4, <2>5 DEF Holders, TicksPcs, PtablePcs, Clock!Free,
         Clock!Take, Clock!WakeAll
<1>s. Sleepers'
  <2>a. \A t \in Clock!Threads : BaseOf(t)' = IF t = k /\ Depth(t) = 1 THEN f ELSE BaseOf(t)
    BY <1>9 DEF Moved
  <2>b. \A d \in Clock!Cpus : Clock!Ctx(d)' = Clock!Ctx(d) /\ TopOf(Clock!Ctx(d))' = IF d = c THEN f
          ELSE TopOf(Clock!Ctx(d))
    BY <1>9 DEF Moved
  <2>c. TickDue /\ SleepDue /\ \A t \in Clock!Threads : Counted(t) /\ Sleeping(t)
    BY <1>0 DEF Sleepers
  <2>d. ticks' = ticks /\ thread' = [t \in Clock!Threads |-> Woken(t)]
    BY DEF Clock!WakeAll, Woken
  <2>e. ASSUME NEW t \in Clock!Threads
        PROVE  /\ thread'[t].n = thread[t].n /\ thread'[t].ticks0 = thread[t].ticks0
               /\ thread'[t].killed = thread[t].killed
               /\ thread'[t].state # "sleeping" /\ thread'[t].waited = thread[t].waited
    BY <1>0, <2>d, WokenIs
  <2>1. TickDue'
    BY <1>3, <2>b, <2>c, <2>e DEF TickDue
  <2>2. SleepDue'
    <3> SUFFICES ASSUME NEW d \in Clock!Cpus, TopOf(Clock!Ctx(d))'.pc = "sleep1"
                 PROVE  thread'[Clock!Ctx(d)].waited < thread'[Clock!Ctx(d)].n % TickWrap
      BY <2>b DEF SleepDue
    <3>1. TopOf(Clock!Ctx(d)).pc = "sleep1"
      BY <1>3, <2>b
    <3>2. Clock!Ctx(d) \in Clock!Threads
      BY <3>1, Here DEF ThreadPcs
    <3>q. QED
      BY <2>c, <2>e, <3>1, <3>2 DEF SleepDue
  <2>3. ASSUME NEW t \in Clock!Threads PROVE Counted(t)' /\ Sleeping(t)'
    <3>1. Counted(t) /\ Sleeping(t) /\ BaseOf(t)' = BaseOf(t)
      BY <1>1, <2>a, <2>c, Here DEF HandlerPcs
    <3>2. Counted(t)'
      BY <2>d, <2>e, <3>1 DEF Counted
    <3>3. Sleeping(t)'
      BY <2>d, <2>e, <3>1 DEF Sleeping
    <3>q. QED
      BY <3>2, <3>3
  <2>q. QED
    BY <2>1, <2>2, <2>3 DEF Sleepers
<1>q. QED
  BY <1>9, <1>t, <1>h, <1>s DEF ClockInv

LEMMA StartKeeps ==
  ASSUME ClockInv, NEW c \in Clock!Cpus, Clock!Start(c)
  PROVE  ClockInv'
<1> DEFINE k == Clock!Ctx(c)
           y == Clock!Got(c)
           f == Clock!Saved(Clock!Top(c), "test", FALSE)
<1>0. ClockTypes /\ Stacks /\ Placement /\ Modes /\ Holders /\ Sleepers
  BY DEF ClockInv
<1>1. /\ ~panic /\ TopOf(k).pc = "sleep" /\ Clock!Top(c) = TopOf(k) /\ TopOf(k) \in Frames
      /\ k \in Clock!Contexts
      /\ cpu[c] \in CpuT /\ Mode(cpu[c], TopOf(k), scan[c].ran)
  BY Here DEF Clock!At, Clock!Take, Clock!Start
<1>2. TopOf(k).spins \in BOOLEAN /\ cpu[c].ncli \in 0..2 /\ cpu[c].flag \in BOOLEAN
        /\ cpu[c].intena \in BOOLEAN
  BY <1>1, CpuIs, FrameIs
<1>3. f \in Frames /\ f.pc = "test" /\ f.spins = FALSE
  BY <1>1, SavedIs DEF ThreadPcs, SchedPcs, HandlerPcs, Awake, Calm
<1>m. cpu[c].ncli = (IF TopOf(k).spins THEN 1 ELSE 0) /\ (cpu[c].flag <=> ~TopOf(k).spins)
        /\ (TopOf(k).spins => cpu[c].intena)
  BY <1>1, ModeIs
<1>r. k \in Clock!Threads /\ k = cpu[c].thread /\ Depth(k) = 1 /\ BaseOf(k) = TopOf(k)
        /\ thread[k].state = "running"
  <2>1. k \in Clock!Threads /\ k = cpu[c].thread /\ Depth(k) = 1 /\ BaseOf(k) = TopOf(k)
    BY <1>1, Here DEF ThreadPcs, Awake
  <2>2. cpu[c].thread # Clock!None
    BY <2>1 DEF Clock!Threads, Clock!None
  <2>q. QED
    BY <1>1, <2>1, <2>2, Here
<1>z. \E m \in Sleeps \cup {0} : thread' = [thread EXCEPT ![k] = [thread[k] EXCEPT !.ticks0 = ticks,
              !.waited = 0]]
  BY <1>r DEF Clock!Start
<1>w. PICK m \in Sleeps \cup {0} : thread' = [thread EXCEPT ![k] = [thread[k] EXCEPT !.ticks0 = ticks,
                   !.waited = 0]]
  BY <1>z
<1>x. /\ thread' \in [Clock!Threads -> ThreadT]
      /\ \A t \in Clock!Threads : t # k => thread'[t] = thread[t]
      /\ thread'[k].state = thread[k].state
      /\ thread'[k].ticks0 = ticks /\ thread'[k].waited = 0
  <2>1. thread \in [Clock!Threads -> ThreadT]
    BY <1>0 DEF ClockTypes
  <2>2. 0 \in 0..(TickWrap - 1) /\ ticks \in 0..(TickWrap - 1) /\ thread[k] \in ThreadT
    BY <1>0, <1>r, <2>1, ClockAssumption DEF ClockTypes
  <2> DEFINE q == [thread[k] EXCEPT !.ticks0 = ticks, !.waited = 0]
  <2>3. q \in ThreadT /\ q.state = thread[k].state /\ q.ticks0 = ticks /\ q.waited = 0
    BY <2>2
  <2> HIDE DEF q
  <2>4. thread' = [thread EXCEPT ![k] = q]
    BY <1>w DEF q
  <2>q. QED
    BY <2>1, <2>3, <2>4, <1>r
<1>4. y \in CpuT /\ y.thread = cpu[c].thread
      /\ y.ncli = (IF TopOf(k).spins THEN cpu[c].ncli ELSE cpu[c].ncli + 1)
           /\ y.flag = (IF TopOf(k).spins THEN cpu[c].flag ELSE FALSE)
      /\ y.intena = (IF ~TopOf(k).spins /\ cpu[c].ncli = 0 THEN cpu[c].flag ELSE cpu[c].intena)
  <2>1. Clock!Top(c).spins \in BOOLEAN /\ (~Clock!Top(c).spins => cpu[c].ncli < 2)
    BY <1>1, <1>2, <1>m
  <2>2. Clock!Top(c) = TopOf(k) /\ cpu[c] \in CpuT
    BY <1>1
  <2> HIDE DEF k
  <2>q. QED
    BY <2>1, <2>2, GotIs
<1>5. Mode(y, f, scan[c].ran)
  <2> HIDE DEF y, f
  <2>3. (y.ncli = 1 /\ ~y.flag /\ y.intena)
    <3>1. CASE TopOf(k).spins
      BY <1>2, <1>3, <1>4, <1>m, <3>1
    <3>2. CASE ~TopOf(k).spins
      BY <1>2, <1>3, <1>4, <1>m, <3>2
    <3>q. QED
      BY <3>1, <3>2
  <2>q. QED
    BY <1>3, <1>4, <2>3, ModeIs
<1>6. /\ cpu' = [cpu EXCEPT ![c] = y] /\ stack' = Clock!Place(f, k)
  BY <1>0, <1>1 DEF ClockTypes, CpuT, Clock!Goto, Clock!ReleaseTo, Clock!Start
<1>7. Move(c, y, f)
  BY <1>1, <1>3, <1>4, <1>5, <1>6
  DEF Move, Kind, ThreadPcs, SchedPcs, HandlerPcs, Awake, Calm, SpinPcs
<1>8. StatesKept /\ scan' = scan
  <2>1. scan' = scan
    BY DEF Clock!Start
  <2>q. QED
    BY <1>r, <1>x, <2>1 DEF StatesKept
<1>9. /\ Stacks' /\ Placement' /\ Modes' /\ Moved(c, f)
      /\ stack' \in [Clock!Contexts -> Seq(Frames)] /\ cpu' \in [Clock!Cpus -> CpuT]
  BY <1>7, <1>8, MoveKeeps
<1> HIDE DEF y, f
<1>t. ClockTypes'
  <2>1. cpu' \in [Clock!Cpus -> [flag : BOOLEAN, ncli : 0..2, intena : BOOLEAN,
                thread : Clock!Threads \cup {Clock!None}]]
    BY <1>9 DEF CpuT
  <2>2. owner' \in [Clock!Locks -> Clock!Cpus \cup {Clock!None}]
    BY <1>0 DEF ClockTypes, Clock!Take, Clock!Start
  <2>3. thread' \in [Clock!Threads -> ThreadT]
    BY <1>x
  <2>4. scan' \in [Clock!Cpus -> [next : Nat, ran : BOOLEAN]] /\ panic' = FALSE
    BY <1>0, <1>1, <1>8 DEF ClockTypes, Clock!Start
  <2>5. ticks' \in 0..(TickWrap - 1)
    BY <1>0 DEF ClockTypes, Clock!Start
  <2>q. QED
    BY <1>9, <2>1, <2>2, <2>3, <2>4, <2>5 DEF ClockTypes
<1>h. Holders'
  <2>1. \A d \in Clock!Cpus : TopOf(Clock!Ctx(d))' = IF d = c THEN f ELSE TopOf(Clock!Ctx(d))
    BY <1>9 DEF Moved
  <2>2. \A d \in Clock!Cpus : d # Clock!None /\ d \notin {Clock!None}
    BY DEF Clock!Cpus, Clock!None
  <2>3. \A d \in Clock!Cpus : /\ owner["ticks"] = d <=> TopOf(Clock!Ctx(d)).pc \in TicksPcs
                              /\ owner["ptable"] = d <=> TopOf(Clock!Ctx(d)).pc \in PtablePcs
    BY <1>0 DEF Holders
  <2>4. \A l \in Clock!Locks : owner'[l] = IF l = "ticks" THEN c ELSE owner[l]
    BY <1>0, <1>1 DEF ClockTypes, Clock!Take, Clock!ReleaseTo, Clock!Locks, Clock!Start
  <2>5. "ticks" \in Clock!Locks /\ "ptable" \in Clock!Locks
    BY DEF Clock!Locks
  <2>q. QED
     BY <1>1, <1>3, <2>1, <2>2, <2>3, <2>4, <2>5 DEF Holders, TicksPcs, PtablePcs, Clock!Free,
         Clock!Take, Clock!Start
<1>s. Sleepers'
  <2>a. \A t \in Clock!Threads : BaseOf(t)' = IF t = k /\ Depth(t) = 1 THEN f ELSE BaseOf(t)
    BY <1>9 DEF Moved
  <2>b. \A d \in Clock!Cpus : Clock!Ctx(d)' = Clock!Ctx(d) /\ TopOf(Clock!Ctx(d))' = IF d = c THEN f
          ELSE TopOf(Clock!Ctx(d))
    BY <1>9 DEF Moved
  <2>c. TickDue /\ SleepDue /\ \A t \in Clock!Threads : Counted(t) /\ Sleeping(t)
    BY <1>0 DEF Sleepers
  <2>1. TickDue'
    <3> SUFFICES ASSUME NEW d \in Clock!Cpus, TopOf(Clock!Ctx(d))'.pc = "tick" PROVE d = 1
                        /\ \A t \in Clock!Threads : thread'[t].waited < TickWrap - 1
      BY DEF TickDue
    <3>1. d = 1 /\ \A t \in Clock!Threads : thread[t].waited < TickWrap - 1
      BY <1>3, <2>b, <2>c DEF TickDue
    <3>2. thread'[k].waited = thread[k].waited \/ thread'[k].waited = 0
      BY <1>x
    <3>3. \A t \in Clock!Threads : thread[t].waited \in Nat
      BY <1>0, ThreadIs
    <3>q. QED
      BY <1>r, <1>x, <3>1, <3>2, <3>3, ClockAssumption
  <2>2. SleepDue'
    <3> SUFFICES ASSUME NEW d \in Clock!Cpus, TopOf(Clock!Ctx(d))'.pc = "sleep1"
                 PROVE  thread'[Clock!Ctx(d)].waited < thread'[Clock!Ctx(d)].n % TickWrap
      BY <2>b DEF SleepDue
    <3>1. TopOf(Clock!Ctx(d)).pc = "sleep1" /\ d # c
      BY <1>3, <2>b
    <3>2. Clock!Ctx(d) \in Clock!Threads
      BY <3>1, Here DEF ThreadPcs
    <3>3. Clock!Ctx(d) # k
      BY <3>1, <1>1
    <3>q. QED
      BY <2>c, <1>x, <3>1, <3>2, <3>3 DEF SleepDue
  <2>3. ASSUME NEW t \in Clock!Threads PROVE Counted(t)' /\ Sleeping(t)'
    <3>0. ticks' = ticks
      BY DEF Clock!Start
    <3>1. CASE t # k
      <4>1. Counted(t) /\ Sleeping(t) /\ BaseOf(t)' = BaseOf(t) /\ thread'[t] = thread[t]
        BY <1>x, <2>a, <2>c, <3>1
      <4>2. WakeComes => WakeComes'
        <5> SUFFICES ASSUME NEW o \in Clock!Cpus, owner["ticks"] = o, TopOf(Clock!Ctx(o)).pc = "wakeup"
                            PROVE WakeComes'
          BY DEF WakeComes
        <5>1. o # Clock!None /\ o # c
          BY <1>1 DEF Clock!Cpus, Clock!None
        <5>2. owner'["ticks"] = o
          BY <1>0, <5>1 DEF ClockTypes, Clock!Locks, Clock!Take, Clock!Free, Clock!Start
        <5>3. TopOf(Clock!Ctx(o))'.pc = "wakeup"
          BY <2>b, <5>1
        <5>q. QED
          BY <5>2, <5>3 DEF WakeComes
      <4>3. Counted(t)'
        BY <3>0, <4>1 DEF Counted
      <4>4. Sleeping(t)'
        BY <4>1, <4>2 DEF Sleeping
      <4>q. QED
        BY <4>3, <4>4
    <3>2. CASE t = k
      <4>1. BaseOf(t)' = f
        BY <1>r, <2>a, <3>2
      <4>2. Counted(t)'
        <5>1. ticks \in Int /\ thread'[k].ticks0 \in Int
          BY <1>0, <1>x, <1>r, ThreadIs
        <5>q. QED
          BY <1>3, <1>x, <3>0, <3>2, <4>1, <5>1 DEF Counted
      <4>3. Sleeping(t)'
        BY <1>3, <1>x, <1>r, <3>2, <4>1 DEF Sleeping
      <4>q. QED
        BY <4>2, <4>3
    <3>q. QED
      BY <3>1, <3>2
  <2>q. QED
    BY <2>1, <2>2, <2>3 DEF Sleepers
<1>q. QED
  BY <1>9, <1>t, <1>h, <1>s DEF ClockInv

LEMMA ReturnKeeps ==
  ASSUME ClockInv, NEW c \in Clock!Cpus, Clock!Return(c)
  PROVE  ClockInv'
<1> DEFINE k == Clock!Ctx(c)
           y == cpu[c]
           f == Clock!Saved(Clock!Top(c), "user", FALSE)
<1>0. ClockTypes /\ Stacks /\ Placement /\ Modes /\ Holders /\ Sleepers
  BY DEF ClockInv
<1>1. /\ ~panic /\ TopOf(k).pc = "return" /\ Clock!Top(c) = TopOf(k) /\ TopOf(k) \in Frames
      /\ k \in Clock!Contexts
      /\ cpu[c] \in CpuT /\ Mode(cpu[c], TopOf(k), scan[c].ran)
  BY Here DEF Clock!At, Clock!Take, Clock!Return
<1>2. TopOf(k).spins \in BOOLEAN /\ cpu[c].ncli \in 0..2 /\ cpu[c].flag \in BOOLEAN
        /\ cpu[c].intena \in BOOLEAN
  BY <1>1, CpuIs, FrameIs
<1>3. f \in Frames /\ f.pc = "user" /\ f.spins = FALSE
  BY <1>1, SavedIs DEF ThreadPcs, SchedPcs, HandlerPcs, Awake, Calm
<1>n. ~TopOf(k).spins
  BY <1>1, <1>0, Shapes DEF SpinPcs
<1>m. cpu[c].ncli = 0 /\ cpu[c].flag
  BY <1>1, <1>n, ModeIs
<1>r. k \in Clock!Threads /\ k = cpu[c].thread /\ Depth(k) = 1 /\ BaseOf(k) = TopOf(k)
        /\ thread[k].state = "running"
  <2>1. k \in Clock!Threads /\ k = cpu[c].thread /\ Depth(k) = 1 /\ BaseOf(k) = TopOf(k)
    BY <1>1, Here DEF ThreadPcs, Awake
  <2>2. cpu[c].thread # Clock!None
    BY <2>1 DEF Clock!Threads, Clock!None
  <2>q. QED
    BY <1>1, <2>1, <2>2, Here
<1>z. \E m \in Sleeps \cup {0} : thread' = [thread EXCEPT ![k] = [thread[k] EXCEPT !.killed = FALSE,
              !.n = 0, !.ticks0 = 0, !.waited = 0]]
  BY <1>r DEF Clock!Return
<1>w. PICK m \in Sleeps \cup {0} : thread' = [thread EXCEPT ![k] = [thread[k] EXCEPT !.killed = FALSE,
                   !.n = 0, !.ticks0 = 0, !.waited = 0]]
  BY <1>z
<1>x. /\ thread' \in [Clock!Threads -> ThreadT]
      /\ \A t \in Clock!Threads : t # k => thread'[t] = thread[t]
      /\ thread'[k].state = thread[k].state
      /\ thread'[k].waited = 0
  <2>1. thread \in [Clock!Threads -> ThreadT]
    BY <1>0 DEF ClockTypes
  <2>2. 0 \in 0..(TickWrap - 1) /\ ticks \in 0..(TickWrap - 1) /\ thread[k] \in ThreadT
    BY <1>0, <1>r, <2>1, ClockAssumption DEF ClockTypes
  <2> DEFINE q == [thread[k] EXCEPT !.killed = FALSE, !.n = 0, !.ticks0 = 0, !.waited = 0]
  <2>3. q \in ThreadT /\ q.state = thread[k].state /\ q.waited = 0
    BY <2>2
  <2> HIDE DEF q
  <2>4. thread' = [thread EXCEPT ![k] = q]
    BY <1>w DEF q
  <2>q. QED
    BY <2>1, <2>3, <2>4, <1>r
<1>4. y \in CpuT /\ y.thread = cpu[c].thread
      /\ y = cpu[c]
  BY <1>1, <1>2
<1>5. Mode(y, f, scan[c].ran)
  <2> HIDE DEF y, f
  <2>3. (y.ncli = 0 /\ y.flag)
    <3>1. CASE TopOf(k).spins
      BY <1>2, <1>3, <1>4, <1>m, <3>1
    <3>2. CASE ~TopOf(k).spins
      BY <1>2, <1>3, <1>4, <1>m, <3>2
    <3>q. QED
      BY <3>1, <3>2
  <2>q. QED
    BY <1>3, <1>4, <2>3, ModeIs
<1>6. /\ cpu' = [cpu EXCEPT ![c] = y] /\ stack' = Clock!Place(f, k)
  BY <1>0, <1>1 DEF ClockTypes, CpuT, Clock!Goto, Clock!ReleaseTo, Clock!Return
<1>7. Move(c, y, f)
  BY <1>1, <1>3, <1>4, <1>5, <1>6
  DEF Move, Kind, ThreadPcs, SchedPcs, HandlerPcs, Awake, Calm, SpinPcs
<1>8. StatesKept /\ scan' = scan
  <2>1. scan' = scan
    BY DEF Clock!Return
  <2>q. QED
    BY <1>r, <1>x, <2>1 DEF StatesKept
<1>9. /\ Stacks' /\ Placement' /\ Modes' /\ Moved(c, f)
      /\ stack' \in [Clock!Contexts -> Seq(Frames)] /\ cpu' \in [Clock!Cpus -> CpuT]
  BY <1>7, <1>8, MoveKeeps
<1> HIDE DEF y, f
<1>t. ClockTypes'
  <2>1. cpu' \in [Clock!Cpus -> [flag : BOOLEAN, ncli : 0..2, intena : BOOLEAN,
                thread : Clock!Threads \cup {Clock!None}]]
    BY <1>9 DEF CpuT
  <2>2. owner' \in [Clock!Locks -> Clock!Cpus \cup {Clock!None}]
    BY <1>0 DEF ClockTypes, Clock!Take, Clock!Return
  <2>3. thread' \in [Clock!Threads -> ThreadT]
    BY <1>x
  <2>4. scan' \in [Clock!Cpus -> [next : Nat, ran : BOOLEAN]] /\ panic' = FALSE
    BY <1>0, <1>1, <1>8 DEF ClockTypes, Clock!Return
  <2>5. ticks' \in 0..(TickWrap - 1)
    BY <1>0 DEF ClockTypes, Clock!Return
  <2>q. QED
    BY <1>9, <2>1, <2>2, <2>3, <2>4, <2>5 DEF ClockTypes
<1>h. Holders'
  <2>1. \A d \in Clock!Cpus : TopOf(Clock!Ctx(d))' = IF d = c THEN f ELSE TopOf(Clock!Ctx(d))
    BY <1>9 DEF Moved
  <2>2. \A d \in Clock!Cpus : d # Clock!None /\ d \notin {Clock!None}
    BY DEF Clock!Cpus, Clock!None
  <2>3. \A d \in Clock!Cpus : /\ owner["ticks"] = d <=> TopOf(Clock!Ctx(d)).pc \in TicksPcs
                              /\ owner["ptable"] = d <=> TopOf(Clock!Ctx(d)).pc \in PtablePcs
    BY <1>0 DEF Holders
  <2>4. \A l \in Clock!Locks : owner'[l] = owner[l]
    BY <1>0, <1>1 DEF ClockTypes, Clock!Take, Clock!ReleaseTo, Clock!Locks, Clock!Return
  <2>5. "ticks" \in Clock!Locks /\ "ptable" \in Clock!Locks
    BY DEF Clock!Locks
  <2>q. QED
     BY <1>1, <1>3, <2>1, <2>2, <2>3, <2>4, <2>5 DEF Holders, TicksPcs, PtablePcs, Clock!Free,
         Clock!Take, Clock!Return
<1>s. Sleepers'
  <2>a. \A t \in Clock!Threads : BaseOf(t)' = IF t = k /\ Depth(t) = 1 THEN f ELSE BaseOf(t)
    BY <1>9 DEF Moved
  <2>b. \A d \in Clock!Cpus : Clock!Ctx(d)' = Clock!Ctx(d) /\ TopOf(Clock!Ctx(d))' = IF d = c THEN f
          ELSE TopOf(Clock!Ctx(d))
    BY <1>9 DEF Moved
  <2>c. TickDue /\ SleepDue /\ \A t \in Clock!Threads : Counted(t) /\ Sleeping(t)
    BY <1>0 DEF Sleepers
  <2>1. TickDue'
    <3> SUFFICES ASSUME NEW d \in Clock!Cpus, TopOf(Clock!Ctx(d))'.pc = "tick" PROVE d = 1
                        /\ \A t \in Clock!Threads : thread'[t].waited < TickWrap - 1
      BY DEF TickDue
    <3>1. d = 1 /\ \A t \in Clock!Threads : thread[t].waited < TickWrap - 1
      BY <1>3, <2>b, <2>c DEF TickDue
    <3>2. thread'[k].waited = thread[k].waited \/ thread'[k].waited = 0
      BY <1>x
    <3>3. \A t \in Clock!Threads : thread[t].waited \in Nat
      BY <1>0, ThreadIs
    <3>q. QED
      BY <1>r, <1>x, <3>1, <3>2, <3>3, ClockAssumption
  <2>2. SleepDue'
    <3> SUFFICES ASSUME NEW d \in Clock!Cpus, TopOf(Clock!Ctx(d))'.pc = "sleep1"
                 PROVE  thread'[Clock!Ctx(d)].waited < thread'[Clock!Ctx(d)].n % TickWrap
      BY <2>b DEF SleepDue
    <3>1. TopOf(Clock!Ctx(d)).pc = "sleep1" /\ d # c
      BY <1>3, <2>b
    <3>2. Clock!Ctx(d) \in Clock!Threads
      BY <3>1, Here DEF ThreadPcs
    <3>3. Clock!Ctx(d) # k
      BY <3>1, <1>1
    <3>q. QED
      BY <2>c, <1>x, <3>1, <3>2, <3>3 DEF SleepDue
  <2>3. ASSUME NEW t \in Clock!Threads PROVE Counted(t)' /\ Sleeping(t)'
    <3>0. ticks' = ticks
      BY DEF Clock!Return
    <3>1. CASE t # k
      <4>1. Counted(t) /\ Sleeping(t) /\ BaseOf(t)' = BaseOf(t) /\ thread'[t] = thread[t]
        BY <1>x, <2>a, <2>c, <3>1
      <4>2. WakeComes => WakeComes'
        <5> SUFFICES ASSUME NEW o \in Clock!Cpus, owner["ticks"] = o, TopOf(Clock!Ctx(o)).pc = "wakeup"
                            PROVE WakeComes'
          BY DEF WakeComes
        <5>1. o # Clock!None /\ o # c
          BY <1>1 DEF Clock!Cpus, Clock!None
        <5>2. owner'["ticks"] = o
          BY <1>0, <5>1 DEF ClockTypes, Clock!Locks, Clock!Take, Clock!Free, Clock!Return
        <5>3. TopOf(Clock!Ctx(o))'.pc = "wakeup"
          BY <2>b, <5>1
        <5>q. QED
          BY <5>2, <5>3 DEF WakeComes
      <4>3. Counted(t)'
        BY <3>0, <4>1 DEF Counted
      <4>4. Sleeping(t)'
        BY <4>1, <4>2 DEF Sleeping
      <4>q. QED
        BY <4>3, <4>4
    <3>2. CASE t = k
      <4>1. BaseOf(t)' = f
        BY <1>r, <2>a, <3>2
      <4>2. Counted(t)'
        <5>1. ticks \in Int /\ thread'[k].ticks0 \in Int
          BY <1>0, <1>x, <1>r, ThreadIs
        <5>q. QED
          BY <1>3, <1>x, <3>0, <3>2, <4>1, <5>1 DEF Counted
      <4>3. Sleeping(t)'
        BY <1>3, <1>x, <1>r, <3>2, <4>1 DEF Sleeping
      <4>q. QED
        BY <4>2, <4>3
    <3>q. QED
      BY <3>1, <3>2
  <2>q. QED
    BY <2>1, <2>2, <2>3 DEF Sleepers
<1>q. QED
  BY <1>9, <1>t, <1>h, <1>s DEF ClockInv

LEMMA EnterKeeps ==
  ASSUME ClockInv, NEW c \in Clock!Cpus, Clock!Enter(c)
  PROVE  ClockInv'
<1> DEFINE k == Clock!Ctx(c)
           y == cpu[c]
           f == Clock!Saved(Clock!Top(c), "sleep", FALSE)
<1>0. ClockTypes /\ Stacks /\ Placement /\ Modes /\ Holders /\ Sleepers
  BY DEF ClockInv
<1>1. /\ ~panic /\ TopOf(k).pc = "user" /\ Clock!Top(c) = TopOf(k) /\ TopOf(k) \in Frames
      /\ k \in Clock!Contexts
      /\ cpu[c] \in CpuT /\ Mode(cpu[c], TopOf(k), scan[c].ran)
  BY Here DEF Clock!At, Clock!Take, Clock!Enter
<1>2. TopOf(k).spins \in BOOLEAN /\ cpu[c].ncli \in 0..2 /\ cpu[c].flag \in BOOLEAN
        /\ cpu[c].intena \in BOOLEAN
  BY <1>1, CpuIs, FrameIs
<1>3. f \in Frames /\ f.pc = "sleep" /\ f.spins = FALSE
  BY <1>1, SavedIs DEF ThreadPcs, SchedPcs, HandlerPcs, Awake, Calm
<1>n. ~TopOf(k).spins
  BY <1>1, <1>0, Shapes DEF SpinPcs
<1>m. cpu[c].ncli = 0 /\ cpu[c].flag
  BY <1>1, <1>n, ModeIs
<1>r. k \in Clock!Threads /\ k = cpu[c].thread /\ Depth(k) = 1 /\ BaseOf(k) = TopOf(k)
        /\ thread[k].state = "running"
  <2>1. k \in Clock!Threads /\ k = cpu[c].thread /\ Depth(k) = 1 /\ BaseOf(k) = TopOf(k)
    BY <1>1, Here DEF ThreadPcs, Awake
  <2>2. cpu[c].thread # Clock!None
    BY <2>1 DEF Clock!Threads, Clock!None
  <2>q. QED
    BY <1>1, <2>1, <2>2, Here
<1>z. \E m \in Sleeps \cup {0} : thread' = [thread EXCEPT ![k] = [thread[k] EXCEPT !.n = m]]
  BY <1>r DEF Clock!Enter
<1>w. PICK m \in Sleeps \cup {0} : thread' = [thread EXCEPT ![k] = [thread[k] EXCEPT !.n = m]]
  BY <1>z
<1>x. /\ thread' \in [Clock!Threads -> ThreadT]
      /\ \A t \in Clock!Threads : t # k => thread'[t] = thread[t]
      /\ thread'[k].state = thread[k].state
      /\ thread'[k].waited = thread[k].waited
  <2>1. thread \in [Clock!Threads -> ThreadT]
    BY <1>0 DEF ClockTypes
  <2>2. 0 \in 0..(TickWrap - 1) /\ ticks \in 0..(TickWrap - 1) /\ thread[k] \in ThreadT
    BY <1>0, <1>r, <2>1, ClockAssumption DEF ClockTypes
  <2> DEFINE q == [thread[k] EXCEPT !.n = m]
  <2>3. q \in ThreadT /\ q.state = thread[k].state /\ q.waited = thread[k].waited
    BY <2>2
  <2> HIDE DEF q
  <2>4. thread' = [thread EXCEPT ![k] = q]
    BY <1>w DEF q
  <2>q. QED
    BY <2>1, <2>3, <2>4, <1>r
<1>4. y \in CpuT /\ y.thread = cpu[c].thread
      /\ y = cpu[c]
  BY <1>1, <1>2
<1>5. Mode(y, f, scan[c].ran)
  <2> HIDE DEF y, f
  <2>3. (y.ncli = (IF f.spins THEN 1 ELSE 0) /\ (y.flag <=> ~f.spins) /\ (f.spins => y.intena))
    <3>1. CASE TopOf(k).spins
      BY <1>2, <1>3, <1>4, <1>m, <3>1
    <3>2. CASE ~TopOf(k).spins
      BY <1>2, <1>3, <1>4, <1>m, <3>2
    <3>q. QED
      BY <3>1, <3>2
  <2>q. QED
    BY <1>3, <1>4, <2>3, ModeIs
<1>6. /\ cpu' = [cpu EXCEPT ![c] = y] /\ stack' = Clock!Place(f, k)
  BY <1>0, <1>1 DEF ClockTypes, CpuT, Clock!Goto, Clock!ReleaseTo, Clock!Enter
<1>7. Move(c, y, f)
  BY <1>1, <1>3, <1>4, <1>5, <1>6
  DEF Move, Kind, ThreadPcs, SchedPcs, HandlerPcs, Awake, Calm, SpinPcs
<1>8. StatesKept /\ scan' = scan
  <2>1. scan' = scan
    BY DEF Clock!Enter
  <2>q. QED
    BY <1>r, <1>x, <2>1 DEF StatesKept
<1>9. /\ Stacks' /\ Placement' /\ Modes' /\ Moved(c, f)
      /\ stack' \in [Clock!Contexts -> Seq(Frames)] /\ cpu' \in [Clock!Cpus -> CpuT]
  BY <1>7, <1>8, MoveKeeps
<1> HIDE DEF y, f
<1>t. ClockTypes'
  <2>1. cpu' \in [Clock!Cpus -> [flag : BOOLEAN, ncli : 0..2, intena : BOOLEAN,
                thread : Clock!Threads \cup {Clock!None}]]
    BY <1>9 DEF CpuT
  <2>2. owner' \in [Clock!Locks -> Clock!Cpus \cup {Clock!None}]
    BY <1>0 DEF ClockTypes, Clock!Take, Clock!Enter
  <2>3. thread' \in [Clock!Threads -> ThreadT]
    BY <1>x
  <2>4. scan' \in [Clock!Cpus -> [next : Nat, ran : BOOLEAN]] /\ panic' = FALSE
    BY <1>0, <1>1, <1>8 DEF ClockTypes, Clock!Enter
  <2>5. ticks' \in 0..(TickWrap - 1)
    BY <1>0 DEF ClockTypes, Clock!Enter
  <2>q. QED
    BY <1>9, <2>1, <2>2, <2>3, <2>4, <2>5 DEF ClockTypes
<1>h. Holders'
  <2>1. \A d \in Clock!Cpus : TopOf(Clock!Ctx(d))' = IF d = c THEN f ELSE TopOf(Clock!Ctx(d))
    BY <1>9 DEF Moved
  <2>2. \A d \in Clock!Cpus : d # Clock!None /\ d \notin {Clock!None}
    BY DEF Clock!Cpus, Clock!None
  <2>3. \A d \in Clock!Cpus : /\ owner["ticks"] = d <=> TopOf(Clock!Ctx(d)).pc \in TicksPcs
                              /\ owner["ptable"] = d <=> TopOf(Clock!Ctx(d)).pc \in PtablePcs
    BY <1>0 DEF Holders
  <2>4. \A l \in Clock!Locks : owner'[l] = owner[l]
    BY <1>0, <1>1 DEF ClockTypes, Clock!Take, Clock!ReleaseTo, Clock!Locks, Clock!Enter
  <2>5. "ticks" \in Clock!Locks /\ "ptable" \in Clock!Locks
    BY DEF Clock!Locks
  <2>q. QED
     BY <1>1, <1>3, <2>1, <2>2, <2>3, <2>4, <2>5 DEF Holders, TicksPcs, PtablePcs, Clock!Free,
         Clock!Take, Clock!Enter
<1>s. Sleepers'
  <2>a. \A t \in Clock!Threads : BaseOf(t)' = IF t = k /\ Depth(t) = 1 THEN f ELSE BaseOf(t)
    BY <1>9 DEF Moved
  <2>b. \A d \in Clock!Cpus : Clock!Ctx(d)' = Clock!Ctx(d) /\ TopOf(Clock!Ctx(d))' = IF d = c THEN f
          ELSE TopOf(Clock!Ctx(d))
    BY <1>9 DEF Moved
  <2>c. TickDue /\ SleepDue /\ \A t \in Clock!Threads : Counted(t) /\ Sleeping(t)
    BY <1>0 DEF Sleepers
  <2>1. TickDue'
    <3> SUFFICES ASSUME NEW d \in Clock!Cpus, TopOf(Clock!Ctx(d))'.pc = "tick" PROVE d = 1
                        /\ \A t \in Clock!Threads : thread'[t].waited < TickWrap - 1
      BY DEF TickDue
    <3>1. d = 1 /\ \A t \in Clock!Threads : thread[t].waited < TickWrap - 1
      BY <1>3, <2>b, <2>c DEF TickDue
    <3>2. thread'[k].waited = thread[k].waited \/ thread'[k].waited = 0
      BY <1>x
    <3>3. \A t \in Clock!Threads : thread[t].waited \in Nat
      BY <1>0, ThreadIs
    <3>q. QED
      BY <1>r, <1>x, <3>1, <3>2, <3>3, ClockAssumption
  <2>2. SleepDue'
    <3> SUFFICES ASSUME NEW d \in Clock!Cpus, TopOf(Clock!Ctx(d))'.pc = "sleep1"
                 PROVE  thread'[Clock!Ctx(d)].waited < thread'[Clock!Ctx(d)].n % TickWrap
      BY <2>b DEF SleepDue
    <3>1. TopOf(Clock!Ctx(d)).pc = "sleep1" /\ d # c
      BY <1>3, <2>b
    <3>2. Clock!Ctx(d) \in Clock!Threads
      BY <3>1, Here DEF ThreadPcs
    <3>3. Clock!Ctx(d) # k
      BY <3>1, <1>1
    <3>q. QED
      BY <2>c, <1>x, <3>1, <3>2, <3>3 DEF SleepDue
  <2>3. ASSUME NEW t \in Clock!Threads PROVE Counted(t)' /\ Sleeping(t)'
    <3>0. ticks' = ticks
      BY DEF Clock!Enter
    <3>1. CASE t # k
      <4>1. Counted(t) /\ Sleeping(t) /\ BaseOf(t)' = BaseOf(t) /\ thread'[t] = thread[t]
        BY <1>x, <2>a, <2>c, <3>1
      <4>2. WakeComes => WakeComes'
        <5> SUFFICES ASSUME NEW o \in Clock!Cpus, owner["ticks"] = o, TopOf(Clock!Ctx(o)).pc = "wakeup"
                            PROVE WakeComes'
          BY DEF WakeComes
        <5>1. o # Clock!None /\ o # c
          BY <1>1 DEF Clock!Cpus, Clock!None
        <5>2. owner'["ticks"] = o
          BY <1>0, <5>1 DEF ClockTypes, Clock!Locks, Clock!Take, Clock!Free, Clock!Enter
        <5>3. TopOf(Clock!Ctx(o))'.pc = "wakeup"
          BY <2>b, <5>1
        <5>q. QED
          BY <5>2, <5>3 DEF WakeComes
      <4>3. Counted(t)'
        BY <3>0, <4>1 DEF Counted
      <4>4. Sleeping(t)'
        BY <4>1, <4>2 DEF Sleeping
      <4>q. QED
        BY <4>3, <4>4
    <3>2. CASE t = k
      <4>1. BaseOf(t)' = f
        BY <1>r, <2>a, <3>2
      <4>2. Counted(t)'
        <5>1. ticks \in Int /\ thread'[k].ticks0 \in Int
          BY <1>0, <1>x, <1>r, ThreadIs
        <5>q. QED
          BY <1>3, <1>x, <3>0, <3>2, <4>1, <5>1 DEF Counted
      <4>3. Sleeping(t)'
        BY <1>3, <1>x, <1>r, <3>2, <4>1 DEF Sleeping
      <4>q. QED
        BY <4>2, <4>3
    <3>q. QED
      BY <3>1, <3>2
  <2>q. QED
    BY <2>1, <2>2, <2>3 DEF Sleepers
<1>q. QED
  BY <1>9, <1>t, <1>h, <1>s DEF ClockInv

-----------------------------------------------------------------------------
\* A CPU goes on in its context, on a frame that is new or uncovered.
Uncovered(c, f, b) ==
  /\ \A d \in Clock!Cpus : Clock!Ctx(d)' = Clock!Ctx(d) /\ TopOf(Clock!Ctx(d))' = IF d = c THEN f
       ELSE TopOf(Clock!Ctx(d))
  /\ \A t \in Clock!Threads : BaseOf(t)' = IF t = Clock!Ctx(c) THEN b ELSE BaseOf(t)
Fits(x, n, f, b) ==
  /\ n = 1 \/ n = 2
  /\ n = 1 => f = b
  /\ b.pc \in IF x \in Clock!Threads THEN ThreadPcs ELSE SchedPcs
  /\ n = 2 => /\ f.pc \in IF x \in Clock!Threads THEN HandlerPcs ELSE HandlerPcs \ {"yield", "yielded"}
              /\ b.pc \in Awake \cup Calm /\ ~b.spins
  /\ ~f.spins
  /\ f.pc \notin {"slept", "yielded", "forkret"}
ScanEnds(c) ==
  /\ \A d \in Clock!Cpus : d # c => scan'[d] = scan[d]
  /\ scan'[c].ran = scan[c].ran \/ (cpu[c].thread = Clock!None /\ ~scan'[c].ran)
  /\ BaseOf(Clock!Ctx(c)).pc = "scan" => cpu[c].thread = Clock!None /\ ~scan'[c].ran

LEMMA StackKeeps ==
  ASSUME ClockInv, NEW c \in Clock!Cpus, NEW y \in CpuT, NEW n, NEW f \in Frames, NEW b \in Frames,
         y.thread = cpu[c].thread, cpu' = [cpu EXCEPT ![c] = y],
         stack' \in [Clock!Contexts -> Seq(Frames)], Becomes(Clock!Ctx(c), n, f, b),
           Fits(Clock!Ctx(c), n, f, b),
         ScanEnds(c), Mode(y, f, scan'[c].ran), thread' = thread, b.pc # "scan"
  PROVE  /\ Stacks' /\ Placement' /\ Modes' /\ Uncovered(c, f, b)
         /\ cpu' \in [Clock!Cpus -> CpuT]
<1> DEFINE k == Clock!Ctx(c)
<1>0. cpu \in [Clock!Cpus -> CpuT] /\ stack \in [Clock!Contexts -> Seq(Frames)] /\ Stacks /\ Placement
        /\ Modes /\ ClockTypes
  BY DEF ClockInv, ClockTypes, CpuT
<1>a. /\ \A d \in Clock!Cpus : Clock!Ctx(d) \in Clock!Contexts /\ Clock!Sched(d) \in Clock!Contexts
           /\ Clock!Sched(d) \notin Clock!Threads
      /\ \A d, o \in Clock!Cpus : Clock!Ctx(d) = Clock!Ctx(o) => d = o
      /\ \A d, o \in Clock!Cpus : Clock!Sched(d) = Clock!Sched(o) => d = o
      /\ \A d \in Clock!Cpus : Clock!Ctx(d) = IF cpu[d].thread = Clock!None THEN Clock!Sched(d)
           ELSE cpu[d].thread
      /\ \A d \in Clock!Cpus : cpu[d].thread # Clock!None => cpu[d].thread \in Clock!Threads
      /\ Clock!Threads \subseteq Clock!Contexts /\ Clock!None \notin Clock!Threads
  BY <1>0, Apart
<1>b. \A x \in Clock!Contexts :
        /\ Depth(x)' = IF x = k THEN n ELSE Depth(x)
        /\ TopOf(x)' = IF x = k THEN f ELSE TopOf(x)
        /\ BaseOf(x)' = IF x = k THEN b ELSE BaseOf(x)
  BY DEF Becomes
<1>c. cpu' \in [Clock!Cpus -> CpuT] /\ \A d \in Clock!Cpus : cpu'[d] = IF d = c THEN y ELSE cpu[d]
  BY <1>0
<1>d. \A d \in Clock!Cpus : cpu'[d].thread = cpu[d].thread
  BY <1>c
<1>e. \A d \in Clock!Cpus : Clock!Ctx(d)' = Clock!Ctx(d)
  BY <1>d DEF Clock!Ctx
<1> HIDE DEF k
<1>k. k = Clock!Ctx(c) /\ k \in Clock!Contexts
  BY <1>a DEF k
<1>1. Uncovered(c, f, b)
  <2>1. \A d \in Clock!Cpus : TopOf(Clock!Ctx(d))' = IF d = c THEN f ELSE TopOf(Clock!Ctx(d))
    <3> TAKE d \in Clock!Cpus
    <3>1. TopOf(Clock!Ctx(d))' = stack'[Clock!Ctx(d)'][1]
            /\ TopOf(Clock!Ctx(d)) = stack[Clock!Ctx(d)][1]
      BY DEF TopOf
    <3>2. stack'[Clock!Ctx(d)][1] = IF Clock!Ctx(d) = k THEN f ELSE stack[Clock!Ctx(d)][1]
      BY <1>a, <1>b DEF TopOf
    <3>q. QED
      BY <3>1, <3>2, <1>e, <1>a, <1>k
  <2>2. \A t \in Clock!Threads : BaseOf(t)' = IF t = k THEN b ELSE BaseOf(t)
    BY <1>a, <1>b
  <2>q. QED
    BY <2>1, <2>2, <1>e, <1>k DEF Uncovered
<1>2. Stacks'
  <2> SUFFICES ASSUME NEW x \in Clock!Contexts PROVE StackShape(x)'
    BY DEF Stacks
  <2>1. StackShape(x)
    BY <1>0 DEF Stacks
  <2>2. /\ Depth(x)' = IF x = k THEN n ELSE Depth(x)
        /\ TopOf(x)' = IF x = k THEN f ELSE TopOf(x)
        /\ BaseOf(x)' = IF x = k THEN b ELSE BaseOf(x)
    BY <1>b
  <2>4. CASE x # k
    BY <2>1, <2>2, <2>4 DEF StackShape
  <2>5. CASE x = k
    BY <2>2, <2>5, <1>k DEF StackShape, Fits
  <2>q. QED
    BY <2>4, <2>5
<1>3. Placement'
  <2>1. \A d \in Clock!Cpus : Placed(d)'
    <3> SUFFICES ASSUME NEW d \in Clock!Cpus, cpu'[d].thread # Clock!None PROVE Placed(d)'
      BY DEF Placed
    <3>1. cpu[d].thread # Clock!None /\ Placed(d)
      BY <1>0, <1>d DEF Placement
    <3>2. Clock!Sched(d) # k
      BY <1>a, <1>k, <3>1
    <3>3. Depth(Clock!Sched(d))' = Depth(Clock!Sched(d))
            /\ TopOf(Clock!Sched(d))' = TopOf(Clock!Sched(d))
      BY <1>a, <1>b, <3>2
    <3>4. scan'[d].ran = scan[d].ran
      BY <3>1 DEF ScanEnds
    <3>q. QED
      BY <3>1, <3>3, <3>4, <1>d DEF Placed
  <2>2. \A d \in Clock!Cpus : BaseOf(Clock!Sched(d))'.pc # "scan" => ~scan'[d].ran
    <3> SUFFICES ASSUME NEW d \in Clock!Cpus, BaseOf(Clock!Sched(d))'.pc # "scan" PROVE ~scan'[d].ran
      OBVIOUS
    <3>1. BaseOf(Clock!Sched(d)).pc # "scan" => ~scan[d].ran
      BY <1>0 DEF Placement
    <3>2. BaseOf(Clock!Sched(d))' = IF Clock!Sched(d) = k THEN b ELSE BaseOf(Clock!Sched(d))
      BY <1>a, <1>b
    <3>3. CASE BaseOf(Clock!Sched(d)).pc # "scan"
      BY <3>1, <3>3 DEF ScanEnds
    <3>4. CASE BaseOf(Clock!Sched(d)).pc = "scan"
      <4>1. Clock!Sched(d) = k
        BY <3>2, <3>4
      <4>2. d = c
        BY <4>1, <1>a, <1>k
      <4>q. QED
        BY <3>4, <4>1, <4>2, <1>k DEF ScanEnds
    <3>q. QED
      BY <3>3, <3>4
  <2>3. ASSUME NEW t \in Clock!Threads
        PROVE  /\ thread'[t].state # "running" => TopOf(t)'.pc \in {"forkret", "yielded", "slept"}
               /\ thread'[t].state = "sleeping" => TopOf(t)'.pc = "slept"
    <3>1. t = k => thread[t].state = "running"
      <4>1. Placed(c)
        BY <1>0 DEF Placement
      <4>2. t = k => cpu[c].thread = t /\ cpu[c].thread # Clock!None
        BY <1>a, <1>k
      <4>q. QED
        BY <4>1, <4>2 DEF Placed
    <3>2. thread[t].state # "running" => TopOf(t)' = TopOf(t)
      BY <1>a, <1>b, <3>1
    <3>3. /\ thread[t].state # "running" => TopOf(t).pc \in {"forkret", "yielded", "slept"}
          /\ thread[t].state = "sleeping" => TopOf(t).pc = "slept"
      BY <1>0 DEF Placement
    <3>q. QED
      BY <3>2, <3>3
  <2>q. QED
    BY <2>1, <2>2, <2>3 DEF Placement
<1>4. Modes'
  <2>1. ASSUME NEW d \in Clock!Cpus PROVE Mode(cpu'[d], TopOf(Clock!Ctx(d))', scan'[d].ran)
    BY <1>0, <1>1, <1>c DEF Uncovered, Modes, ScanEnds
  <2>2. ASSUME NEW t \in Clock!Threads
        PROVE  /\ TopOf(t)'.pc = "slept" => TopOf(t)'.intena
               /\ TopOf(t)'.pc = "yielded" => ~TopOf(t)'.intena
    <3>1. TopOf(t)' = IF t = k THEN f ELSE TopOf(t)
      BY <1>a, <1>b
    <3>q. QED
      BY <3>1, <1>0 DEF Modes, Fits
  <2>q. QED
    BY <2>1, <2>2 DEF Modes
<1>q. QED
  BY <1>1, <1>2, <1>3, <1>4, <1>c

\* The rest of the invariant after such a step.
LEMMA RestKeeps ==
  ASSUME ClockInv, NEW c \in Clock!Cpus, NEW f, NEW b, Uncovered(c, f, b),
         thread' = thread, ticks' = ticks,
         ~(f.pc \in TicksPcs \cup PtablePcs),
         TopOf(Clock!Ctx(c)).pc \notin TicksPcs,
         owner' = IF TopOf(Clock!Ctx(c)).pc \in PtablePcs THEN [owner EXCEPT !["ptable"] = Clock!None]
           ELSE owner,
         f.pc = "tick" => c = 1 /\ \A t \in Clock!Threads : thread[t].waited < TickWrap - 1,
         b.pc = BaseOf(Clock!Ctx(c)).pc \/ Clock!Ctx(c) \notin Clock!Threads
  PROVE  Holders' /\ Sleepers'
<1>0. Holders /\ Sleepers /\ ClockTypes
  BY DEF ClockInv
<1>1. \A d \in Clock!Cpus : d # Clock!None
  BY DEF Clock!Cpus, Clock!None
<1>2. \A d \in Clock!Cpus : Clock!Ctx(d)' = Clock!Ctx(d) /\ TopOf(Clock!Ctx(d))' = IF d = c THEN f
        ELSE TopOf(Clock!Ctx(d))
  BY DEF Uncovered
<1>3. owner'["ticks"] = owner["ticks"]
  BY <1>0 DEF ClockTypes, Clock!Locks
<1>4. owner["ptable"] # c => owner'["ptable"] = owner["ptable"]
  BY <1>0 DEF Holders
<1>5. owner["ptable"] = c => owner'["ptable"] = Clock!None
  BY <1>0 DEF Holders, ClockTypes, Clock!Locks
<1>6. Holders'
  <2> SUFFICES ASSUME NEW d \in Clock!Cpus
               PROVE  /\ owner'["ticks"] = d <=> TopOf(Clock!Ctx(d))'.pc \in TicksPcs
                      /\ owner'["ptable"] = d <=> TopOf(Clock!Ctx(d))'.pc \in PtablePcs
    BY DEF Holders
  <2>1. /\ owner["ticks"] = d <=> TopOf(Clock!Ctx(d)).pc \in TicksPcs
        /\ owner["ptable"] = d <=> TopOf(Clock!Ctx(d)).pc \in PtablePcs
    BY <1>0 DEF Holders
  <2>2. CASE d = c
    BY <1>1, <1>2, <1>3, <1>4, <1>5, <2>1, <2>2
  <2>3. CASE d # c
    BY <1>1, <1>2, <1>3, <1>4, <1>5, <2>1, <2>3
  <2>q. QED
    BY <2>2, <2>3
<1>7. TickDue'
  BY <1>0, <1>2 DEF Sleepers, TickDue
<1>8. SleepDue'
  <2> SUFFICES ASSUME NEW d \in Clock!Cpus, TopOf(Clock!Ctx(d))'.pc = "sleep1"
               PROVE  thread[Clock!Ctx(d)].waited < thread[Clock!Ctx(d)].n % TickWrap
    BY <1>2 DEF SleepDue
  <2>1. d # c
    BY <1>2 DEF TicksPcs
  <2>q. QED
    BY <1>0, <1>2, <2>1 DEF Sleepers, SleepDue
<1>9. WakeComes => WakeComes'
  <2> SUFFICES ASSUME NEW o \in Clock!Cpus, owner["ticks"] = o, TopOf(Clock!Ctx(o)).pc = "wakeup"
                      PROVE WakeComes'
    BY DEF WakeComes
  <2>1. o # c
    BY <1>0 DEF Holders
  <2>q. QED
    BY <1>2, <1>3, <2>1 DEF WakeComes
<1>10. ASSUME NEW t \in Clock!Threads PROVE Counted(t)' /\ Sleeping(t)'
  <2>1. Counted(t) /\ Sleeping(t)
    BY <1>0 DEF Sleepers
  <2>2. BaseOf(t)'.pc = BaseOf(t).pc
    BY DEF Uncovered
  <2>3. Counted(t)'
    BY <2>1, <2>2 DEF Counted
  <2>4. Sleeping(t)'
    BY <1>9, <2>1, <2>2 DEF Sleeping
  <2>q. QED
    BY <2>3, <2>4
<1>q. QED
  BY <1>6, <1>7, <1>8, <1>10 DEF Sleepers

LEMMA FrameOf ==
  ASSUME NEW p \in ThreadPcs \cup SchedPcs \cup HandlerPcs
  PROVE  Clock!Frame(p) \in Frames /\ Clock!Frame(p).pc = p /\ ~Clock!Frame(p).spins
<1> DEFINE P == ThreadPcs \cup SchedPcs \cup HandlerPcs
<1>1. Frames = [pc : P, spins : BOOLEAN, intena : BOOLEAN]
  BY Zenon DEF Frames
<1> HIDE DEF P
<1>2. p \in P
  BY DEF P
<1>3. Clock!Frame(p) \in [pc : P, spins : BOOLEAN, intena : BOOLEAN]
  BY <1>2 DEF Clock!Frame
<1>4. Clock!Frame(p).pc = p /\ ~Clock!Frame(p).spins
  BY DEF Clock!Frame
<1>q. QED
  BY <1>1, <1>3, <1>4

LEMMA HandlerIs ==
  ASSUME ClockInv, NEW c \in Clock!Cpus
  PROVE  /\ Clock!Handler(c) \in Frames /\ Clock!Handler(c).pc \in {"tick", "iret", "yield"}
         /\ ~Clock!Handler(c).spins
         /\ Clock!Handler(c).pc \in IF Clock!Ctx(c) \in Clock!Threads THEN HandlerPcs
              ELSE HandlerPcs \ {"yield", "yielded"}
         /\ Clock!Handler(c).pc = "tick" => c = 1
<1> DEFINE p == IF c = 1 THEN "tick" ELSE Clock!AfterHandler(c)
<1>1. p \in {"tick", "iret", "yield"} /\ (p = "tick" => c = 1)
  BY DEF Clock!AfterHandler
<1>2. p \in IF Clock!Ctx(c) \in Clock!Threads THEN HandlerPcs ELSE HandlerPcs \ {"yield", "yielded"}
  <2>1. cpu[c].thread # Clock!None => Clock!Ctx(c) \in Clock!Threads
    BY Here
  <2>q. QED
    BY <2>1 DEF Clock!AfterHandler, HandlerPcs
<1>3. Clock!Handler(c) = Clock!Frame(p)
  BY DEF Clock!Handler
<1> HIDE DEF p
<1>4. p \in ThreadPcs \cup SchedPcs \cup HandlerPcs
  BY <1>1 DEF HandlerPcs
<1>q. QED
  BY <1>1, <1>2, <1>3, <1>4, FrameOf

LEMMA TypesKeep ==
  ASSUME ClockTypes, cpu' \in [Clock!Cpus -> CpuT], stack' \in [Clock!Contexts -> Seq(Frames)],
         owner' = owner \/ owner' = [owner EXCEPT !["ptable"] = Clock!None],
         thread' = thread, ticks' = ticks, scan' \in [Clock!Cpus -> [next : Nat, ran : BOOLEAN]],
           panic' = panic
  PROVE  ClockTypes'
<1>1. owner' \in [Clock!Locks -> Clock!Cpus \cup {Clock!None}]
  BY DEF ClockTypes, Clock!Locks
<1>q. QED
  BY <1>1 DEF ClockTypes, CpuT

LEMMA InterruptKeeps ==
  ASSUME ClockInv, NEW c \in Clock!Cpus, Clock!Interrupt(c)
  PROVE  ClockInv'
<1> DEFINE k == Clock!Ctx(c)
           f == Clock!Handler(c)
           b == TopOf(k)
           y == [cpu[c] EXCEPT !.flag = FALSE]
<1>0. ClockTypes /\ Stacks /\ stack \in [Clock!Contexts -> Seq(Frames)] /\ cpu \in [Clock!Cpus -> CpuT]
  BY DEF ClockInv, ClockTypes, CpuT
<1>1. /\ k \in Clock!Contexts /\ b \in Frames /\ cpu[c] \in CpuT /\ Mode(cpu[c], b, scan[c].ran)
  BY Here
<1>2. /\ f \in Frames /\ f.pc \in {"tick", "iret", "yield"} /\ ~f.spins
      /\ f.pc \in IF k \in Clock!Threads THEN HandlerPcs ELSE HandlerPcs \ {"yield", "yielded"}
      /\ f.pc = "tick" => c = 1 /\ \A t \in Clock!Threads : thread[t].waited < TickWrap - 1
  BY HandlerIs DEF Clock!Interrupt, Clock!MayTick
<1>3. cpu[c].flag /\ cpu[c].ncli \in 0..2 /\ b.spins \in BOOLEAN
  BY <1>1, CpuIs, FrameIs DEF Clock!Interrupt
<1>4. cpu[c].ncli = 0 /\ b.pc \notin TicksPcs /\ b.pc \notin PtablePcs /\ b.pc \notin HandlerPcs
        /\ ~b.spins
  <2>1. cpu[c].ncli = 0
    BY <1>1, <1>3 DEF Mode
  <2>q. QED
    BY <1>1, <1>3, <2>1 DEF Mode, Held
<1>5. /\ Depth(k) = 1 /\ BaseOf(k) = b
      /\ b.pc \in IF k \in Clock!Threads THEN ThreadPcs ELSE SchedPcs
  BY <1>0, <1>1, <1>4, Shapes
<1>6. b.pc \in Awake \cup Calm /\ b.pc # "scan"
  BY <1>4, <1>5 DEF ThreadPcs, SchedPcs, TicksPcs, PtablePcs
<1>7. y \in CpuT /\ y.thread = cpu[c].thread /\ y.ncli = 0 /\ ~y.flag
  BY <1>1, <1>4 DEF CpuT
<1>8. stack' \in [Clock!Contexts -> Seq(Frames)] /\ Becomes(k, 2, f, b)
  <2> DEFINE s == <<f>> \o stack[k]
  <2>1. stack[k] \in Seq(Frames) /\ Len(stack[k]) = 1 /\ stack[k][1] = b
    BY <1>0, <1>1, <1>5 DEF Depth, TopOf
  <2> HIDE DEF f
  <2>2. s \in Seq(Frames) /\ Shown(s, 2, f, b)
    BY <1>2, <2>1, Pushed
  <2>3. stack' = [stack EXCEPT ![k] = s]
    BY <1>0, <1>1 DEF Clock!Interrupt, f
  <2> HIDE DEF s, k, b
  <2>q. QED
    BY <1>0, <1>1, <2>2, <2>3, OneStack
<1>9. cpu' = [cpu EXCEPT ![c] = y]
  BY <1>0, <1>1 DEF Clock!Interrupt, CpuT
<1>10. Mode(y, f, scan[c].ran)
  BY <1>2, <1>7 DEF Mode, Held, TicksPcs, PtablePcs, HandlerPcs, Awake
<1>u. owner' = owner /\ thread' = thread /\ ticks' = ticks /\ scan' = scan /\ panic' = panic
  BY DEF Clock!Interrupt
<1> HIDE DEF f, b, y
<1>11. Fits(k, 2, f, b)
  BY <1>2, <1>4, <1>5, <1>6 DEF Fits
<1>12. ScanEnds(c)
  BY <1>5, <1>6, <1>u DEF ScanEnds
<1>13. Stacks' /\ Placement' /\ Modes' /\ Uncovered(c, f, b) /\ cpu' \in [Clock!Cpus -> CpuT]
  BY <1>1, <1>2, <1>6, <1>7, <1>8, <1>9, <1>10, <1>11, <1>12, <1>u, StackKeeps
<1>14. ~(f.pc \in TicksPcs \cup PtablePcs) /\ TopOf(k).pc \notin TicksPcs
         /\ TopOf(k).pc \notin PtablePcs
  BY <1>2, <1>4 DEF TicksPcs, PtablePcs, b
<1>15. Holders' /\ Sleepers'
  BY <1>2, <1>5, <1>13, <1>14, <1>u, RestKeeps
<1>16. ClockTypes'
  BY <1>0, <1>8, <1>13, <1>u, TypesKeep DEF ClockTypes
<1>q. QED
  BY <1>13, <1>15, <1>16 DEF ClockInv

LEMMA HaltKeeps ==
  ASSUME ClockInv, NEW c \in Clock!Cpus, Clock!Halt(c)
  PROVE  ClockInv'
<1> DEFINE k == Clock!Ctx(c)
           f == Clock!Handler(c)
           b == Clock!Frame("loop")
           y == [cpu[c] EXCEPT !.flag = FALSE]
<1>0. ClockTypes /\ Stacks /\ stack \in [Clock!Contexts -> Seq(Frames)] /\ cpu \in [Clock!Cpus -> CpuT]
  BY DEF ClockInv, ClockTypes, CpuT
<1>1. /\ k \in Clock!Contexts /\ TopOf(k).pc = "hlt" /\ cpu[c] \in CpuT
      /\ Mode(cpu[c], TopOf(k), scan[c].ran)
      /\ k \notin Clock!Threads /\ Depth(k) = 1 /\ BaseOf(k) = TopOf(k) /\ TopOf(k) \in Frames
  BY Here DEF Clock!Halt, Clock!At, SchedPcs, Calm
<1>2. /\ f \in Frames /\ f.pc \in {"tick", "iret", "yield"} /\ ~f.spins
      /\ f.pc \in IF k \in Clock!Threads THEN HandlerPcs ELSE HandlerPcs \ {"yield", "yielded"}
      /\ f.pc = "tick" => c = 1 /\ \A t \in Clock!Threads : thread[t].waited < TickWrap - 1
  BY HandlerIs DEF Clock!Halt, Clock!MayTick
<1>3. b \in Frames /\ b.pc = "loop" /\ ~b.spins
  BY FrameOf DEF SchedPcs, Calm
<1>4. ~TopOf(k).spins /\ cpu[c].ncli = 0
  <2>1. ~TopOf(k).spins
    BY <1>0, <1>1, Shapes DEF SpinPcs
  <2>q. QED
    BY <1>1, <2>1, ModeIs
<1>7. y \in CpuT /\ y.thread = cpu[c].thread /\ y.ncli = 0 /\ ~y.flag
  BY <1>1, <1>4 DEF CpuT
<1>8. stack' \in [Clock!Contexts -> Seq(Frames)] /\ Becomes(k, 2, f, b)
  <2> DEFINE s == <<f, b>>
  <2>1. stack' = [stack EXCEPT ![k] = s]
    BY DEF Clock!Halt
  <2> HIDE DEF f, b
  <2>2. s \in Seq(Frames) /\ Shown(s, 2, f, b)
    BY <1>2, <1>3, Two
  <2> HIDE DEF s, k
  <2>q. QED
    BY <1>0, <1>1, <2>1, <2>2, OneStack
<1>9. cpu' = [cpu EXCEPT ![c] = y]
  BY <1>0, <1>1 DEF Clock!Halt, CpuT
<1>10. Mode(y, f, scan[c].ran)
  BY <1>2, <1>7 DEF Mode, Held, TicksPcs, PtablePcs, HandlerPcs, Awake
<1>u. owner' = owner /\ thread' = thread /\ ticks' = ticks /\ scan' = scan /\ panic' = panic
  BY DEF Clock!Halt
<1> HIDE DEF f, b, y
<1>11. Fits(k, 2, f, b)
  BY <1>1, <1>2, <1>3 DEF Fits, SchedPcs, Calm
<1>12. ScanEnds(c)
  BY <1>1, <1>u DEF ScanEnds
<1>13. Stacks' /\ Placement' /\ Modes' /\ Uncovered(c, f, b) /\ cpu' \in [Clock!Cpus -> CpuT]
  BY <1>1, <1>2, <1>3, <1>7, <1>8, <1>9, <1>10, <1>11, <1>12, <1>u, StackKeeps
<1>14. ~(f.pc \in TicksPcs \cup PtablePcs) /\ TopOf(k).pc \notin TicksPcs
         /\ TopOf(k).pc \notin PtablePcs
  BY <1>1, <1>2 DEF TicksPcs, PtablePcs
<1>15. Holders' /\ Sleepers'
  BY <1>1, <1>2, <1>13, <1>14, <1>u, RestKeeps
<1>16. ClockTypes'
  BY <1>0, <1>8, <1>13, <1>u, TypesKeep DEF ClockTypes
<1>q. QED
  BY <1>13, <1>15, <1>16 DEF ClockInv

LEMMA IretKeeps ==
  ASSUME ClockInv, NEW c \in Clock!Cpus, Clock!Iret(c)
  PROVE  ClockInv'
<1> DEFINE k == Clock!Ctx(c)
           b == BaseOf(k)
           y == [cpu[c] EXCEPT !.flag = TRUE]
<1>0. ClockTypes /\ Stacks /\ stack \in [Clock!Contexts -> Seq(Frames)] /\ cpu \in [Clock!Cpus -> CpuT]
  BY DEF ClockInv, ClockTypes, CpuT
<1>1. /\ k \in Clock!Contexts /\ TopOf(k).pc = "iret" /\ cpu[c] \in CpuT
      /\ Mode(cpu[c], TopOf(k), scan[c].ran)
      /\ Depth(k) = 2 /\ TopOf(k) \in Frames
  BY Here DEF Clock!Iret, Clock!At, HandlerPcs
<1>3. /\ b \in Frames /\ b.pc \in Awake \cup Calm /\ ~b.spins
      /\ b.pc \in IF k \in Clock!Threads THEN ThreadPcs ELSE SchedPcs
  BY <1>0, <1>1, Shapes
<1>4. ~TopOf(k).spins /\ cpu[c].ncli = 0
  <2>1. ~TopOf(k).spins
    BY <1>0, <1>1, Shapes DEF SpinPcs
  <2>q. QED
    BY <1>1, <2>1, ModeIs
<1>5. b.pc \notin TicksPcs \cup PtablePcs /\ b.pc \notin HandlerPcs /\ b.pc # "scan" /\ b.pc # "tick"
      /\ b.pc \notin {"slept", "yielded", "forkret"}
  BY <1>3 DEF Awake, Calm, TicksPcs, PtablePcs, HandlerPcs
<1>7. y \in CpuT /\ y.thread = cpu[c].thread /\ y.ncli = 0 /\ y.flag
  BY <1>1, <1>4 DEF CpuT
<1>8. stack' \in [Clock!Contexts -> Seq(Frames)] /\ Becomes(k, 1, b, b)
  <2> DEFINE s == Tail(stack[k])
  <2>1. stack[k] \in Seq(Frames) /\ Len(stack[k]) = 2 /\ stack[k][2] = b
    BY <1>0, <1>1 DEF Depth, BaseOf
  <2> HIDE DEF b
  <2>2. s \in Seq(Frames) /\ Shown(s, 1, b, b)
    BY <2>1, Popped
  <2>3. stack' = [stack EXCEPT ![k] = s]
    BY <1>0, <1>1 DEF Clock!Iret
  <2> HIDE DEF s, k
  <2>q. QED
    BY <1>0, <1>1, <2>2, <2>3, OneStack
<1>9. cpu' = [cpu EXCEPT ![c] = y]
  BY <1>0, <1>1 DEF Clock!Iret, CpuT
<1>10. Mode(y, b, scan[c].ran)
  <2> HIDE DEF b, y
  <2>q. QED
    BY <1>3, <1>5, <1>7 DEF Mode, Held
<1>u. owner' = owner /\ thread' = thread /\ ticks' = ticks /\ scan' = scan /\ panic' = panic
  BY DEF Clock!Iret
<1> HIDE DEF b, y
<1>11. Fits(k, 1, b, b)
  BY <1>3, <1>5 DEF Fits
<1>12. ScanEnds(c)
  BY <1>5, <1>u DEF ScanEnds, b
<1>13. Stacks' /\ Placement' /\ Modes' /\ Uncovered(c, b, b) /\ cpu' \in [Clock!Cpus -> CpuT]
  BY <1>1, <1>3, <1>5, <1>7, <1>8, <1>9, <1>10, <1>11, <1>12, <1>u, StackKeeps
<1>14. TopOf(k).pc \notin TicksPcs /\ TopOf(k).pc \notin PtablePcs
  BY <1>1 DEF TicksPcs, PtablePcs
<1>15. Holders' /\ Sleepers'
  BY <1>5, <1>13, <1>14, <1>u, RestKeeps DEF b
<1>16. ClockTypes'
  BY <1>0, <1>8, <1>13, <1>u, TypesKeep DEF ClockTypes
<1>q. QED
  BY <1>13, <1>15, <1>16 DEF ClockInv

LEMMA ScanReleaseKeeps ==
  ASSUME ClockInv, NEW c \in Clock!Cpus, Clock!Scan(c), Clock!Runnable(c) = {}
  PROVE  ClockInv'
<1> DEFINE k == Clock!Ctx(c)
           p == IF scan[c].ran THEN "loop" ELSE "hlt"
           b == Clock!Saved(Clock!Top(c), p, FALSE)
           y == Clock!popcli(cpu[c])
<1>0. ClockTypes /\ Stacks /\ stack \in [Clock!Contexts -> Seq(Frames)] /\ cpu \in [Clock!Cpus -> CpuT]
      /\ owner \in [Clock!Locks -> Clock!Cpus \cup {Clock!None}]
      /\ scan \in [Clock!Cpus -> [next : Nat, ran : BOOLEAN]]
  BY DEF ClockInv, ClockTypes, CpuT
<1>1. /\ k \in Clock!Contexts /\ TopOf(k).pc = "scan" /\ cpu[c] \in CpuT
      /\ Mode(cpu[c], TopOf(k), scan[c].ran)
      /\ k \notin Clock!Threads /\ Depth(k) = 1 /\ TopOf(k) \in Frames /\ Clock!Top(c) = TopOf(k)
      /\ cpu[c].thread = Clock!None
  BY Here DEF Clock!Scan, Clock!At, SchedPcs
<1>2. p \in {"loop", "hlt"} /\ (p = "hlt" => ~scan[c].ran)
  OBVIOUS
<1>3. b \in Frames /\ b.pc = p /\ b.spins = FALSE
  <2>1. p \in ThreadPcs \cup SchedPcs \cup HandlerPcs
    BY <1>2 DEF SchedPcs, Calm
  <2> HIDE DEF p
  <2>q. QED
    BY <1>1, <2>1, SavedIs
<1>4. cpu[c].ncli = 1 /\ (~scan[c].ran => cpu[c].intena)
  <2>1. ~TopOf(k).spins
    BY <1>0, <1>1, Shapes DEF SpinPcs
  <2>q. QED
    BY <1>1, <2>1, ModeIs
<1>5. b.pc \notin TicksPcs \cup PtablePcs
  BY <1>2, <1>3 DEF TicksPcs, PtablePcs
<1>7. y \in CpuT /\ y.thread = cpu[c].thread /\ y.ncli = 0 /\ (y.flag <=> cpu[c].intena)
  <2>1. cpu[c].ncli > 0 /\ cpu[c].intena \in BOOLEAN /\ cpu[c].ncli - 1 = 0
    BY <1>1, <1>4, CpuIs
  <2>q. QED
    BY <1>1, <1>4, <2>1, CpuStates
<1>8. /\ cpu' = [cpu EXCEPT ![c] = y] /\ stack' = Clock!Place(b, k)
      /\ owner' = [owner EXCEPT !["ptable"] = Clock!None]
      /\ thread' = thread /\ ticks' = ticks /\ scan' = [scan EXCEPT ![c] = Clock!NoScan]
      /\ panic' = panic
  BY <1>0, <1>1 DEF Clock!Scan, Clock!ReleaseTo, Clock!Goto, CpuT
<1> HIDE DEF b, y
<1>9. stack' \in [Clock!Contexts -> Seq(Frames)] /\ Becomes(k, 1, b, b)
  BY <1>0, <1>1, <1>3, <1>8, PlaceIs
<1>10. scan' \in [Clock!Cpus -> [next : Nat, ran : BOOLEAN]] /\ ~scan'[c].ran
         /\ \A d \in Clock!Cpus : d # c => scan'[d] = scan[d]
  BY <1>0, <1>8 DEF Clock!NoScan
<1>11. Mode(y, b, scan'[c].ran)
  BY <1>2, <1>3, <1>4, <1>7, <1>10, ModeIs
<1> HIDE DEF p
<1>12. Fits(k, 1, b, b)
  BY <1>1, <1>2, <1>3 DEF Fits, SchedPcs, Calm
<1>13. ScanEnds(c)
  BY <1>1, <1>10 DEF ScanEnds
<1>14. Stacks' /\ Placement' /\ Modes' /\ Uncovered(c, b, b) /\ cpu' \in [Clock!Cpus -> CpuT]
  BY <1>1, <1>2, <1>3, <1>7, <1>8, <1>9, <1>11, <1>12, <1>13, StackKeeps
<1>15. TopOf(k).pc \notin TicksPcs /\ TopOf(k).pc \in PtablePcs
  BY <1>1 DEF TicksPcs, PtablePcs
<1>16. Holders' /\ Sleepers'
  BY <1>1, <1>2, <1>3, <1>5, <1>8, <1>14, <1>15, RestKeeps
<1>17. ClockTypes'
  BY <1>0, <1>8, <1>9, <1>10, <1>14, TypesKeep
<1>q. QED
  BY <1>14, <1>16, <1>17 DEF ClockInv

LEMMA KillKeeps ==
  ASSUME ClockInv, NEW t \in Clock!Threads, Clock!Kill(t)
  PROVE  ClockInv'
<1>0. ClockTypes /\ Stacks /\ Placement /\ Modes /\ Holders /\ Sleepers
  BY DEF ClockInv
<1>1. cpu' = cpu /\ stack' = stack /\ owner' = owner /\ ticks' = ticks /\ scan' = scan /\ panic' = panic
  BY DEF Clock!Kill
<1> DEFINE T == ThreadT
           q == [thread[t] EXCEPT !.killed = TRUE, !.state = IF @ = "sleeping" THEN "runnable" ELSE @]
<1>2. thread \in [Clock!Threads -> T]
  BY <1>0 DEF ClockTypes
<1>3. /\ q \in T /\ q.n = thread[t].n /\ q.ticks0 = thread[t].ticks0 /\ q.waited = thread[t].waited
      /\ q.killed
      /\ q.state = IF thread[t].state = "sleeping" THEN "runnable" ELSE thread[t].state
  BY <1>2
<1>4. thread' = [thread EXCEPT ![t] = q]
  BY <1>2 DEF Clock!Kill
<1> HIDE DEF q
<1>5. thread' \in [Clock!Threads -> T] /\ \A u \in Clock!Threads : thread'[u] = IF u = t THEN q
        ELSE thread[u]
  BY <1>2, <1>3, <1>4
<1>6. ClockTypes'
  BY <1>0, <1>1, <1>5 DEF ClockTypes
<1> HIDE DEF T
<1>7. ASSUME NEW u \in Clock!Threads
      PROVE  /\ thread'[u].n = thread[u].n /\ thread'[u].ticks0 = thread[u].ticks0
             /\ thread'[u].waited = thread[u].waited /\ (thread[u].killed => thread'[u].killed)
             /\ thread'[u].state # "running" => thread[u].state # "running"
             /\ thread[u].state = "running" => thread'[u].state = "running"
             /\ thread'[u].state = "sleeping" => thread[u].state = "sleeping"
  BY <1>3, <1>5
<1>8. /\ \A x : TopOf(x)' = TopOf(x) /\ BaseOf(x)' = BaseOf(x) /\ Depth(x)' = Depth(x)
      /\ \A c : Clock!Ctx(c)' = Clock!Ctx(c)
  BY <1>1 DEF TopOf, BaseOf, Depth, Clock!Ctx
<1>9. Stacks'
  BY <1>0, <1>8 DEF Stacks, StackShape
<1>a. cpu \in [Clock!Cpus -> CpuT]
  BY <1>0 DEF ClockTypes, CpuT
<1>10. Placement'
  <2>1. ASSUME NEW c \in Clock!Cpus PROVE Placed(c)'
    <3>1. Placed(c)
      BY <1>0 DEF Placement
    <3>2. cpu[c].thread # Clock!None => cpu[c].thread \in Clock!Threads
      BY <1>0, <1>a, Apart
    <3>q. QED
      BY <1>1, <1>7, <1>8, <3>1, <3>2 DEF Placed
  <2>2. \A c \in Clock!Cpus : BaseOf(Clock!Sched(c))'.pc # "scan" => ~scan'[c].ran
    BY <1>0, <1>1, <1>8 DEF Placement
  <2>3. ASSUME NEW u \in Clock!Threads
        PROVE  /\ thread'[u].state # "running" => TopOf(u)'.pc \in {"forkret", "yielded", "slept"}
               /\ thread'[u].state = "sleeping" => TopOf(u)'.pc = "slept"
    BY <1>0, <1>7, <1>8 DEF Placement
  <2>q. QED
    BY <2>1, <2>2, <2>3 DEF Placement
<1>11. Modes' /\ Holders'
  BY <1>0, <1>1, <1>8 DEF Modes, Holders
<1>12. TickDue' /\ SleepDue'
  <2>1. TickDue'
    BY <1>0, <1>7, <1>8 DEF Sleepers, TickDue
  <2>2. SleepDue'
    <3> SUFFICES ASSUME NEW d \in Clock!Cpus, TopOf(Clock!Ctx(d)).pc = "sleep1"
                 PROVE  thread'[Clock!Ctx(d)].waited < thread'[Clock!Ctx(d)].n % TickWrap
      BY <1>8 DEF SleepDue
    <3>1. Clock!Ctx(d) \in Clock!Threads
      BY Here DEF ThreadPcs
    <3>q. QED
      BY <1>0, <1>7, <3>1 DEF Sleepers, SleepDue
  <2>q. QED
    BY <2>1, <2>2
<1>13. ASSUME NEW u \in Clock!Threads PROVE Counted(u)' /\ Sleeping(u)'
  <2>1. Counted(u) /\ Sleeping(u)
    BY <1>0 DEF Sleepers
  <2>2. WakeComes => WakeComes'
    BY <1>1, <1>8 DEF WakeComes
  <2>q. QED
    BY <1>1, <1>7, <1>8, <2>1, <2>2 DEF Counted, Sleeping
<1>q. QED
  BY <1>0, <1>6, <1>9, <1>10, <1>11, <1>12, <1>13 DEF ClockInv, Sleepers

-----------------------------------------------------------------------------
\* From a thread to the scheduler of its CPU, and from that to a thread.
Switched(c, f) ==
  LET k == cpu[c].thread IN
  /\ Clock!Ctx(c)' = Clock!Sched(c) /\ TopOf(Clock!Sched(c))' = TopOf(Clock!Sched(c))
  /\ TopOf(Clock!Sched(c)).pc = "scan"
  /\ \A d \in Clock!Cpus : d # c => Clock!Ctx(d)' = Clock!Ctx(d)
       /\ TopOf(Clock!Ctx(d))' = TopOf(Clock!Ctx(d))
  /\ \A t \in Clock!Threads : BaseOf(t)' = IF t = k /\ Depth(k) = 1 THEN f ELSE BaseOf(t)

LEMMA SwitchKeeps ==
  ASSUME ClockInv, NEW c \in Clock!Cpus, NEW y \in CpuT, NEW f \in Frames, NEW k \in Clock!Threads,
         k = cpu[c].thread,
         y.thread = Clock!None, y.ncli = 1, ~y.flag, cpu' = [cpu EXCEPT ![c] = y],
         stack' = Clock!Place(f, k), ~f.spins,
         \/ f.pc = "yielded" /\ Depth(k) = 2 /\ ~f.intena
         \/ f.pc = "slept" /\ Depth(k) = 1 /\ f.intena,
         thread' = [thread EXCEPT ![k].state = IF f.pc = "slept" THEN "sleeping" ELSE "runnable"],
           scan' = scan
  PROVE  /\ Stacks' /\ Placement' /\ Modes' /\ Switched(c, f)
         /\ stack' \in [Clock!Contexts -> Seq(Frames)] /\ cpu' \in [Clock!Cpus -> CpuT]
<1>0. cpu \in [Clock!Cpus -> CpuT] /\ stack \in [Clock!Contexts -> Seq(Frames)] /\ Stacks /\ Placement
        /\ Modes /\ ClockTypes
  BY DEF ClockInv, ClockTypes, CpuT
<1>a. /\ \A d \in Clock!Cpus : Clock!Ctx(d) \in Clock!Contexts /\ Clock!Sched(d) \in Clock!Contexts
           /\ Clock!Sched(d) \notin Clock!Threads
      /\ \A d, o \in Clock!Cpus : Clock!Ctx(d) = Clock!Ctx(o) => d = o
      /\ \A d \in Clock!Cpus : Clock!Ctx(d) = IF cpu[d].thread = Clock!None THEN Clock!Sched(d)
           ELSE cpu[d].thread
      /\ \A d \in Clock!Cpus : cpu[d].thread # Clock!None => cpu[d].thread \in Clock!Threads
      /\ Clock!Threads \subseteq Clock!Contexts /\ Clock!None \notin Clock!Threads
  BY <1>0, Apart
<1>b. stack' \in [Clock!Contexts -> Seq(Frames)]
        /\ Becomes(k, Depth(k), f, IF Depth(k) = 1 THEN f ELSE BaseOf(k))
  BY <1>0, <1>a, PlaceIs
<1>x. \A x \in Clock!Contexts :
        /\ Depth(x)' = Depth(x)
        /\ TopOf(x)' = IF x = k THEN f ELSE TopOf(x)
        /\ BaseOf(x)' = IF x = k /\ Depth(k) = 1 THEN f ELSE BaseOf(x)
  BY <1>b DEF Becomes
<1>c. cpu' \in [Clock!Cpus -> CpuT] /\ \A d \in Clock!Cpus : cpu'[d] = IF d = c THEN y ELSE cpu[d]
  BY <1>0
<1>e. Clock!Ctx(c)' = Clock!Sched(c) /\ \A d \in Clock!Cpus : d # c => Clock!Ctx(d)' = Clock!Ctx(d)
        /\ Clock!Ctx(d) # k
  <2>1. k # Clock!None
    BY <1>a
  <2>q. QED
    BY <1>a, <1>c, <2>1 DEF Clock!Ctx
<1>p. Placed(c) /\ cpu[c].thread # Clock!None
  BY <1>0, <1>a DEF Placement
<1>y. \A x, z : x = z => stack'[x] = stack'[z]
  OBVIOUS
<1>1. Switched(c, f)
  <2>1. TopOf(Clock!Sched(c))' = TopOf(Clock!Sched(c)) /\ TopOf(Clock!Sched(c)).pc = "scan"
    BY <1>a, <1>x, <1>p DEF Placed
  <2>2. \A d \in Clock!Cpus : d # c => Clock!Ctx(d)' = Clock!Ctx(d)
          /\ TopOf(Clock!Ctx(d))' = TopOf(Clock!Ctx(d))
    <3> TAKE d \in Clock!Cpus
    <3>1. TopOf(Clock!Ctx(d))' = stack'[Clock!Ctx(d)'][1]
            /\ TopOf(Clock!Ctx(d)) = stack[Clock!Ctx(d)][1]
      BY DEF TopOf
    <3>2. d # c => stack'[Clock!Ctx(d)][1] = stack[Clock!Ctx(d)][1]
      BY <1>a, <1>e, <1>x DEF TopOf
    <3>q. QED
      BY <3>1, <3>2, <1>e
  <2>3. \A t \in Clock!Threads : BaseOf(t)' = IF t = k /\ Depth(k) = 1 THEN f ELSE BaseOf(t)
    BY <1>a, <1>x
  <2>q. QED
    BY <1>e, <2>1, <2>2, <2>3 DEF Switched
<1>2. Stacks'
  <2> SUFFICES ASSUME NEW x \in Clock!Contexts PROVE StackShape(x)'
    BY DEF Stacks
  <2>1. StackShape(x)
    BY <1>0 DEF Stacks
  <2>2. /\ Depth(x)' = Depth(x)
        /\ TopOf(x)' = IF x = k THEN f ELSE TopOf(x)
        /\ BaseOf(x)' = IF x = k /\ Depth(k) = 1 THEN f ELSE BaseOf(x)
    BY <1>x
  <2>4. CASE x # k
    BY <2>1, <2>2, <2>4 DEF StackShape
  <2>5. CASE x = k
    <3>1. CASE f.pc = "yielded" /\ Depth(k) = 2
      BY <2>1, <2>2, <2>5, <3>1 DEF StackShape, HandlerPcs
    <3>2. CASE f.pc = "slept" /\ Depth(k) = 1
      BY <2>1, <2>2, <2>5, <3>2 DEF StackShape, ThreadPcs
    <3>q. QED
      BY <3>1, <3>2
  <2>q. QED
    BY <2>4, <2>5
<1>s. \A t \in Clock!Threads : thread'[t].state = IF t = k
        THEN (IF f.pc = "slept" THEN "sleeping" ELSE "runnable") ELSE thread[t].state
  BY <1>0 DEF ClockTypes
<1>3. Placement'
  <2>1. \A d \in Clock!Cpus : Placed(d)'
    <3> SUFFICES ASSUME NEW d \in Clock!Cpus, cpu'[d].thread # Clock!None PROVE Placed(d)'
      BY DEF Placed
    <3>0. d # c /\ cpu'[d] = cpu[d]
      BY <1>c
    <3>1. cpu[d].thread # Clock!None /\ Placed(d) /\ cpu[d].thread # k
            /\ cpu[d].thread \in Clock!Threads
      BY <1>0, <1>a, <1>p, <3>0 DEF Placement, Placed
    <3>2. Clock!Sched(d) # k
      BY <1>a
    <3>3. Depth(Clock!Sched(d))' = Depth(Clock!Sched(d))
            /\ TopOf(Clock!Sched(d))' = TopOf(Clock!Sched(d))
      BY <1>a, <1>x, <3>2
    <3>4. \A o \in Clock!Cpus : cpu'[o].thread = cpu'[d].thread => d = o
      BY <1>c, <3>0, <3>1 DEF Placed
    <3>q. QED
      BY <1>s, <3>0, <3>1, <3>3, <3>4 DEF Placed
  <2>2. \A d \in Clock!Cpus : BaseOf(Clock!Sched(d))'.pc # "scan" => ~scan'[d].ran
    BY <1>0, <1>a, <1>x DEF Placement
  <2>3. ASSUME NEW t \in Clock!Threads
        PROVE  /\ thread'[t].state # "running" => TopOf(t)'.pc \in {"forkret", "yielded", "slept"}
               /\ thread'[t].state = "sleeping" => TopOf(t)'.pc = "slept"
    <3>1. TopOf(t)' = IF t = k THEN f ELSE TopOf(t)
      BY <1>a, <1>x
    <3>q. QED
      BY <1>0, <1>s, <3>1 DEF Placement
  <2>q. QED
    BY <2>1, <2>2, <2>3 DEF Placement
<1>4. Modes'
  <2>1. ASSUME NEW d \in Clock!Cpus PROVE Mode(cpu'[d], TopOf(Clock!Ctx(d))', scan'[d].ran)
    <3>1. CASE d # c
      BY <1>0, <1>1, <1>c, <3>1 DEF Switched, Modes
    <3>2. CASE d = c
      <4>1. TopOf(Clock!Sched(c)) \in Frames /\ ~TopOf(Clock!Sched(c)).spins
        BY <1>0, <1>1, <1>a, Shapes DEF Switched, SpinPcs
      <4>2. Mode(y, TopOf(Clock!Sched(c)), scan[c].ran)
        BY <1>1, <1>p, <4>1, ModeIs DEF Placed, Switched
      <4>3. TopOf(Clock!Ctx(c))' = TopOf(Clock!Sched(c))'
        BY <1>e DEF TopOf
      <4>q. QED
        BY <1>1, <1>c, <3>2, <4>2, <4>3 DEF Switched
    <3>q. QED
      BY <3>1, <3>2
  <2>2. ASSUME NEW t \in Clock!Threads
        PROVE  /\ TopOf(t)'.pc = "slept" => TopOf(t)'.intena
               /\ TopOf(t)'.pc = "yielded" => ~TopOf(t)'.intena
    <3>1. TopOf(t)' = IF t = k THEN f ELSE TopOf(t)
      BY <1>a, <1>x
    <3>q. QED
      BY <3>1, <1>0 DEF Modes
  <2>q. QED
    BY <2>1, <2>2 DEF Modes
<1>q. QED
  BY <1>1, <1>2, <1>3, <1>4, <1>b, <1>c

\* What sched leaves of a thread's record.
LEMMA StateIs ==
  ASSUME ClockTypes, NEW k \in Clock!Threads, NEW v \in {"runnable", "running", "sleeping"},
         thread' = [thread EXCEPT ![k].state = v]
  PROVE  /\ thread' \in [Clock!Threads -> ThreadT]
         /\ \A t \in Clock!Threads :
              /\ thread'[t].n = thread[t].n /\ thread'[t].ticks0 = thread[t].ticks0
              /\ thread'[t].waited = thread[t].waited
              /\ (thread'[t].killed <=> thread[t].killed)
              /\ thread'[t].state = IF t = k THEN v ELSE thread[t].state
<1> DEFINE T == ThreadT
           q == [thread[k] EXCEPT !.state = v]
<1>1. thread \in [Clock!Threads -> T]
  BY DEF ClockTypes
<1>2. /\ q \in T /\ q.n = thread[k].n /\ q.ticks0 = thread[k].ticks0 /\ q.waited = thread[k].waited
      /\ (q.killed <=> thread[k].killed) /\ q.state = v
  BY <1>1
<1>3. thread' = [thread EXCEPT ![k] = q]
  OBVIOUS
<1> HIDE DEF q
<1>4. thread' \in [Clock!Threads -> T] /\ \A t \in Clock!Threads : thread'[t] = IF t = k THEN q
        ELSE thread[t]
  BY <1>1, <1>2, <1>3
<1> HIDE DEF T
<1>5. \A t \in Clock!Threads :
              /\ thread'[t].n = thread[t].n /\ thread'[t].ticks0 = thread[t].ticks0
              /\ thread'[t].waited = thread[t].waited
              /\ (thread'[t].killed <=> thread[t].killed)
              /\ thread'[t].state = IF t = k THEN v ELSE thread[t].state
  BY <1>2, <1>4
<1>q. QED
  BY <1>4, <1>5 DEF T

LEMMA YieldKeeps ==
  ASSUME ClockInv, NEW c \in Clock!Cpus, Clock!Yield(c)
  PROVE  ClockInv'
<1> DEFINE k == cpu[c].thread
           x == Clock!Got(c)
           y == [x EXCEPT !.thread = Clock!None]
           f == Clock!Saved(Clock!Top(c), "yielded", x.intena)
<1>0. ClockTypes /\ Stacks /\ Placement /\ Modes /\ Holders /\ Sleepers /\ cpu \in [Clock!Cpus -> CpuT]
      /\ owner \in [Clock!Locks -> Clock!Cpus \cup {Clock!None}]
  BY DEF ClockInv, ClockTypes, CpuT
<1>1. /\ TopOf(k).pc = "yield" /\ Clock!Top(c) = TopOf(k) /\ TopOf(k) \in Frames /\ k \in Clock!Threads
      /\ k = Clock!Ctx(c)
      /\ cpu[c] \in CpuT /\ Mode(cpu[c], TopOf(k), scan[c].ran) /\ Depth(k) = 2
  <2>1. TopOf(Clock!Ctx(c)).pc = "yield"
    BY Here DEF Clock!Yield, Clock!Take, Clock!At
  <2>2. k = Clock!Ctx(c)
    <3>1. Clock!Ctx(c) \in Clock!Threads
      BY <2>1, Here
    <3>q. QED
      BY <3>1, Here
  <2>q. QED
    BY <2>1, <2>2, Here DEF HandlerPcs
<1>2. cpu[c].ncli \in 0..2 /\ TopOf(k).spins \in BOOLEAN /\ cpu[c].flag \in BOOLEAN
  BY <1>1, CpuIs, FrameIs
<1>m. cpu[c].ncli = (IF TopOf(k).spins THEN 1 ELSE 0) /\ ~cpu[c].flag
        /\ (TopOf(k).spins => ~cpu[c].intena)
  BY <1>1, ModeIs
<1>3. x \in CpuT /\ x.ncli = 1 /\ ~x.flag /\ ~x.intena
  <2>1. ~Clock!Top(c).spins => cpu[c].ncli < 2
    BY <1>1, <1>m
  <2>2. Clock!Top(c).spins \in BOOLEAN
    BY <1>1, <1>2
  <2>3. /\ Clock!Got(c) \in CpuT /\ Clock!Got(c).ncli = IF Clock!Top(c).spins THEN cpu[c].ncli
             ELSE cpu[c].ncli + 1
        /\ Clock!Got(c).flag = IF Clock!Top(c).spins THEN cpu[c].flag ELSE FALSE
        /\ Clock!Got(c).intena = IF ~Clock!Top(c).spins /\ cpu[c].ncli = 0 THEN cpu[c].flag
             ELSE cpu[c].intena
    BY <1>1, <2>1, <2>2, GotIs
  <2>q. QED
    BY <1>1, <1>2, <1>m, <2>3
<1>4. y \in CpuT /\ y.thread = Clock!None /\ y.ncli = 1 /\ ~y.flag
  <2> HIDE DEF x
  <2>q. QED
    BY <1>3 DEF CpuT
<1>5. f \in Frames /\ f.pc = "yielded" /\ f.spins = FALSE /\ ~f.intena
  <2>1. x.intena \in BOOLEAN /\ "yielded" \in ThreadPcs \cup SchedPcs \cup HandlerPcs
    BY <1>3, CpuIs DEF HandlerPcs
  <2> HIDE DEF x
  <2>2. x.intena = FALSE
    BY <1>3, <2>1
  <2> DEFINE z == x.intena
  <2> HIDE DEF z
  <2>3. z \in BOOLEAN /\ z = FALSE /\ f = Clock!Saved(TopOf(k), "yielded", z)
    BY <1>1, <2>1, <2>2 DEF z
  <2> HIDE DEF f
  <2>4. /\ Clock!Saved(TopOf(k), "yielded", z) \in Frames
        /\ Clock!Saved(TopOf(k), "yielded", z).pc = "yielded"
        /\ Clock!Saved(TopOf(k), "yielded", z).spins = FALSE
        /\ Clock!Saved(TopOf(k), "yielded", z).intena = z
    BY <1>1, <2>1, <2>3, SavedIs
  <2>q. QED
    BY <2>3, <2>4
<1>6. /\ cpu' = [cpu EXCEPT ![c] = y] /\ stack' = Clock!Place(f, k) /\ scan' = scan /\ ticks' = ticks
      /\ thread' = [thread EXCEPT ![k].state = "runnable"]
      /\ owner' = [owner EXCEPT !["ptable"] = c] /\ owner["ptable"] = Clock!None /\ ~panic
  BY DEF Clock!Yield, Clock!Switch, Clock!Take, Clock!Free, Clock!At
<1>p. owner'["ptable"] = c /\ owner'["ticks"] = owner["ticks"]
        /\ owner' \in [Clock!Locks -> Clock!Cpus \cup {Clock!None}]
  BY <1>0, <1>6 DEF Clock!Locks
<1>7. panic' = FALSE
  <2>1. panic' = (owner'["ptable"] # c \/ x.ncli # 1 \/ x.flag)
    BY DEF Clock!Yield, Clock!Switch
  <2> HIDE DEF x
  <2>q. QED
    BY <1>3, <1>p, <2>1
<1> HIDE DEF f, y, x
<1>8. /\ Stacks' /\ Placement' /\ Modes' /\ Switched(c, f)
      /\ stack' \in [Clock!Contexts -> Seq(Frames)] /\ cpu' \in [Clock!Cpus -> CpuT]
  <2>1. thread' = [thread EXCEPT ![k].state = IF f.pc = "slept" THEN "sleeping" ELSE "runnable"]
    BY <1>5, <1>6
  <2>q. QED
    BY <1>1, <1>4, <1>5, <1>6, <2>1, SwitchKeeps
<1>9. /\ thread' \in [Clock!Threads -> ThreadT]
      /\ \A t \in Clock!Threads :
           /\ thread'[t].n = thread[t].n /\ thread'[t].ticks0 = thread[t].ticks0
           /\ thread'[t].waited = thread[t].waited
           /\ (thread'[t].killed <=> thread[t].killed)
           /\ thread'[t].state = IF t = k THEN "runnable" ELSE thread[t].state
  BY <1>0, <1>1, <1>6, StateIs
<1>10. ClockTypes'
  BY <1>0, <1>6, <1>7, <1>8, <1>9, <1>p DEF ClockTypes, CpuT
<1> HIDE DEF k
<1>11. /\ Clock!Ctx(c)' = Clock!Sched(c) /\ TopOf(Clock!Ctx(c))'.pc = "scan"
       /\ \A d \in Clock!Cpus : d # c => Clock!Ctx(d)' = Clock!Ctx(d)
            /\ TopOf(Clock!Ctx(d))' = TopOf(Clock!Ctx(d))
       /\ \A t \in Clock!Threads : BaseOf(t)' = BaseOf(t)
  <2>1. TopOf(Clock!Ctx(c))' = TopOf(Clock!Sched(c))'
    BY <1>8 DEF Switched, TopOf
  <2>q. QED
    BY <1>1, <1>8, <2>1 DEF Switched, k
<1>12. \A d \in Clock!Cpus : d # Clock!None
  BY DEF Clock!Cpus, Clock!None
<1>13. Holders'
  <2> SUFFICES ASSUME NEW d \in Clock!Cpus
               PROVE  /\ owner'["ticks"] = d <=> TopOf(Clock!Ctx(d))'.pc \in TicksPcs
                      /\ owner'["ptable"] = d <=> TopOf(Clock!Ctx(d))'.pc \in PtablePcs
    BY DEF Holders
  <2>1. /\ owner["ticks"] = d <=> TopOf(Clock!Ctx(d)).pc \in TicksPcs
        /\ owner["ptable"] = d <=> TopOf(Clock!Ctx(d)).pc \in PtablePcs
    BY <1>0 DEF Holders
  <2>2. TopOf(Clock!Ctx(c)).pc \notin TicksPcs /\ "scan" \notin TicksPcs /\ "scan" \in PtablePcs
    BY <1>1 DEF TicksPcs, PtablePcs
  <2>q. QED
    BY <1>6, <1>11, <1>12, <1>p, <2>1, <2>2
<1>14. TickDue' /\ SleepDue'
  <2>1. TickDue'
    BY <1>0, <1>9, <1>11 DEF Sleepers, TickDue
  <2>2. SleepDue'
    <3> SUFFICES ASSUME NEW d \in Clock!Cpus, TopOf(Clock!Ctx(d))'.pc = "sleep1"
                 PROVE  thread'[Clock!Ctx(d)'].waited < thread'[Clock!Ctx(d)'].n % TickWrap
      BY DEF SleepDue
    <3>1. d # c /\ TopOf(Clock!Ctx(d)).pc = "sleep1" /\ Clock!Ctx(d)' = Clock!Ctx(d)
      BY <1>11
    <3>2. Clock!Ctx(d) \in Clock!Threads
      BY <3>1, Here DEF ThreadPcs
    <3>q. QED
      BY <1>0, <1>9, <3>1, <3>2 DEF Sleepers, SleepDue
  <2>q. QED
    BY <2>1, <2>2
<1>15. WakeComes => WakeComes'
  <2> SUFFICES ASSUME NEW o \in Clock!Cpus, owner["ticks"] = o, TopOf(Clock!Ctx(o)).pc = "wakeup"
                      PROVE WakeComes'
    BY DEF WakeComes
  <2>q. QED
    BY <1>1, <1>11, <1>p DEF WakeComes
<1>16. ASSUME NEW t \in Clock!Threads PROVE Counted(t)' /\ Sleeping(t)'
  <2>1. Counted(t) /\ Sleeping(t)
    BY <1>0 DEF Sleepers
  <2>q. QED
    BY <1>6, <1>9, <1>11, <1>15, <2>1 DEF Counted, Sleeping
<1>q. QED
  BY <1>8, <1>10, <1>13, <1>14, <1>16 DEF ClockInv, Sleepers

LEMMA SleepLockKeeps ==
  ASSUME ClockInv, NEW c \in Clock!Cpus, Clock!SleepLock(c)
  PROVE  ClockInv'
<1> DEFINE k == cpu[c].thread
           x == Clock!popcli(Clock!Got(c))
           y == [x EXCEPT !.thread = Clock!None]
           f == Clock!Saved(Clock!Top(c), "slept", x.intena)
<1>0. ClockTypes /\ Stacks /\ Placement /\ Modes /\ Holders /\ Sleepers /\ cpu \in [Clock!Cpus -> CpuT]
      /\ owner \in [Clock!Locks -> Clock!Cpus \cup {Clock!None}]
  BY DEF ClockInv, ClockTypes, CpuT
<1>1. /\ TopOf(k).pc = "sleep1" /\ Clock!Top(c) = TopOf(k) /\ TopOf(k) \in Frames
      /\ k \in Clock!Threads /\ k = Clock!Ctx(c)
      /\ cpu[c] \in CpuT /\ Mode(cpu[c], TopOf(k), scan[c].ran) /\ Depth(k) = 1 /\ BaseOf(k) = TopOf(k)
  BY Here DEF Clock!SleepLock, Clock!At, ThreadPcs
<1>2. cpu[c].ncli \in 0..2 /\ TopOf(k).spins \in BOOLEAN /\ cpu[c].flag \in BOOLEAN
  BY <1>1, CpuIs, FrameIs
<1>m. cpu[c].ncli = (IF TopOf(k).spins THEN 2 ELSE 1) /\ ~cpu[c].flag /\ cpu[c].intena
  BY <1>1, ModeIs
<1>3. x \in CpuT /\ x.ncli = 1 /\ ~x.flag /\ x.intena
  <2>1. ~Clock!Top(c).spins => cpu[c].ncli < 2
    BY <1>1, <1>m
  <2>2. Clock!Top(c).spins \in BOOLEAN
    BY <1>1, <1>2
  <2>3. /\ Clock!Got(c) \in CpuT /\ Clock!Got(c).ncli = IF Clock!Top(c).spins THEN cpu[c].ncli
             ELSE cpu[c].ncli + 1
        /\ Clock!Got(c).intena = IF ~Clock!Top(c).spins /\ cpu[c].ncli = 0 THEN cpu[c].flag
             ELSE cpu[c].intena
    BY <1>1, <2>1, <2>2, GotIs
  <2>4. Clock!Got(c) \in CpuT /\ Clock!Got(c).ncli = 2 /\ Clock!Got(c).intena
    BY <1>1, <1>2, <1>m, <2>3
  <2>5. Clock!Got(c).intena = TRUE /\ Clock!Got(c).ncli > 0
    BY <2>4, CpuIs
  <2> DEFINE g == Clock!Got(c)
  <2>6. g \in CpuT /\ g.ncli = 2 /\ g.ncli > 0 /\ g.intena
    BY <2>4, <2>5
  <2> HIDE DEF g
  <2>7. /\ Clock!popcli(g) \in CpuT /\ Clock!popcli(g).ncli = g.ncli - 1
        /\ Clock!popcli(g).flag = (g.ncli = 1 /\ g.intena)
        /\ Clock!popcli(g).intena = (g.ncli > 1 /\ g.intena)
    BY <2>6, CpuStates
  <2>9. (g.ncli = 1 /\ g.intena) = FALSE /\ (g.ncli > 1 /\ g.intena) = TRUE /\ g.ncli - 1 = 1
    BY <2>6, CpuIs
  <2>8. Clock!popcli(g) \in CpuT /\ Clock!popcli(g).ncli = 1 /\ ~Clock!popcli(g).flag
          /\ Clock!popcli(g).intena
    BY <2>7, <2>9
  <2>q. QED
    BY <2>8 DEF g
<1>4. y \in CpuT /\ y.thread = Clock!None /\ y.ncli = 1 /\ ~y.flag
  <2> HIDE DEF x
  <2>q. QED
    BY <1>3 DEF CpuT
<1>5. f \in Frames /\ f.pc = "slept" /\ f.spins = FALSE /\ f.intena
  <2>1. x.intena \in BOOLEAN /\ "slept" \in ThreadPcs \cup SchedPcs \cup HandlerPcs
    BY <1>3, CpuIs DEF ThreadPcs
  <2> HIDE DEF x
  <2>2. x.intena = TRUE
    BY <1>3, <2>1
  <2> DEFINE z == x.intena
  <2> HIDE DEF z
  <2>3. z \in BOOLEAN /\ z = TRUE /\ f = Clock!Saved(TopOf(k), "slept", z)
    BY <1>1, <2>1, <2>2 DEF z
  <2> HIDE DEF f
  <2>4. /\ Clock!Saved(TopOf(k), "slept", z) \in Frames
        /\ Clock!Saved(TopOf(k), "slept", z).pc = "slept"
        /\ Clock!Saved(TopOf(k), "slept", z).spins = FALSE
        /\ Clock!Saved(TopOf(k), "slept", z).intena = z
    BY <1>1, <2>1, <2>3, SavedIs
  <2>q. QED
    BY <2>3, <2>4
<1>6. /\ cpu' = [cpu EXCEPT ![c] = y] /\ stack' = Clock!Place(f, k) /\ scan' = scan /\ ticks' = ticks
      /\ thread' = [thread EXCEPT ![k].state = "sleeping"]
      /\ owner' = [owner EXCEPT !["ptable"] = c, !["ticks"] = Clock!None]
      /\ owner["ptable"] = Clock!None /\ ~panic
  BY DEF Clock!SleepLock, Clock!Switch, Clock!Free, Clock!At
<1>p. owner'["ptable"] = c /\ owner'["ticks"] = Clock!None
        /\ owner' \in [Clock!Locks -> Clock!Cpus \cup {Clock!None}]
  BY <1>0, <1>6 DEF Clock!Locks
<1>7. panic' = FALSE
  <2>1. panic' = (owner'["ptable"] # c \/ x.ncli # 1 \/ x.flag)
    BY DEF Clock!SleepLock, Clock!Switch
  <2> HIDE DEF x
  <2>q. QED
    BY <1>3, <1>p, <2>1
<1> HIDE DEF f, y, x
<1>8. /\ Stacks' /\ Placement' /\ Modes' /\ Switched(c, f)
      /\ stack' \in [Clock!Contexts -> Seq(Frames)] /\ cpu' \in [Clock!Cpus -> CpuT]
  <2>1. thread' = [thread EXCEPT ![k].state = IF f.pc = "slept" THEN "sleeping" ELSE "runnable"]
    BY <1>5, <1>6
  <2>q. QED
    BY <1>1, <1>4, <1>5, <1>6, <2>1, SwitchKeeps
<1>9. /\ thread' \in [Clock!Threads -> ThreadT]
      /\ \A t \in Clock!Threads :
           /\ thread'[t].n = thread[t].n /\ thread'[t].ticks0 = thread[t].ticks0
           /\ thread'[t].waited = thread[t].waited
           /\ (thread'[t].killed <=> thread[t].killed)
           /\ thread'[t].state = IF t = k THEN "sleeping" ELSE thread[t].state
  BY <1>0, <1>1, <1>6, StateIs
<1>10. ClockTypes'
  BY <1>0, <1>6, <1>7, <1>8, <1>9, <1>p DEF ClockTypes, CpuT
<1> HIDE DEF k
<1>11. /\ Clock!Ctx(c)' = Clock!Sched(c) /\ TopOf(Clock!Ctx(c))'.pc = "scan"
       /\ \A d \in Clock!Cpus : d # c => Clock!Ctx(d)' = Clock!Ctx(d)
            /\ TopOf(Clock!Ctx(d))' = TopOf(Clock!Ctx(d))
       /\ \A t \in Clock!Threads : BaseOf(t)' = IF t = k THEN f ELSE BaseOf(t)
  <2>1. TopOf(Clock!Ctx(c))' = TopOf(Clock!Sched(c))'
    BY <1>8 DEF Switched, TopOf
  <2>q. QED
    BY <1>1, <1>8, <2>1 DEF Switched, k
<1>12. \A d \in Clock!Cpus : d # Clock!None
  BY DEF Clock!Cpus, Clock!None
<1>h. owner["ticks"] = c
  BY <1>0, <1>1 DEF Holders, TicksPcs
<1>13. Holders'
  <2> SUFFICES ASSUME NEW d \in Clock!Cpus
               PROVE  /\ owner'["ticks"] = d <=> TopOf(Clock!Ctx(d))'.pc \in TicksPcs
                      /\ owner'["ptable"] = d <=> TopOf(Clock!Ctx(d))'.pc \in PtablePcs
    BY DEF Holders
  <2>1. /\ owner["ticks"] = d <=> TopOf(Clock!Ctx(d)).pc \in TicksPcs
        /\ owner["ptable"] = d <=> TopOf(Clock!Ctx(d)).pc \in PtablePcs
    BY <1>0 DEF Holders
  <2>2. "scan" \notin TicksPcs /\ "scan" \in PtablePcs
    BY DEF TicksPcs, PtablePcs
  <2>q. QED
    BY <1>6, <1>11, <1>12, <1>h, <1>p, <2>1, <2>2
<1>14. TickDue' /\ SleepDue'
  <2>1. TickDue'
    BY <1>0, <1>9, <1>11 DEF Sleepers, TickDue
  <2>2. SleepDue'
    <3> SUFFICES ASSUME NEW d \in Clock!Cpus, TopOf(Clock!Ctx(d))'.pc = "sleep1"
                 PROVE  FALSE
      BY DEF SleepDue
    <3>1. d # c /\ TopOf(Clock!Ctx(d)).pc = "sleep1"
      BY <1>11
    <3>q. QED
      BY <1>0, <1>h, <3>1 DEF Holders, TicksPcs
  <2>q. QED
    BY <2>1, <2>2
<1>15. ~WakeComes
  BY <1>1, <1>h DEF WakeComes
<1>16. ASSUME NEW t \in Clock!Threads PROVE Counted(t)' /\ Sleeping(t)'
  <2>1. Counted(t) /\ Sleeping(t)
    BY <1>0 DEF Sleepers
  <2>2. t = k => thread[t].waited < thread[t].n % TickWrap
    BY <1>0, <1>1 DEF Sleepers, SleepDue
  <2>3. CASE t = k
    BY <1>1, <1>5, <1>6, <1>9, <1>11, <2>1, <2>2, <2>3 DEF Counted, Sleeping
  <2>4. CASE t # k
    BY <1>6, <1>9, <1>11, <1>15, <2>1, <2>4 DEF Counted, Sleeping
  <2>q. QED
    BY <2>3, <2>4
<1>q. QED
  BY <1>8, <1>10, <1>13, <1>14, <1>16 DEF ClockInv, Sleepers

LEMMA PickKeeps ==
  ASSUME ClockInv, NEW c \in Clock!Cpus, Clock!Scan(c), Clock!Runnable(c) # {}
  PROVE  ClockInv'
<1>0. ClockTypes /\ Stacks /\ Placement /\ Modes /\ Holders /\ Sleepers /\ cpu \in [Clock!Cpus -> CpuT]
  BY DEF ClockInv, ClockTypes, CpuT
<1>1. PICK k \in Clock!First(Clock!Runnable(c)) :
        /\ cpu' = [cpu EXCEPT ![c].thread = k]
        /\ thread' = [thread EXCEPT ![k].state = "running"]
        /\ scan' = [scan EXCEPT ![c] = [next |-> k + 1, ran |-> TRUE]]
        /\ UNCHANGED <<stack, owner>>
  BY DEF Clock!Scan
<1>2. k \in Clock!Threads /\ thread[k].state = "runnable"
  BY <1>1 DEF Clock!First, Clock!Runnable
<1>3. /\ TopOf(Clock!Ctx(c)).pc = "scan" /\ Clock!Ctx(c) = Clock!Sched(c) /\ cpu[c].thread = Clock!None
      /\ cpu[c] \in CpuT
      /\ Mode(cpu[c], TopOf(Clock!Ctx(c)), scan[c].ran) /\ Depth(Clock!Ctx(c)) = 1
      /\ TopOf(Clock!Ctx(c)) \in Frames /\ Clock!Ctx(c) \in Clock!Contexts
  BY Here DEF Clock!Scan, Clock!At, SchedPcs
<1>4. TopOf(k).pc \in {"forkret", "yielded", "slept"} /\ ~TopOf(k).spins /\ TopOf(k) \in Frames
  <2>1. TopOf(k).pc \in {"forkret", "yielded", "slept"}
    BY <1>0, <1>2 DEF Placement
  <2>q. QED
    BY <1>0, <1>2, <2>1, Shapes DEF Clock!Contexts, SpinPcs
<1>a. /\ \A d \in Clock!Cpus : Clock!Ctx(d) \in Clock!Contexts
      /\ \A d \in Clock!Cpus : cpu[d].thread # Clock!None => cpu[d].thread \in Clock!Threads
      /\ Clock!None \notin Clock!Threads
  BY <1>0, Apart
<1> DEFINE y == [cpu[c] EXCEPT !.thread = k]
<1>5. cpu' = [cpu EXCEPT ![c] = y]
  BY <1>1
<1>6. y \in CpuT /\ y.thread = k /\ y.ncli = 1 /\ ~y.flag
  <2>1. ~TopOf(Clock!Ctx(c)).spins
    BY <1>0, <1>3, Shapes DEF SpinPcs
  <2>2. cpu[c].ncli = 1 /\ ~cpu[c].flag
    BY <1>3, <2>1, ModeIs
  <2>q. QED
    BY <1>2, <1>3, <2>2 DEF CpuT
<1> HIDE DEF y
<1>7. cpu' \in [Clock!Cpus -> CpuT] /\ \A d \in Clock!Cpus : cpu'[d] = IF d = c THEN y ELSE cpu[d]
  BY <1>0, <1>5, <1>6
<1>8. /\ thread' \in [Clock!Threads -> ThreadT]
      /\ \A t \in Clock!Threads :
           /\ thread'[t].n = thread[t].n /\ thread'[t].ticks0 = thread[t].ticks0
           /\ thread'[t].waited = thread[t].waited
           /\ (thread'[t].killed <=> thread[t].killed)
           /\ thread'[t].state = IF t = k THEN "running" ELSE thread[t].state
  BY <1>0, <1>1, <1>2, StateIs
<1>9. /\ scan' \in [Clock!Cpus -> [next : Nat, ran : BOOLEAN]] /\ scan'[c].ran
      /\ \A d \in Clock!Cpus : d # c => scan'[d] = scan[d]
  BY <1>0, <1>1, <1>2 DEF ClockTypes, Clock!Threads
<1>10. stack' = stack /\ owner' = owner /\ ticks' = ticks /\ panic' = panic
  BY <1>1 DEF Clock!Scan
<1>11. \A x : TopOf(x)' = TopOf(x) /\ BaseOf(x)' = BaseOf(x) /\ Depth(x)' = Depth(x)
  BY <1>10 DEF TopOf, BaseOf, Depth
<1>12. /\ Clock!Ctx(c)' = k /\ TopOf(Clock!Ctx(c))' = TopOf(k)
       /\ \A d \in Clock!Cpus : d # c => Clock!Ctx(d)' = Clock!Ctx(d)
            /\ TopOf(Clock!Ctx(d))' = TopOf(Clock!Ctx(d))
  <2>1. Clock!Ctx(c)' = k /\ \A d \in Clock!Cpus : d # c => Clock!Ctx(d)' = Clock!Ctx(d)
    BY <1>2, <1>6, <1>7, <1>a DEF Clock!Ctx
  <2>q. QED
    BY <1>10, <2>1 DEF TopOf
<1>13. ClockTypes'
  BY <1>0, <1>7, <1>8, <1>9, <1>10 DEF ClockTypes, CpuT
<1>14. Stacks'
  BY <1>0, <1>11 DEF Stacks, StackShape
<1>15. Placement'
  <2>1. ASSUME NEW d \in Clock!Cpus, cpu'[d].thread # Clock!None PROVE Placed(d)'
    <3>1. ASSUME NEW o \in Clock!Cpus PROVE cpu[o].thread # k
      <4>1. Placed(o)
        BY <1>0 DEF Placement
      <4>q. QED
        BY <1>2, <1>a, <4>1 DEF Placed
    <3>2. CASE d = c
      <4>1. /\ thread'[k].state = "running" /\ Depth(Clock!Sched(c)) = 1
            /\ TopOf(Clock!Sched(c)).pc = "scan"
            /\ \A o \in Clock!Cpus : cpu'[o].thread = k => o = c
        BY <1>2, <1>3, <1>6, <1>7, <1>8, <3>1
      <4>q. QED
        BY <1>6, <1>7, <1>9, <1>11, <3>2, <4>1 DEF Placed
    <3>3. CASE d # c
      <4>1. cpu'[d] = cpu[d] /\ Placed(d) /\ cpu[d].thread # Clock!None
              /\ cpu[d].thread \in Clock!Threads
        BY <1>0, <1>7, <1>a, <2>1, <3>3 DEF Placement
      <4>2. \A o \in Clock!Cpus : cpu'[o].thread = cpu'[d].thread => d = o
        BY <1>6, <1>7, <3>1, <3>3, <4>1 DEF Placed
      <4>3. thread'[cpu[d].thread].state = "running"
        BY <1>8, <4>1 DEF Placed
      <4>q. QED
        BY <1>9, <1>11, <3>3, <4>1, <4>2, <4>3 DEF Placed
    <3>q. QED
      BY <3>2, <3>3
  <2>2. \A d \in Clock!Cpus : Placed(d)'
    BY <2>1 DEF Placed
  <2>3. \A d \in Clock!Cpus : BaseOf(Clock!Sched(d))'.pc # "scan" => ~scan'[d].ran
    <3>1. BaseOf(Clock!Sched(c)).pc = "scan"
      BY <1>0, <1>3, Shapes
    <3>q. QED
      BY <1>0, <1>9, <1>11, <3>1 DEF Placement
  <2>4. ASSUME NEW t \in Clock!Threads
        PROVE  /\ thread'[t].state # "running" => TopOf(t)'.pc \in {"forkret", "yielded", "slept"}
               /\ thread'[t].state = "sleeping" => TopOf(t)'.pc = "slept"
    BY <1>0, <1>8, <1>11 DEF Placement
  <2>q. QED
    BY <2>2, <2>3, <2>4 DEF Placement
<1>16. Modes'
  <2>1. ASSUME NEW d \in Clock!Cpus PROVE Mode(cpu'[d], TopOf(Clock!Ctx(d))', scan'[d].ran)
    <3>1. CASE d # c
      BY <1>0, <1>7, <1>9, <1>12, <3>1 DEF Modes
    <3>2. CASE d = c
      <4>1. Mode(y, TopOf(k), scan'[c].ran)
        BY <1>4, <1>6, ModeIs
      <4>q. QED
        BY <1>7, <1>12, <3>2, <4>1
    <3>q. QED
      BY <3>1, <3>2
  <2>q. QED
    BY <1>0, <1>11, <2>1 DEF Modes
<1>17. Holders'
  <2> SUFFICES ASSUME NEW d \in Clock!Cpus
               PROVE  /\ owner'["ticks"] = d <=> TopOf(Clock!Ctx(d))'.pc \in TicksPcs
                      /\ owner'["ptable"] = d <=> TopOf(Clock!Ctx(d))'.pc \in PtablePcs
    BY DEF Holders
  <2>1. /\ owner["ticks"] = d <=> TopOf(Clock!Ctx(d)).pc \in TicksPcs
        /\ owner["ptable"] = d <=> TopOf(Clock!Ctx(d)).pc \in PtablePcs
    BY <1>0 DEF Holders
  <2>2. /\ TopOf(k).pc \in TicksPcs <=> TopOf(Clock!Ctx(c)).pc \in TicksPcs
        /\ TopOf(k).pc \in PtablePcs <=> TopOf(Clock!Ctx(c)).pc \in PtablePcs
    BY <1>3, <1>4 DEF TicksPcs, PtablePcs
  <2>q. QED
    BY <1>10, <1>12, <2>1, <2>2
<1>18. TickDue' /\ SleepDue'
  <2>1. TickDue'
    BY <1>0, <1>4, <1>8, <1>12 DEF Sleepers, TickDue
  <2>2. SleepDue'
    <3> SUFFICES ASSUME NEW d \in Clock!Cpus, TopOf(Clock!Ctx(d))'.pc = "sleep1"
                 PROVE  thread'[Clock!Ctx(d)'].waited < thread'[Clock!Ctx(d)'].n % TickWrap
      BY DEF SleepDue
    <3>1. d # c /\ TopOf(Clock!Ctx(d)).pc = "sleep1" /\ Clock!Ctx(d)' = Clock!Ctx(d)
      BY <1>4, <1>12
    <3>2. Clock!Ctx(d) \in Clock!Threads
      BY <3>1, Here DEF ThreadPcs
    <3>q. QED
      BY <1>0, <1>8, <3>1, <3>2 DEF Sleepers, SleepDue
  <2>q. QED
    BY <2>1, <2>2
<1>19. WakeComes => WakeComes'
  <2> SUFFICES ASSUME NEW o \in Clock!Cpus, owner["ticks"] = o, TopOf(Clock!Ctx(o)).pc = "wakeup"
                      PROVE WakeComes'
    BY DEF WakeComes
  <2>q. QED
    BY <1>3, <1>10, <1>12 DEF WakeComes
<1>20. ASSUME NEW t \in Clock!Threads PROVE Counted(t)' /\ Sleeping(t)'
  <2>1. Counted(t) /\ Sleeping(t)
    BY <1>0 DEF Sleepers
  <2>q. QED
    BY <1>8, <1>10, <1>11, <1>19, <2>1 DEF Counted, Sleeping
<1>q. QED
  BY <1>13, <1>14, <1>15, <1>16, <1>17, <1>18, <1>20 DEF ClockInv, Sleepers

-----------------------------------------------------------------------------
LEMMA ClockInit == Clock!Init => ClockInv
<1> SUFFICES ASSUME Clock!Init PROVE ClockInv
  OBVIOUS
<1> DEFINE p(x) == IF x \in Clock!Threads THEN "forkret" ELSE "loop"
<1>1. ASSUME NEW x \in Clock!Contexts
      PROVE  /\ Clock!Frame(p(x)) \in Frames /\ Clock!Frame(p(x)).pc = p(x) /\ ~Clock!Frame(p(x)).spins
             /\ stack[x] = <<Clock!Frame(p(x))>>
  <2>1. p(x) \in ThreadPcs \cup SchedPcs \cup HandlerPcs
    BY DEF ThreadPcs, SchedPcs, Calm
  <2>2. stack[x] = <<Clock!Frame(p(x))>>
    BY DEF Clock!Init
  <2> HIDE DEF p
  <2>q. QED
    BY <2>1, <2>2, FrameOf
<1>2. ASSUME NEW x \in Clock!Contexts
      PROVE  /\ TopOf(x) = BaseOf(x) /\ Depth(x) = 1 /\ TopOf(x).pc = p(x) /\ ~TopOf(x).spins
             /\ stack[x] \in Seq(Frames)
  <2> DEFINE g == Clock!Frame(p(x))
  <2>1. g \in Frames /\ g.pc = p(x) /\ ~g.spins /\ stack[x] = <<g>>
    BY <1>1
  <2> HIDE DEF g, p
  <2>2. Len(<<g>>) = 1 /\ <<g>>[1] = g /\ <<g>> \in Seq(Frames)
    BY <2>1
  <2>q. QED
    BY <2>1, <2>2 DEF TopOf, BaseOf, Depth
<1>3. stack \in [Clock!Contexts -> Seq(Frames)]
  BY <1>2 DEF Clock!Init
<1>4. /\ cpu = [c \in Clock!Cpus |-> [flag |-> FALSE, ncli |-> 0, intena |-> FALSE,
            thread |-> Clock!None]]
      /\ owner = [l \in Clock!Locks |-> Clock!None] /\ panic = FALSE
      /\ thread = [t \in Clock!Threads |-> [state |-> "runnable", killed |-> FALSE, n |-> 0,
            ticks0 |-> 0, waited |-> 0]]
      /\ ticks = TickWrap - 1 /\ scan = [c \in Clock!Cpus |-> Clock!NoScan]
  BY DEF Clock!Init
<1>5. 0 \in 0..(TickWrap - 1) /\ TickWrap - 1 \in 0..(TickWrap - 1)
  BY ClockAssumption
<1>6. ClockTypes
  <2>1. thread \in [Clock!Threads -> ThreadT]
    BY <1>4, <1>5
  <2>2. cpu \in [Clock!Cpus -> [flag : BOOLEAN, ncli : 0..2, intena : BOOLEAN,
                thread : Clock!Threads \cup {Clock!None}]]
    BY <1>4
  <2>3. scan \in [Clock!Cpus -> [next : Nat, ran : BOOLEAN]]
    BY <1>4 DEF Clock!NoScan
  <2>q. QED
    BY <1>3, <1>4, <1>5, <2>1, <2>2, <2>3 DEF ClockTypes
<1>7. Stacks
  BY <1>2 DEF Stacks, StackShape, ThreadPcs, SchedPcs, Calm
<1>8. /\ \A t \in Clock!Threads : t \in Clock!Contexts /\ TopOf(t).pc = "forkret"
           /\ BaseOf(t).pc = "forkret" /\ thread[t].state = "runnable"
      /\ \A c \in Clock!Cpus : Clock!Ctx(c) = Clock!Sched(c) /\ Clock!Sched(c) \in Clock!Contexts
           /\ TopOf(Clock!Ctx(c)).pc = "loop" /\ ~TopOf(Clock!Ctx(c)).spins
      /\ \A c \in Clock!Cpus : cpu[c].thread = Clock!None /\ cpu[c].ncli = 0 /\ ~cpu[c].flag
           /\ ~scan[c].ran
  <2>1. \A t \in Clock!Threads : t \in Clock!Contexts
    BY DEF Clock!Contexts
  <2>2. \A t \in Clock!Threads : TopOf(t).pc = "forkret" /\ BaseOf(t).pc = "forkret"
    BY <1>2, <2>1
  <2>3. \A t \in Clock!Threads : thread[t].state = "runnable"
    BY <1>4
  <2>4. \A c \in Clock!Cpus : cpu[c].thread = Clock!None /\ cpu[c].ncli = 0 /\ ~cpu[c].flag
          /\ ~scan[c].ran
    BY <1>4 DEF Clock!NoScan
  <2>5. \A c \in Clock!Cpus : Clock!Ctx(c) = Clock!Sched(c) /\ Clock!Sched(c) \in Clock!Contexts
          /\ Clock!Sched(c) \notin Clock!Threads
    BY <2>4, ClockAssumption DEF Clock!Ctx, Clock!Sched, Clock!Contexts, Clock!Threads, Clock!Cpus
  <2>q. QED
    BY <1>2, <2>1, <2>2, <2>3, <2>4, <2>5
<1>9. Placement
  BY <1>8 DEF Placement, Placed
<1>10. Modes
  BY <1>8 DEF Modes, Mode, Held, TicksPcs, PtablePcs, HandlerPcs, Awake
<1>11. Holders
  <2>1. owner["ticks"] = Clock!None /\ owner["ptable"] = Clock!None
    BY <1>4 DEF Clock!Locks
  <2>2. \A c \in Clock!Cpus : c # Clock!None
    BY DEF Clock!Cpus, Clock!None
  <2>q. QED
    BY <1>8, <2>1, <2>2 DEF Holders, TicksPcs, PtablePcs
<1>12. Sleepers
  BY <1>8 DEF Sleepers, TickDue, SleepDue, Counted, Sleeping
<1>q. QED
  BY <1>6, <1>7, <1>9, <1>10, <1>11, <1>12 DEF ClockInv

LEMMA StandsStill == ClockInv /\ UNCHANGED Clock!vars => ClockInv'
<1> SUFFICES ASSUME ClockInv, UNCHANGED Clock!vars PROVE ClockInv'
  OBVIOUS
<1>0. ClockTypes /\ Stacks /\ Placement /\ Modes /\ Holders /\ Sleepers
  BY DEF ClockInv
<1>1. /\ cpu' = cpu /\ stack' = stack /\ owner' = owner /\ thread' = thread
      /\ ticks' = ticks /\ scan' = scan /\ panic' = panic
  BY DEF Clock!vars
<1>2. /\ \A x : TopOf(x)' = TopOf(x) /\ BaseOf(x)' = BaseOf(x) /\ Depth(x)' = Depth(x)
      /\ \A c : Clock!Ctx(c)' = Clock!Ctx(c)
  BY <1>1 DEF TopOf, BaseOf, Depth, Clock!Ctx
<1>3. ClockTypes'
  BY <1>0, <1>1 DEF ClockTypes
<1>4. Stacks' /\ Modes' /\ Holders'
  BY <1>0, <1>1, <1>2 DEF Stacks, StackShape, Modes, Holders
<1>5. Placement'
  BY <1>0, <1>1, <1>2 DEF Placement, Placed
<1>6. Sleepers'
  <2>1. WakeComes' <=> WakeComes
    BY <1>1, <1>2 DEF WakeComes
  <2>2. TickDue' /\ SleepDue'
    BY <1>0, <1>1, <1>2 DEF Sleepers, TickDue, SleepDue
  <2>3. \A t \in Clock!Threads : Counted(t)' /\ Sleeping(t)'
    BY <1>0, <1>1, <1>2, <2>1 DEF Sleepers, Counted, Sleeping
  <2>q. QED
    BY <2>2, <2>3 DEF Sleepers
<1>q. QED
  BY <1>3, <1>4, <1>5, <1>6 DEF ClockInv

LEMMA TestKeeps == ASSUME ClockInv, NEW c \in Clock!Cpus, Clock!Test(c) PROVE ClockInv'
<1>1. CASE MustWait(cpu[c].thread)
  BY <1>1, TestSleepKeeps DEF Clock!Test, MustWait
<1>2. CASE ~MustWait(cpu[c].thread)
  BY <1>2, TestDoneKeeps DEF Clock!Test, MustWait
<1>q. QED
  BY <1>1, <1>2

LEMMA ScanKeeps == ASSUME ClockInv, NEW c \in Clock!Cpus, Clock!Scan(c) PROVE ClockInv'
  BY PickKeeps, ScanReleaseKeeps

LEMMA ClockStep == ClockInv /\ [Clock!Next]_(Clock!vars) => ClockInv'
<1> SUFFICES ASSUME ClockInv, [Clock!Next]_(Clock!vars) PROVE ClockInv'
  OBVIOUS
<1>1. CASE UNCHANGED Clock!vars
  BY <1>1, StandsStill
<1>2. ASSUME NEW c \in Clock!Cpus, Clock!Interrupt(c) \/ Clock!Timer(c) \/ Clock!Iret(c) PROVE ClockInv'
  <2>1. CASE Clock!Timer(c)
     BY <2>1, SpinTickKeeps, TickLockKeeps, SpinWakeupKeeps, WakeAllKeeps, TickUnlockKeeps DEF
         Clock!Timer
  <2>q. QED
    BY <1>2, <2>1, InterruptKeeps, IretKeeps
<1>3. ASSUME NEW c \in Clock!Cpus, Clock!Spin(c, "yield", "ptable") \/ Clock!Yield(c)
             \/ Clock!BackFrom(c, "yielded", "iret") \/ Clock!Forkret(c)
      PROVE  ClockInv'
  BY <1>3, SpinYieldKeeps, YieldKeeps, BackKeeps, ForkretKeeps
<1>4. ASSUME NEW c \in Clock!Cpus, Clock!SchedLoop(c) \/ Clock!Scan(c) \/ Clock!Halt(c) PROVE ClockInv'
  <2>1. CASE Clock!SchedLoop(c)
    BY <2>1, LoopKeeps, SpinAcquireKeeps, AcquireKeeps DEF Clock!SchedLoop
  <2>q. QED
    BY <1>4, <2>1, ScanKeeps, HaltKeeps
<1>5. ASSUME NEW c \in Clock!Cpus, Clock!SysSleep(c) PROVE ClockInv'
  BY <1>5, EnterKeeps, SpinSleepKeeps, StartKeeps, TestKeeps, SpinSleep1Keeps, SleepLockKeeps,
     WakeKeeps, SpinAgainKeeps, AgainKeeps, ReturnKeeps DEF Clock!SysSleep
<1>6. ASSUME NEW t \in Killable, Clock!Kill(t) PROVE ClockInv'
  BY <1>6, KillKeeps, ClockAssumption
<1>q. QED
  BY <1>1, <1>2, <1>3, <1>4, <1>5, <1>6 DEF Clock!Next

LEMMA ClockInvariance == Clock!Spec => []ClockInv
  BY ClockInit, ClockStep, PTL DEF Clock!Spec

LEMMA ClockHolds == ClockInv => Clock!NoSelfDeadlock /\ Clock!InterruptsRestored /\ Clock!SleepIsExact
<1> SUFFICES ASSUME ClockInv PROVE Clock!NoSelfDeadlock /\ Clock!InterruptsRestored
                    /\ Clock!SleepIsExact
  OBVIOUS
<1>0. ClockTypes /\ Stacks /\ Placement /\ Modes /\ Holders /\ Sleepers
  BY DEF ClockInv
<1>1. ASSUME NEW c \in Clock!Cpus
      PROVE  /\ cpu[c] \in CpuT /\ cpu[c].ncli \in 0..2
             /\ Mode(cpu[c], TopOf(Clock!Ctx(c)), scan[c].ran)
             /\ TopOf(Clock!Ctx(c)) \in Frames /\ Clock!Top(c) = TopOf(Clock!Ctx(c))
             /\ TopOf(Clock!Ctx(c)).spins \in BOOLEAN
  BY Here, CpuIs, FrameIs
<1>2. Clock!NoSelfDeadlock
  <2>1. ASSUME NEW l \in Clock!Locks, owner[l] # Clock!None PROVE ~cpu[owner[l]].flag
               /\ cpu[owner[l]].ncli > 0
    <3>1. owner[l] \in Clock!Cpus
      BY <1>0, <2>1 DEF ClockTypes
    <3> DEFINE c == owner[l]
    <3>2. TopOf(Clock!Ctx(c)).pc \in TicksPcs \/ TopOf(Clock!Ctx(c)).pc \in PtablePcs
      BY <1>0, <3>1 DEF Holders, Clock!Locks
    <3>3. c \in Clock!Cpus
      BY <3>1
    <3> HIDE DEF c
    <3>4. cpu[c].ncli > 0
      BY <1>1, <3>2, <3>3 DEF Mode, Held
    <3>5. ~cpu[c].flag /\ cpu[c].ncli > 0
      BY <1>1, <3>3, <3>4 DEF Mode
    <3>q. QED
      BY <3>5 DEF c
  <2>q. QED
    BY <1>0, <2>1 DEF Clock!NoSelfDeadlock, ClockTypes
<1>3. Clock!InterruptsRestored
  <2> SUFFICES ASSUME NEW c \in Clock!Cpus, cpu[c].ncli = 0,
                      TopOf(Clock!Ctx(c)).pc \notin Clock!Handlers PROVE cpu[c].flag
    BY <1>1 DEF Clock!InterruptsRestored
  <2>1. TopOf(Clock!Ctx(c)).pc \notin TicksPcs /\ TopOf(Clock!Ctx(c)).pc \notin PtablePcs
    BY <1>1 DEF Mode, Held
  <2>2. TopOf(Clock!Ctx(c)).pc \in Awake \cup {"acquire", "hlt"}
    <3>1. TopOf(Clock!Ctx(c)).pc \in ThreadPcs \cup SchedPcs \cup HandlerPcs
      <4> DEFINE P == ThreadPcs \cup SchedPcs \cup HandlerPcs
      <4>1. Frames = [pc : P, spins : BOOLEAN, intena : BOOLEAN]
        BY Zenon DEF Frames
      <4> HIDE DEF P
      <4>2. TopOf(Clock!Ctx(c)).pc \in P
        BY <1>1, <4>1
      <4>q. QED
        BY <4>2 DEF P
    <3>q. QED
      BY <2>1, <3>1 DEF Clock!Handlers, TicksPcs, PtablePcs, ThreadPcs, SchedPcs, HandlerPcs, Calm
  <2>q. QED
    BY <1>1, <2>2 DEF Mode
<1>4. Clock!SleepIsExact
  <2>1. ASSUME NEW c \in Clock!Cpus, TopOf(Clock!Ctx(c)).pc = "return"
        PROVE  thread[cpu[c].thread].killed
                 \/ thread[cpu[c].thread].waited >= thread[cpu[c].thread].n % TickWrap
    <3>1. Clock!Ctx(c) \in Clock!Threads /\ Clock!Ctx(c) = cpu[c].thread
            /\ BaseOf(Clock!Ctx(c)).pc = "return"
      BY <2>1, Here DEF ThreadPcs, Awake
    <3>2. Sleeping(Clock!Ctx(c))
      BY <1>0, <3>1 DEF Sleepers
    <3>q. QED
      BY <3>1, <3>2 DEF Sleeping
  <2>2. ASSUME NEW t \in Clock!Threads, thread[t].state = "sleeping", owner["ticks"] = Clock!None
        PROVE  thread[t].waited < thread[t].n % TickWrap
    <3>1. ~WakeComes
      BY <2>2 DEF WakeComes, Clock!Cpus, Clock!None
    <3>2. Sleeping(t)
      BY <1>0 DEF Sleepers
    <3>q. QED
      BY <2>2, <3>1, <3>2 DEF Sleeping
  <2>q. QED
    BY <1>1, <2>1, <2>2 DEF Clock!SleepIsExact
<1>q. QED
  BY <1>2, <1>3, <1>4

-----------------------------------------------------------------------------
(* The console *)

Index == 0..(IndexWrap - 1)
ReaderType == [pc : {"out", "acquire", "woken", "loop", "asleep"}, n : Nat,
               got : Seq(Console!Chars), killed : BOOLEAN]
ConsoleTypeOK ==
  /\ buf \in [0..(INPUT_BUF - 1) -> Console!Chars]
  /\ r \in Index /\ w \in Index /\ e \in Index
  /\ lock \in Readers \cup {Console!NoOne}
  /\ reader \in [Readers -> ReaderType]

\* From r to w are the committed characters, from w to e the line that is edited.
RingFits == Console!Minus(w, r) + Console!Minus(e, w) = Console!Minus(e, r) /\ Console!Minus(e, r) <= INPUT_BUF

\* cons.lock is held by the reader in the loop.
LockFollows == \A p \in Readers : lock = p <=> reader[p].pc = "loop"

ConsoleInv == ConsoleTypeOK /\ RingFits /\ LockFollows /\ Console!NeverStuck
-----------------------------------------------------------------------------
(* Arithmetic modulo b *)

LEMMA DivMod ==
  ASSUME NEW a \in Int, NEW b \in Nat \ {0}
  PROVE  /\ a \div b \in Int /\ a % b \in 0..(b - 1)
         /\ a = b * (a \div b) + (a % b)
  BY SMT

LEMMA RestIsUnique ==
  ASSUME NEW b \in Nat \ {0}, NEW c \in Int, NEW x \in 0..(b - 1)
  PROVE  (b * c + x) % b = x
  BY SMT

\* Less than b apart, so with different remainders.
LEMMA ModDiffers ==
  ASSUME NEW b \in Nat \ {0}, NEW x \in Int, NEW y \in Int, x < y, y < x + b
  PROVE  x % b # y % b
<1>1. SUFFICES ASSUME x % b = y % b PROVE FALSE
  OBVIOUS
<1> DEFINE d == (y \div b) - (x \div b)
<1>2. d \in Int /\ y - x = b * d
  BY <1>1, DivMod
<1>3. 0 < b * d /\ b * d < b
  BY <1>2
<1>4. \A c \in Int : 0 < b * c => b * c >= b
  BY SMT
<1>q. QED
  BY <1>2, <1>3, <1>4

\* Reducing modulo a multiple of b first makes no difference.
LEMMA ModOfMultiple ==
  ASSUME NEW b \in Nat \ {0}, NEW m \in Nat \ {0}, m % b = 0, NEW x \in Int
  PROVE  (x % m) % b = x % b
<1>1. PICK c \in Int : m = b * c
  <2>1. m \div b \in Int /\ m = b * (m \div b) + (m % b)
    BY DivMod
  <2>q. QED
    BY <2>1
<1>2. PICK d \in Int : x = m * d + (x % m)
  BY DivMod
<1>3. PICK y \in Int : y = x % m
  BY DivMod
<1>4. PICK k \in Int : k = c * d
  OBVIOUS
<1>5. x = y + b * k
  BY <1>1, <1>2, <1>3, <1>4
<1>6. y = b * (y \div b) + (y % b) /\ y \div b \in Int /\ y % b \in 0..(b - 1)
  BY DivMod
<1>7. PICK n \in Int, z \in 0..(b - 1) : y = b * n + z /\ z = y % b
  BY <1>6
<1>8. x = b * (n + k) + z
  BY <1>5, <1>7
<1>9. (b * (n + k) + z) % b = z
  <2>1. n + k \in Int
    OBVIOUS
  <2>q. QED
    BY <2>1, RestIsUnique
<1>q. QED
  BY <1>3, <1>7, <1>8, <1>9

-----------------------------------------------------------------------------
(* The indices of the ring *)

LEMMA ConsoleSizes == INPUT_BUF \in Nat \ {0} /\ IndexWrap \in Nat \ {0} /\ INPUT_BUF < IndexWrap
  BY ConsoleAssumption

LEMMA MinusIs ==
  ASSUME NEW a \in Index, NEW b \in Index
  PROVE  Console!Minus(a, b) \in Index /\ Console!Minus(a, b) = IF b <= a THEN a - b ELSE a - b + IndexWrap
<1>1. CASE b <= a
  <2>1. a - b + IndexWrap \in IndexWrap..(2 * IndexWrap - 1)
    BY <1>1, ConsoleSizes DEF Index
  <2>q. QED
    BY <1>1, <2>1, ConsoleSizes, ModOnce DEF Console!Minus, Index
<1>2. CASE a < b
  <2>1. a - b + IndexWrap \in 0..(IndexWrap - 1)
    BY <1>2, ConsoleSizes DEF Index
  <2>q. QED
    BY <1>2, <2>1, ConsoleSizes, ModBelow DEF Console!Minus, Index
<1>q. QED
  BY <1>1, <1>2 DEF Index

LEMMA PlusIs ==
  ASSUME NEW a \in Index, NEW k \in 0..IndexWrap
  PROVE  Console!Plus(a, k) \in Index /\ Console!Plus(a, k) = IF a + k < IndexWrap THEN a + k ELSE a + k - IndexWrap
<1>1. CASE a + k < IndexWrap
  <2>1. a + k \in 0..(IndexWrap - 1)
    BY <1>1, ConsoleSizes DEF Index
  <2>q. QED
    BY <1>1, <2>1, ConsoleSizes, ModBelow DEF Console!Plus, Index
<1>2. CASE a + k >= IndexWrap
  <2>1. a + k \in IndexWrap..(2 * IndexWrap - 1)
    BY <1>2, ConsoleSizes DEF Index
  <2>q. QED
    BY <1>2, <2>1, ConsoleSizes, ModOnce DEF Console!Plus, Index
<1>q. QED
  BY <1>1, <1>2, ConsoleSizes DEF Index

\* An index that overflows stays where it is in the ring.
LEMMA SlotIs ==
  ASSUME NEW a \in Index, NEW k \in 0..IndexWrap
  PROVE  /\ Console!Slot(Console!Plus(a, k)) = (a + k) % INPUT_BUF
         /\ Console!Slot(Console!Plus(a, k)) \in 0..(INPUT_BUF - 1)
<1>1. a + k \in Int /\ Console!Plus(a, k) \in Int
  BY PlusIs, ConsoleSizes DEF Index
<1>2. ((a + k) % IndexWrap) % INPUT_BUF = (a + k) % INPUT_BUF
  BY <1>1, ConsoleSizes, ConsoleAssumption, ModOfMultiple
<1>q. QED
  BY <1>1, <1>2, ConsoleSizes, DivMod DEF Console!Slot, Console!Plus

\* The ring from index a on, as a function of the distance to a.
RingAt(bf, a, k) == bf[(a + k - 1) % INPUT_BUF]

\* The queue and the line, counted from r in the ring; in this state and the next.
StretchOf(bf, from, to) == [j \in 1..Console!Minus(to, from) |-> bf[Console!Slot(Console!Plus(from, j - 1))]]
Queue(bf, a, k) == [j \in 1..k |-> RingAt(bf, a, j)]
Line(bf, a, k, d) == [j \in 1..(d - k) |-> RingAt(bf, a, k + j)]

LEMMA StretchIs ==
  ASSUME NEW bf \in [0..(INPUT_BUF - 1) -> Console!Chars],
         NEW a \in Index, NEW b \in Index, NEW c \in Index,
         Console!Minus(b, a) + Console!Minus(c, b) = Console!Minus(c, a), Console!Minus(c, a) <= INPUT_BUF
  PROVE  /\ Console!Minus(b, a) \in Nat /\ Console!Minus(c, a) \in Nat /\ Console!Minus(b, a) <= Console!Minus(c, a)
         /\ \A k \in 1..Console!Minus(c, a) : RingAt(bf, a, k) \in Console!Chars
         /\ StretchOf(bf, a, b) = Queue(bf, a, Console!Minus(b, a))
         /\ StretchOf(bf, b, c) = Line(bf, a, Console!Minus(b, a), Console!Minus(c, a))
<1>1. /\ Console!Minus(b, a) \in 0..(IndexWrap - 1) /\ Console!Minus(c, b) \in 0..(IndexWrap - 1) /\ Console!Minus(c, a) \in 0..(IndexWrap - 1)
      /\ Console!Minus(b, a) = IF a <= b THEN b - a ELSE b - a + IndexWrap
  BY MinusIs DEF Index
<1>2. ASSUME NEW k \in 1..Console!Minus(c, a)
      PROVE  Console!Slot(Console!Plus(a, k - 1)) = (a + k - 1) % INPUT_BUF /\ RingAt(bf, a, k) \in Console!Chars
  <2>1. k - 1 \in 0..IndexWrap /\ a + (k - 1) = a + k - 1
    BY <1>1, ConsoleSizes DEF Index
  <2>q. QED
    BY <2>1, SlotIs DEF RingAt
<1>3. ASSUME NEW j \in 1..Console!Minus(c, b)
      PROVE  Console!Slot(Console!Plus(b, j - 1)) = (a + (Console!Minus(b, a) + j) - 1) % INPUT_BUF
  <2> DEFINE k == Console!Minus(b, a) + j
  <2>1. j - 1 \in 0..IndexWrap
    BY <1>1, ConsoleSizes
  <2>2. k \in 1..Console!Minus(c, a) /\ k - 1 \in 0..IndexWrap
    BY <1>1, ConsoleSizes
  <2>3. a + (k - 1) = IF a <= b THEN b + (j - 1) ELSE b + (j - 1) + IndexWrap
    BY <1>1, ConsoleSizes DEF Index
  <2>4. Console!Plus(b, j - 1) = Console!Plus(a, k - 1)
    <3> HIDE DEF k
    <3>1. /\ Console!Plus(b, j - 1) = IF b + (j - 1) < IndexWrap THEN b + (j - 1) ELSE b + (j - 1) - IndexWrap
          /\ Console!Plus(a, k - 1) = IF a + (k - 1) < IndexWrap THEN a + (k - 1) ELSE a + (k - 1) - IndexWrap
          /\ Console!Plus(a, k - 1) \in Index /\ Console!Plus(b, j - 1) \in Index
      BY <2>1, <2>2, PlusIs
    <3>q. QED
      BY <2>1, <2>2, <2>3, <3>1, ConsoleSizes DEF Index
  <2>q. QED
    BY <1>2, <2>2, <2>4
<1>4. Console!Minus(c, b) = Console!Minus(c, a) - Console!Minus(b, a)
  BY <1>1
<1>5. \A j \in 1..Console!Minus(b, a) : j \in 1..Console!Minus(c, a)
  BY <1>1
<1>6. [j \in 1..Console!Minus(b, a) |-> bf[Console!Slot(Console!Plus(a, j - 1))]]
        = [j \in 1..Console!Minus(b, a) |-> RingAt(bf, a, j)]
  BY <1>2, <1>5, Zenon DEF RingAt
<1>7. [j \in 1..Console!Minus(c, b) |-> bf[Console!Slot(Console!Plus(b, j - 1))]]
        = [j \in 1..(Console!Minus(c, a) - Console!Minus(b, a)) |-> RingAt(bf, a, Console!Minus(b, a) + j)]
  BY <1>3, <1>4, Zenon DEF RingAt
<1>8. /\ StretchOf(bf, a, b) = Queue(bf, a, Console!Minus(b, a))
      /\ StretchOf(bf, b, c) = Line(bf, a, Console!Minus(b, a), Console!Minus(c, a))
  BY <1>6, <1>7, Zenon DEF StretchOf, Queue, Line
<1>q. QED
  BY <1>1, <1>2, <1>8

\* One character more, n characters less, and from one character later.
LEMMA OneMore ==
  ASSUME NEW a \in Index, NEW b \in Index, Console!Minus(b, a) < INPUT_BUF
  PROVE  Console!Plus(b, 1) \in Index /\ Console!Minus(Console!Plus(b, 1), a) = Console!Minus(b, a) + 1
<1>1. 1 \in 0..IndexWrap
  BY ConsoleSizes
<1>2. Console!Plus(b, 1) \in Index /\ Console!Plus(b, 1) = IF b + 1 < IndexWrap THEN b + 1 ELSE b + 1 - IndexWrap
  BY <1>1, PlusIs
<1>3. /\ Console!Minus(Console!Plus(b, 1), a) = IF a <= Console!Plus(b, 1) THEN Console!Plus(b, 1) - a ELSE Console!Plus(b, 1) - a + IndexWrap
      /\ Console!Minus(b, a) = IF a <= b THEN b - a ELSE b - a + IndexWrap
  BY <1>2, MinusIs
<1>q. QED
  BY <1>2, <1>3, ConsoleSizes DEF Index

LEMMA SomeLess ==
  ASSUME NEW a \in Index, NEW b \in Index, NEW n \in Nat, n <= Console!Minus(b, a)
  PROVE  Console!Minus(b, n) \in Index /\ Console!Minus(Console!Minus(b, n), a) = Console!Minus(b, a) - n
<1>1. Console!Minus(b, a) \in Index /\ Console!Minus(b, a) = IF a <= b THEN b - a ELSE b - a + IndexWrap
  BY MinusIs
<1>2. n \in Index
  BY <1>1, ConsoleSizes DEF Index
<1>3. Console!Minus(b, n) \in Index /\ Console!Minus(b, n) = IF n <= b THEN b - n ELSE b - n + IndexWrap
  BY <1>2, MinusIs
<1>4. Console!Minus(Console!Minus(b, n), a) = IF a <= Console!Minus(b, n) THEN Console!Minus(b, n) - a ELSE Console!Minus(b, n) - a + IndexWrap
  BY <1>3, MinusIs
<1>q. QED
  BY <1>1, <1>2, <1>3, <1>4, ConsoleSizes DEF Index

LEMMA OneLater ==
  ASSUME NEW a \in Index, NEW b \in Index, Console!Minus(b, a) > 0
  PROVE  Console!Plus(a, 1) \in Index /\ Console!Minus(b, Console!Plus(a, 1)) = Console!Minus(b, a) - 1
<1>1. 1 \in 0..IndexWrap
  BY ConsoleSizes
<1>2. Console!Plus(a, 1) \in Index /\ Console!Plus(a, 1) = IF a + 1 < IndexWrap THEN a + 1 ELSE a + 1 - IndexWrap
  BY <1>1, PlusIs
<1>3. /\ Console!Minus(b, Console!Plus(a, 1)) = IF Console!Plus(a, 1) <= b THEN b - Console!Plus(a, 1) ELSE b - Console!Plus(a, 1) + IndexWrap
      /\ Console!Minus(b, a) = IF a <= b THEN b - a ELSE b - a + IndexWrap
  BY <1>2, MinusIs
<1>q. QED
  BY <1>2, <1>3, ConsoleSizes DEF Index

LEMMA NoDistance == ASSUME NEW a \in Index, NEW b \in Index PROVE Console!Minus(b, a) = 0 <=> a = b
<1>1. Console!Minus(b, a) = IF a <= b THEN b - a ELSE b - a + IndexWrap
  BY MinusIs
<1>q. QED
  BY <1>1, ConsoleSizes DEF Index

LEMMA FullIs == ASSUME NEW x \in Index, r \in Index PROVE Console!Full(x) <=> Console!Minus(x, r) = INPUT_BUF
<1>1. INPUT_BUF \in 0..IndexWrap
  BY ConsoleSizes
<1>2. Console!Plus(r, INPUT_BUF) = IF r + INPUT_BUF < IndexWrap THEN r + INPUT_BUF ELSE r + INPUT_BUF - IndexWrap
  BY <1>1, PlusIs
<1>3. Console!Minus(x, r) = IF r <= x THEN x - r ELSE x - r + IndexWrap
  BY MinusIs
<1>q. QED
  BY <1>2, <1>3, ConsoleSizes DEF Console!Full, Index

LEMMA Distances ==
  ASSUME ConsoleInv
  PROVE  /\ r \in Index /\ w \in Index /\ e \in Index
         /\ Console!Minus(w, r) \in Nat /\ Console!Minus(e, w) \in Nat /\ Console!Minus(e, r) \in Nat
         /\ Console!Minus(e, w) = Console!Minus(e, r) - Console!Minus(w, r)
         /\ Console!Minus(w, r) <= Console!Minus(e, r) /\ Console!Minus(e, r) <= INPUT_BUF
         /\ (r = w <=> Console!Minus(w, r) = 0) /\ (w = e <=> Console!Minus(e, w) = 0)
<1>1. /\ r \in Index /\ w \in Index /\ e \in Index
      /\ Console!Minus(w, r) + Console!Minus(e, w) = Console!Minus(e, r) /\ Console!Minus(e, r) <= INPUT_BUF
  BY DEF ConsoleInv, ConsoleTypeOK, RingFits
<1>2. Console!Minus(w, r) \in Nat /\ Console!Minus(e, w) \in Nat /\ Console!Minus(e, r) \in Nat
  BY <1>1, MinusIs, ConsoleSizes DEF Index
<1>q. QED
  BY <1>1, <1>2, NoDistance

-----------------------------------------------------------------------------
(* What the actions do to the indices *)

LEMMA TypeMoves ==
  ASSUME ConsoleInv, NEW c \in Console!Chars, Console!Type(c)
  PROVE  /\ r' = r /\ w' \in Index /\ e' \in Index
         /\ Console!Minus(e, r) < INPUT_BUF /\ Console!Minus(e', r') = Console!Minus(e, r) + 1
         /\ \/ w' = w /\ e' # w'
               /\ Console!Minus(w', r') = Console!Minus(w, r) /\ Console!Minus(e', w') = Console!Minus(e, w) + 1
               /\ Console!Minus(e', r') # INPUT_BUF /\ reader' = reader
            \/ w' = e'
               /\ Console!Minus(w', r') = Console!Minus(e, r) + 1 /\ Console!Minus(e', w') = 0
               /\ reader' = Console!Woken
<1>1. /\ r' = r /\ e' = Console!Plus(e, 1) /\ Console!Minus(e, r) < INPUT_BUF
      /\ IF c \in {Console!Newline, Console!Eof} \/ Console!Full(e') THEN w' = e' /\ reader' = Console!Woken ELSE w' = w /\ reader' = reader
  BY DEF Console!Type, Console!Room
<1>2. e' \in Index /\ Console!Minus(e', r) = Console!Minus(e, r) + 1
  BY <1>1, Distances, OneMore
<1>3. Console!Minus(e', w) = Console!Minus(e, w) + 1
  <2>1. Console!Minus(e, w) < INPUT_BUF
    BY <1>1, Distances, ConsoleSizes
  <2>q. QED
    BY <1>1, <2>1, Distances, OneMore
<1>4. Console!Full(e') <=> Console!Minus(e', r) = INPUT_BUF
  BY <1>2, Distances, FullIs
<1>5. Console!Minus(e', e') = 0
  BY <1>2, NoDistance
<1>6. e' # w
  BY <1>2, <1>3, Distances, NoDistance
<1>7. w \in Index /\ r \in Index
  BY Distances
<1>q. QED
  BY <1>1, <1>2, <1>3, <1>4, <1>5, <1>6, <1>7

LEMMA EraseMoves ==
  ASSUME ConsoleInv, Console!Backspace \/ Console!KillLine
  PROVE  /\ r' = r /\ w' = w /\ e' \in Index
         /\ \E n \in 1..Console!Minus(e, w) :
              Console!Minus(e', r') = Console!Minus(e, r) - n /\ Console!Minus(e', w') = Console!Minus(e, w) - n
         /\ UNCHANGED <<buf, lock, reader>>
<1>1. PICK n \in 1..Console!Minus(e, w) : e' = Console!Minus(e, n)
  <2>1. CASE Console!Backspace
    <3>1. Console!Minus(e, w) > 0
      BY <2>1, Distances DEF Console!Backspace
    <3>q. QED
      BY <2>1, <3>1, Distances DEF Console!Backspace
  <2>2. CASE Console!KillLine
    <3>1. PICK n \in 1..INPUT_BUF : /\ \A j \in 1..n : Console!Minus(e, j - 1) # w
                                    /\ e' = Console!Minus(e, n)
      BY <2>2 DEF Console!KillLine
    <3>2. ASSUME n > Console!Minus(e, w) PROVE FALSE
      <4> DEFINE d == Console!Minus(e, w)
      <4>1. d \in Nat /\ d + 1 \in 1..n /\ (d + 1) - 1 = d
        BY <3>2, Distances
      <4>2. Console!Minus(e, d) # w
        BY <3>1, <4>1
      <4>3. Console!Minus(e, d) \in Index /\ Console!Minus(Console!Minus(e, d), w) = d - d
        BY <4>1, Distances, SomeLess
      <4>q. QED
        BY <4>1, <4>2, <4>3, Distances, NoDistance
    <3>q. QED
      BY <3>1, <3>2, Distances
  <2>q. QED
    BY <2>1, <2>2
<1>2. n \in Nat /\ n <= Console!Minus(e, w) /\ n <= Console!Minus(e, r)
  BY Distances
<1>3. e' \in Index /\ Console!Minus(e', r) = Console!Minus(e, r) - n /\ Console!Minus(e', w) = Console!Minus(e, w) - n
  BY <1>1, <1>2, Distances, SomeLess
<1>4. UNCHANGED <<r, w, buf, lock, reader>>
  BY DEF Console!Backspace, Console!KillLine
<1>q. QED
  BY <1>3, <1>4

LEMMA TakeMoves ==
  ASSUME ConsoleInv, r # w, r' = Console!Plus(r, 1), UNCHANGED <<w, e>>
  PROVE  /\ r' \in Index /\ w' = w /\ e' = e
         /\ Console!Minus(w', r') = Console!Minus(w, r) - 1 /\ Console!Minus(e', r') = Console!Minus(e, r) - 1
<1>1. Console!Minus(w, r) > 0 /\ Console!Minus(e, r) > 0
  BY Distances
<1>q. QED
  BY <1>1, Distances, OneLater

-----------------------------------------------------------------------------
(* The invariant of the console *)

LEMMA ConsoleInit == Console!Init => ConsoleInv
<1> SUFFICES ASSUME Console!Init PROVE ConsoleInv
  OBVIOUS
<1>1. ConsoleTypeOK
  <2>1. [pc |-> "out", n |-> 0, got |-> << >>, killed |-> FALSE] \in ReaderType
    BY DEF ReaderType
  <2>2. r \in Index /\ w \in Index /\ e \in Index
    BY ConsoleSizes DEF Console!Init, Index
  <2>q. QED
    BY <2>1, <2>2 DEF Console!Init, ConsoleTypeOK, Console!Chars
<1>2. r = 0 /\ w = 0 /\ e = 0 /\ 0 \in Index
  BY ConsoleSizes DEF Console!Init, Index
<1>3. Console!Minus(0, 0) = 0
  BY <1>2, NoDistance
<1>4. RingFits /\ Console!NeverStuck
  BY <1>2, <1>3, ConsoleSizes DEF Console!Init, RingFits, Console!NeverStuck
<1>5. LockFollows
  BY ConsoleAssumption DEF Console!Init, LockFollows
<1>q. QED
  BY <1>1, <1>4, <1>5 DEF ConsoleInv

LEMMA Requested ==
  ASSUME NEW x \in ReaderType, NEW n \in Nat
  PROVE  [[x EXCEPT !.pc = "acquire"] EXCEPT !.n = n] \in ReaderType
  BY DEF ReaderType

LEMMA Released ==
  ASSUME NEW x \in ReaderType
  PROVE  /\ [[[x EXCEPT !.pc = "out"] EXCEPT !.n = 0] EXCEPT !.got = << >>] \in ReaderType
         /\ [[[x EXCEPT !.pc = "out"] EXCEPT !.n = 0] EXCEPT !.got = << >>].pc = "out"
         /\ [[[x EXCEPT !.pc = "out"] EXCEPT !.n = 0] EXCEPT !.got = << >>].n = 0
         /\ [[[x EXCEPT !.pc = "out"] EXCEPT !.n = 0] EXCEPT !.got = << >>].got = << >>
         /\ [[[x EXCEPT !.pc = "out"] EXCEPT !.n = 0] EXCEPT !.got = << >>].killed = x.killed
<1>1. << >> \in Seq(Console!Chars) /\ 0 \in Nat
  OBVIOUS
<1>q. QED
  BY <1>1 DEF ReaderType

LEMMA ReleaseIs ==
  ASSUME ConsoleTypeOK, NEW p \in Readers, Console!Release(p)
  PROVE  /\ reader' \in [Readers -> ReaderType] /\ lock' = Console!NoOne
         /\ reader'[p].pc = "out" /\ reader'[p].n = 0 /\ reader'[p].got = << >>
         /\ reader'[p].killed = reader[p].killed
         /\ \A d \in Readers : d # p => reader'[d] = reader[d]
<1>1. reader \in [Readers -> ReaderType] /\ reader[p] \in ReaderType
  BY DEF ConsoleTypeOK
<1> DEFINE x == [[[reader[p] EXCEPT !.pc = "out"] EXCEPT !.n = 0] EXCEPT !.got = << >>]
<1>2. reader' = [reader EXCEPT ![p] = x]
  BY <1>1 DEF Console!Release
<1>3. x \in ReaderType /\ x.pc = "out" /\ x.n = 0 /\ x.got = << >> /\ x.killed = reader[p].killed
  BY <1>1, Released
<1> HIDE DEF x
<1>4. /\ reader' \in [Readers -> ReaderType] /\ reader'[p] = x
      /\ \A d \in Readers : d # p => reader'[d] = reader[d]
  BY <1>1, <1>2, <1>3
<1>q. QED
  BY <1>3, <1>4 DEF Console!Release

LEMMA ReadersWoken ==
  ASSUME ConsoleTypeOK
  PROVE  /\ Console!Woken \in [Readers -> ReaderType]
         /\ \A p \in Readers : Console!Woken[p].pc # "asleep" /\ (Console!Woken[p].pc = "loop" <=> reader[p].pc = "loop")
         /\ \A p \in Readers : /\ Console!Woken[p].pc = IF reader[p].pc = "asleep" THEN "woken" ELSE reader[p].pc
                               /\ Console!Woken[p].got = reader[p].got
<1>1. ASSUME NEW p \in Readers
      PROVE  /\ Console!Woken[p] \in ReaderType
             /\ Console!Woken[p].pc = IF reader[p].pc = "asleep" THEN "woken" ELSE reader[p].pc
             /\ Console!Woken[p].got = reader[p].got
  BY DEF Console!Woken, ConsoleTypeOK, ReaderType
<1>2. Console!Woken \in [Readers -> ReaderType]
  <2>1. \A p \in Readers : (IF reader[p].pc = "asleep" THEN [reader[p] EXCEPT !.pc = "woken"] ELSE reader[p]) \in ReaderType
    BY <1>1 DEF Console!Woken
  <2>q. QED
    BY <2>1 DEF Console!Woken
<1>4. \A p \in Readers : Console!Woken[p].pc # "asleep" /\ (Console!Woken[p].pc = "loop" <=> reader[p].pc = "loop")
  BY <1>1
<1>q. QED
  BY <1>1, <1>2, <1>4

LEMMA ConsoleTypes == ConsoleInv /\ [Console!Next]_(Console!vars) => ConsoleTypeOK'
<1> SUFFICES ASSUME ConsoleInv, [Console!Next]_(Console!vars) PROVE ConsoleTypeOK'
  OBVIOUS
<1>a. ConsoleTypeOK
  BY DEF ConsoleInv
<1>1. ASSUME NEW c \in Console!Chars, Console!Type(c) PROVE ConsoleTypeOK'
  <2>1. r' \in Index /\ w' \in Index /\ e' \in Index /\ (reader' = reader \/ reader' = Console!Woken)
    BY <1>1, TypeMoves, Distances
  <2>2. buf' \in [0..(INPUT_BUF - 1) -> Console!Chars]
    BY <1>a, <1>1 DEF Console!Type, ConsoleTypeOK
  <2>3. reader' \in [Readers -> ReaderType]
    BY <1>a, <2>1, ReadersWoken DEF ConsoleTypeOK
  <2>q. QED
    BY <1>a, <1>1, <2>1, <2>2, <2>3 DEF Console!Type, ConsoleTypeOK
<1>2. CASE Console!Backspace \/ Console!KillLine
  BY <1>a, <1>2, EraseMoves DEF ConsoleTypeOK
<1>3. ASSUME NEW p \in Readers, Console!Enter(p) PROVE ConsoleTypeOK'
  <2>1. PICK n \in 1..MaxRead : reader' = [reader EXCEPT ![p].pc = "acquire", ![p].n = n]
    BY <1>3 DEF Console!Enter
  <2>0. reader[p] \in ReaderType
    BY <1>a DEF ConsoleTypeOK
  <2>2. reader' = [reader EXCEPT ![p] = [[reader[p] EXCEPT !.pc = "acquire"] EXCEPT !.n = n]]
    BY <1>a, <2>1 DEF ConsoleTypeOK
  <2>3. [[reader[p] EXCEPT !.pc = "acquire"] EXCEPT !.n = n] \in ReaderType
    <3>1. n \in Nat
      BY ConsoleAssumption
    <3>q. QED
      BY <2>0, <3>1, Requested
  <2>q. QED
    BY <1>a, <1>3, <2>2, <2>3 DEF Console!Enter, ConsoleTypeOK
<1>4. ASSUME NEW p \in Readers, Console!Acquire(p) PROVE ConsoleTypeOK'
  BY <1>a, <1>4 DEF Console!Acquire, ConsoleTypeOK, ReaderType
<1>5. ASSUME NEW p \in Readers, Console!SleepOrDie(p) PROVE ConsoleTypeOK'
  <2>1. CASE Console!Release(p)
    BY <1>a, <1>5, <2>1, ReleaseIs DEF Console!SleepOrDie, ConsoleTypeOK
  <2>2. CASE lock' = Console!NoOne /\ reader' = [reader EXCEPT ![p].pc = "asleep"]
    BY <1>a, <1>5, <2>2 DEF Console!SleepOrDie, ConsoleTypeOK, ReaderType
  <2>q. QED
    BY <1>5, <2>1, <2>2 DEF Console!SleepOrDie
<1>6. ASSUME NEW p \in Readers, Console!Take(p) PROVE ConsoleTypeOK'
  <2>1. r' \in Index
    <3>1. r' = r \/ r' = Console!Plus(r, 1)
      BY <1>6 DEF Console!Take
    <3>2. Console!Plus(r, 1) \in Index
      BY Distances, ConsoleSizes, PlusIs
    <3>q. QED
      BY <3>1, <3>2, Distances
  <2>2. buf[Console!Slot(r)] \in Console!Chars
    <3>1. r \in Int
      BY Distances, ConsoleSizes DEF Index
    <3>3. Console!Slot(r) \in 0..(INPUT_BUF - 1)
      BY <3>1, ConsoleSizes, DivMod DEF Console!Slot
    <3>q. QED
      BY <1>a, <3>3 DEF ConsoleTypeOK
  <2>3. reader' \in [Readers -> ReaderType]
    <3>1. CASE buf[Console!Slot(r)] = Console!Eof
      BY <1>a, <1>6, <3>1, ReleaseIs DEF Console!Take
    <3>2. CASE buf[Console!Slot(r)] # Console!Eof
      <4>1. reader' = [reader EXCEPT ![p].n = IF buf[Console!Slot(r)] = Console!Newline THEN 0 ELSE reader[p].n - 1,
                                     ![p].got = Append(reader[p].got, buf[Console!Slot(r)])]
        BY <1>6, <3>2 DEF Console!Take
      <4>2. (IF buf[Console!Slot(r)] = Console!Newline THEN 0 ELSE reader[p].n - 1) \in Nat
        BY <1>a, <1>6 DEF Console!Take, ConsoleTypeOK, ReaderType
      <4>3. Append(reader[p].got, buf[Console!Slot(r)]) \in Seq(Console!Chars)
        BY <1>a, <2>2 DEF ConsoleTypeOK, ReaderType
      <4>q. QED
        BY <1>a, <4>1, <4>2, <4>3 DEF ConsoleTypeOK, ReaderType
    <3>q. QED
      BY <3>1, <3>2
  <2>4. lock' \in {Console!NoOne, lock} /\ UNCHANGED <<buf, w, e>>
    BY <1>6 DEF Console!Take, Console!Release
  <2>q. QED
    BY <1>a, <2>1, <2>3, <2>4 DEF ConsoleTypeOK
<1>7. ASSUME NEW p \in Readers, Console!Done(p) PROVE ConsoleTypeOK'
  BY <1>a, <1>7, ReleaseIs DEF Console!Done, ConsoleTypeOK
<1>8. ASSUME NEW p \in Readers, Console!Kill(p) PROVE ConsoleTypeOK'
  BY <1>a, <1>8 DEF Console!Kill, ConsoleTypeOK, ReaderType
<1>9. ASSUME NEW p \in Readers, Console!Exits(p) PROVE ConsoleTypeOK'
  BY <1>a, <1>9 DEF Console!Exits, ConsoleTypeOK, ReaderType
<1>10. CASE UNCHANGED Console!vars
  BY <1>a, <1>10 DEF Console!vars, ConsoleTypeOK
<1>q. QED
  BY <1>1, <1>2, <1>3, <1>4, <1>5, <1>6, <1>7, <1>8, <1>9, <1>10 DEF Console!Next

LEMMA RingStep == ConsoleInv /\ [Console!Next]_(Console!vars) => RingFits' /\ Console!NeverStuck'
<1> SUFFICES ASSUME ConsoleInv, [Console!Next]_(Console!vars) PROVE RingFits' /\ Console!NeverStuck'
  OBVIOUS
<1>a. /\ ConsoleTypeOK /\ LockFollows
      /\ \A p \in Readers : reader[p].pc = "asleep" => r = w
      /\ Console!Minus(e, r) = INPUT_BUF => w = e
  BY DEF ConsoleInv, Console!NeverStuck
<1>1. ASSUME NEW c \in Console!Chars, Console!Type(c) PROVE RingFits' /\ Console!NeverStuck'
  <2>1. RingFits'
    BY <1>1, TypeMoves, Distances, ConsoleSizes DEF RingFits
  <2>2. (Console!Minus(e, r) = INPUT_BUF => w = e)'
    BY <1>1, TypeMoves
  <2>3. ASSUME NEW p \in Readers, reader'[p].pc = "asleep" PROVE r' = w'
    <3>1. reader' # Console!Woken
      BY <1>a, <2>3, ReadersWoken
    <3>q. QED
      BY <1>a, <1>1, <2>3, <3>1, TypeMoves
  <2>q. QED
    BY <2>1, <2>2, <2>3 DEF Console!NeverStuck
<1>2. CASE Console!Backspace \/ Console!KillLine
  <2>1. PICK n \in 1..Console!Minus(e, w) :
              Console!Minus(e', r') = Console!Minus(e, r) - n /\ Console!Minus(e', w') = Console!Minus(e, w) - n
    BY <1>2, EraseMoves
  <2>2. UNCHANGED <<r, w, reader>>
    BY <1>2, EraseMoves
  <2>3. RingFits'
    BY <2>1, <2>2, Distances, ConsoleSizes DEF RingFits
  <2>4. (Console!Minus(e, r) # INPUT_BUF)'
    BY <2>1, Distances, ConsoleSizes
  <2>q. QED
    BY <1>a, <2>2, <2>3, <2>4 DEF Console!NeverStuck
<1>3. ASSUME NEW p \in Readers, Console!SleepOrDie(p) PROVE RingFits' /\ Console!NeverStuck'
  <2>1. r = w /\ UNCHANGED <<r, w, e>>
    BY <1>3 DEF Console!SleepOrDie
  <2>q. QED
    BY <1>a, <2>1 DEF ConsoleInv, RingFits, Console!NeverStuck, Console!Minus
<1>4. ASSUME NEW p \in Readers, Console!Take(p) PROVE RingFits' /\ Console!NeverStuck'
  <2>1. r # w /\ UNCHANGED <<w, e>> /\ (r' = r \/ r' = Console!Plus(r, 1))
    BY <1>4 DEF Console!Take
  <2>2. \A d \in Readers : reader'[d].pc # "asleep"
    <3>1. reader[p].pc # "asleep" /\ \A d \in Readers : reader[d].pc # "asleep"
      BY <1>a, <2>1
    <3>2. \A d \in Readers : reader'[d].pc \in {reader[d].pc, "out"}
      <4>1. CASE Console!Release(p)
        BY <1>a, <4>1, ReleaseIs
      <4>2. CASE reader' = [reader EXCEPT ![p].n = IF buf[Console!Slot(r)] = Console!Newline THEN 0 ELSE reader[p].n - 1,
                                          ![p].got = Append(reader[p].got, buf[Console!Slot(r)])]
        BY <1>a, <4>2 DEF ConsoleTypeOK, ReaderType
      <4>q. QED
        BY <1>4, <4>1, <4>2 DEF Console!Take
    <3>q. QED
      BY <3>1, <3>2
  <2>3. CASE r' = r
    BY <1>a, <2>1, <2>2, <2>3 DEF ConsoleInv, RingFits, Console!NeverStuck, Console!Minus
  <2>4. CASE r' = Console!Plus(r, 1)
    <3>1. /\ Console!Minus(w', r') = Console!Minus(w, r) - 1 /\ Console!Minus(e', r') = Console!Minus(e, r) - 1
          /\ Console!Minus(e', w') = Console!Minus(e, w)
      BY <2>1, <2>4, TakeMoves
    <3>q. QED
      BY <2>2, <3>1, Distances, ConsoleSizes DEF RingFits, Console!NeverStuck
  <2>q. QED
    BY <2>1, <2>3, <2>4
<1>5. ASSUME NEW p \in Readers, Console!Enter(p) \/ Console!Acquire(p) \/ Console!Done(p) \/ Console!Kill(p) \/ Console!Exits(p)
      PROVE  RingFits' /\ Console!NeverStuck'
  <2>1. UNCHANGED <<r, w, e>>
    BY <1>5 DEF Console!Enter, Console!Acquire, Console!Done, Console!Kill, Console!Exits
  <2>2. \A d \in Readers : reader'[d].pc = "asleep" => reader[d].pc = "asleep"
    <3>1. CASE Console!Enter(p) \/ Console!Acquire(p) \/ Console!Kill(p) \/ Console!Exits(p)
      <4>1. CASE Console!Enter(p)
        BY <1>a, <4>1 DEF Console!Enter, ConsoleTypeOK
      <4>2. CASE Console!Acquire(p)
        BY <1>a, <4>2 DEF Console!Acquire, ConsoleTypeOK
      <4>3. CASE Console!Kill(p)
        BY <1>a, <4>3 DEF Console!Kill, ConsoleTypeOK
      <4>4. CASE Console!Exits(p)
        BY <1>a, <4>4 DEF Console!Exits, ConsoleTypeOK
      <4>q. QED
        BY <3>1, <4>1, <4>2, <4>3, <4>4
    <3>2. CASE Console!Done(p)
      BY <1>a, <3>2, ReleaseIs DEF Console!Done
    <3>q. QED
      BY <1>5, <3>1, <3>2
  <2>q. QED
    BY <1>a, <2>1, <2>2 DEF ConsoleInv, RingFits, Console!NeverStuck, Console!Minus
<1>6. CASE UNCHANGED Console!vars
  BY <1>a, <1>6 DEF Console!vars, ConsoleInv, RingFits, Console!NeverStuck, Console!Minus
<1>q. QED
  BY <1>1, <1>2, <1>3, <1>4, <1>5, <1>6 DEF Console!Next

LEMMA LockStep == ConsoleInv /\ [Console!Next]_(Console!vars) => LockFollows'
<1> SUFFICES ASSUME ConsoleInv, [Console!Next]_(Console!vars) PROVE LockFollows'
  OBVIOUS
<1> USE DEF ConsoleTypeOK, LockFollows
<1>a. ConsoleTypeOK /\ LockFollows
  BY DEF ConsoleInv
<1>1. ASSUME NEW c \in Console!Chars, Console!Type(c) PROVE LockFollows'
  <2>1. lock' = lock /\ (reader' = reader \/ reader' = Console!Woken)
    BY <1>1, TypeMoves DEF Console!Type
  <2>q. QED
    BY <1>a, <2>1, ReadersWoken
<1>2. CASE Console!Backspace \/ Console!KillLine
  BY <1>a, <1>2, EraseMoves
<1>3. ASSUME NEW p \in Readers, Console!Enter(p) PROVE LockFollows'
  BY <1>a, <1>3 DEF Console!Enter
<1>4. ASSUME NEW p \in Readers, Console!Acquire(p) PROVE LockFollows'
  BY <1>a, <1>4, ConsoleAssumption DEF Console!Acquire
<1>5. ASSUME NEW p \in Readers, Console!SleepOrDie(p) PROVE LockFollows'
  <2>1. CASE Console!Release(p)
    BY <1>a, <1>5, <2>1, ReleaseIs, ConsoleAssumption DEF Console!SleepOrDie
  <2>2. CASE lock' = Console!NoOne /\ reader' = [reader EXCEPT ![p].pc = "asleep"]
    BY <1>a, <1>5, <2>2, ConsoleAssumption DEF Console!SleepOrDie
  <2>q. QED
    BY <1>5, <2>1, <2>2 DEF Console!SleepOrDie
<1>6. ASSUME NEW p \in Readers, Console!Take(p) PROVE LockFollows'
  <2>1. CASE Console!Release(p)
    BY <1>a, <1>6, <2>1, ReleaseIs, ConsoleAssumption DEF Console!Take
  <2>2. CASE UNCHANGED lock /\ reader' = [reader EXCEPT
               ![p].n = IF buf[Console!Slot(r)] = Console!Newline THEN 0 ELSE reader[p].n - 1,
               ![p].got = Append(reader[p].got, buf[Console!Slot(r)])]
    BY <1>a, <2>2
  <2>q. QED
    BY <1>6, <2>1, <2>2 DEF Console!Take
<1>7. ASSUME NEW p \in Readers, Console!Done(p) PROVE LockFollows'
  BY <1>a, <1>7, ConsoleAssumption DEF Console!Done, Console!Release
<1>8. ASSUME NEW p \in Readers, Console!Kill(p) PROVE LockFollows'
  BY <1>a, <1>8 DEF Console!Kill
<1>9. ASSUME NEW p \in Readers, Console!Exits(p) PROVE LockFollows'
  BY <1>a, <1>9 DEF Console!Exits
<1>10. CASE UNCHANGED Console!vars
  BY <1>a, <1>10 DEF Console!vars
<1>q. QED
  BY <1>1, <1>2, <1>3, <1>4, <1>5, <1>6, <1>7, <1>8, <1>9, <1>10 DEF Console!Next

LEMMA ConsoleInvariance == ConsoleInv /\ [Console!Next]_(Console!vars) => ConsoleInv'
  BY ConsoleTypes, RingStep, LockStep DEF ConsoleInv

-----------------------------------------------------------------------------
(* The console implements LineQueue *)

\* Hidden behind names, so that the provers see no quantifier in a hypothesis.
Longer(l, c) == Append(l, c)
Committed(q, l, c) == q \o Append(l, c)
Place(a, d) == (a + d) % INPUT_BUF
IsRing(bf) == bf \in [0..(INPUT_BUF - 1) -> Console!Chars]
AllChars(bf, a, d) == \A j \in 1..d : RingAt(bf, a, j) \in Console!Chars
Puts(bg, bf, z, c) == \A j \in 0..(INPUT_BUF - 1) : bg[j] = IF j = z THEN c ELSE bf[j]

LEMMA RingView ==
  ASSUME ConsoleInv
  PROVE  /\ buf \in [0..(INPUT_BUF - 1) -> Console!Chars]
         /\ Console!Stretch(r, w) = Queue(buf, r, Console!Minus(w, r))
         /\ Console!Stretch(w, e) = Line(buf, r, Console!Minus(w, r), Console!Minus(e, r))
         /\ AllChars(buf, r, Console!Minus(e, r))
<1>1. /\ buf \in [0..(INPUT_BUF - 1) -> Console!Chars] /\ r \in Index /\ w \in Index /\ e \in Index
      /\ Console!Minus(w, r) + Console!Minus(e, w) = Console!Minus(e, r) /\ Console!Minus(e, r) <= INPUT_BUF
  BY DEF ConsoleInv, ConsoleTypeOK, RingFits
<1>2. Console!Stretch(r, w) = StretchOf(buf, r, w) /\ Console!Stretch(w, e) = StretchOf(buf, w, e)
  BY DEF Console!Stretch, StretchOf
<1>q. QED
  BY <1>1, <1>2, StretchIs DEF AllChars

LEMMA RingViewNext ==
  ASSUME ConsoleInv'
  PROVE  /\ Console!Stretch(r, w)' = Queue(buf', r', Console!Minus(w', r'))
         /\ Console!Stretch(w, e)' = Line(buf', r', Console!Minus(w', r'), Console!Minus(e', r'))
<1>1. /\ buf' \in [0..(INPUT_BUF - 1) -> Console!Chars] /\ r' \in Index /\ w' \in Index /\ e' \in Index
      /\ Console!Minus(w', r') + Console!Minus(e', w') = Console!Minus(e', r') /\ Console!Minus(e', r') <= INPUT_BUF
  BY DEF ConsoleInv, ConsoleTypeOK, RingFits, Console!Minus
<1>2. Console!Stretch(r, w)' = StretchOf(buf', r', w') /\ Console!Stretch(w, e)' = StretchOf(buf', w', e')
  BY DEF Console!Stretch, StretchOf, Console!Minus, Console!Plus, Console!Slot
<1>q. QED
  BY <1>1, <1>2, StretchIs

LEMMA SeqOf ==
  ASSUME NEW n \in Nat, NEW f \in [1..n -> Console!Chars]
  PROVE  f \in Seq(Console!Chars) /\ Len(f) = n
  BY SMT

LEMMA QueueIsSeq ==
  ASSUME NEW bf, NEW a, NEW k \in Nat, AllChars(bf, a, k)
  PROVE  /\ Queue(bf, a, k) \in Seq(Console!Chars) /\ Len(Queue(bf, a, k)) = k
         /\ \A j \in 1..k : Queue(bf, a, k)[j] = RingAt(bf, a, j)
<1>1. Queue(bf, a, k) \in [1..k -> Console!Chars]
  BY DEF Queue, AllChars
<1>2. Queue(bf, a, k) \in Seq(Console!Chars) /\ Len(Queue(bf, a, k)) = k
  BY <1>1, SeqOf
<1>q. QED
  BY <1>2 DEF Queue

LEMMA LineIsSeq ==
  ASSUME NEW bf, NEW a, NEW k \in Nat, NEW d \in Nat, k <= d,
         AllChars(bf, a, d)
  PROVE  /\ Line(bf, a, k, d) \in Seq(Console!Chars) /\ Len(Line(bf, a, k, d)) = d - k
         /\ \A j \in 1..(d - k) : Line(bf, a, k, d)[j] = RingAt(bf, a, k + j)
<1>1. \A j \in 1..(d - k) : k + j \in 1..d
  OBVIOUS
<1>2. Line(bf, a, k, d) \in [1..(d - k) -> Console!Chars]
  BY <1>1 DEF Line, AllChars
<1>3. d - k \in Nat
  OBVIOUS
<1>4. Line(bf, a, k, d) \in Seq(Console!Chars) /\ Len(Line(bf, a, k, d)) = d - k
  BY <1>2, <1>3, SeqOf
<1>q. QED
  BY <1>4 DEF Line

\* A character typed into the slot after the line, which nothing else uses.
LEMMA LineGrows ==
  ASSUME NEW bf, IsRing(bf), NEW bg, NEW a \in Index, NEW c \in Console!Chars,
         NEW k \in Nat, NEW d \in Nat, NEW m \in Nat, m = d + 1, k <= d, d < INPUT_BUF,
         Puts(bg, bf, Place(a, d), c)
  PROVE  /\ Queue(bg, a, k) = Queue(bf, a, k)
         /\ Line(bg, a, k, m) = Longer(Line(bf, a, k, d), c)
         /\ Queue(bg, a, m) = Committed(Queue(bf, a, k), Line(bf, a, k, d), c)
<1>1. a \in Int /\ INPUT_BUF \in Nat \ {0}
  BY ConsoleSizes DEF Index
<1>2. \A j \in 1..m : (a + j - 1) % INPUT_BUF \in 0..(INPUT_BUF - 1)
  <2>1. \A j \in 1..m : a + j - 1 \in Int
    BY <1>1
  <2>q. QED
    BY <1>1, <2>1, DivMod
<1>3. ASSUME NEW j \in 1..d PROVE RingAt(bg, a, j) = RingAt(bf, a, j) /\ RingAt(bf, a, j) \in Console!Chars
  <2>1. (a + j - 1) % INPUT_BUF # (a + d) % INPUT_BUF
    <3>1. a + j - 1 \in Int /\ a + d \in Int /\ a + j - 1 < a + d /\ a + d < (a + j - 1) + INPUT_BUF
      BY <1>1
    <3>q. QED
      BY <1>1, <3>1, ModDiffers
  <2>2. (a + j - 1) % INPUT_BUF \in 0..(INPUT_BUF - 1)
    BY <1>2
  <2>q. QED
    BY <2>1, <2>2 DEF RingAt, Puts, IsRing, Place
<1>4. RingAt(bg, a, d + 1) = c
  <2>1. (a + (d + 1) - 1) = a + d
    BY <1>1
  <2>2. (a + d) % INPUT_BUF \in 0..(INPUT_BUF - 1)
    BY <1>1, DivMod
  <2>q. QED
    BY <2>1, <2>2 DEF RingAt, Puts, IsRing, Place
<1>5. AllChars(bg, a, m)
  <2>1. \A j \in 1..m : j \in 1..d \/ j = d + 1
    OBVIOUS
  <2>q. QED
    BY <1>3, <1>4, <2>1 DEF AllChars
<1>6. /\ Queue(bf, a, k) \in Seq(Console!Chars) /\ Len(Queue(bf, a, k)) = k
      /\ \A j \in 1..k : Queue(bf, a, k)[j] = RingAt(bf, a, j)
      /\ Line(bf, a, k, d) \in Seq(Console!Chars) /\ Len(Line(bf, a, k, d)) = d - k
      /\ \A j \in 1..(d - k) : Line(bf, a, k, d)[j] = RingAt(bf, a, k + j)
  <2>1. AllChars(bf, a, d)
    BY <1>3 DEF AllChars
  <2>2. AllChars(bf, a, k)
    BY <2>1 DEF AllChars
  <2>3. /\ Queue(bf, a, k) \in Seq(Console!Chars) /\ Len(Queue(bf, a, k)) = k
        /\ \A j \in 1..k : Queue(bf, a, k)[j] = RingAt(bf, a, j)
    BY <2>2, QueueIsSeq
  <2>4. /\ Line(bf, a, k, d) \in Seq(Console!Chars) /\ Len(Line(bf, a, k, d)) = d - k
        /\ \A j \in 1..(d - k) : Line(bf, a, k, d)[j] = RingAt(bf, a, k + j)
    BY <2>1, LineIsSeq
  <2>q. QED
    BY <2>3, <2>4
<1>7. m \in Nat /\ k \in Nat /\ k <= m
  OBVIOUS
<1>8. /\ Line(bg, a, k, m) \in Seq(Console!Chars) /\ Len(Line(bg, a, k, m)) = m - k
      /\ \A j \in 1..(m - k) : Line(bg, a, k, m)[j] = RingAt(bg, a, k + j)
  BY ONLY <1>5, <1>7, LineIsSeq
<1>9. /\ Queue(bg, a, m) \in Seq(Console!Chars) /\ Len(Queue(bg, a, m)) = m
      /\ \A j \in 1..m : Queue(bg, a, m)[j] = RingAt(bg, a, j)
  BY <1>5, <1>7, QueueIsSeq
<1>10. \A j \in 1..k : j \in 1..d
  OBVIOUS
<1>11. Queue(bg, a, k) = Queue(bf, a, k)
  BY <1>3, <1>10 DEF Queue
<1> DEFINE s == Line(bf, a, k, d)
<1>12. /\ Append(s, c) \in Seq(Console!Chars) /\ Len(Append(s, c)) = (d - k) + 1
       /\ \A j \in 1..(d - k) : Append(s, c)[j] = RingAt(bf, a, k + j)
       /\ Append(s, c)[(d - k) + 1] = c
  <2>1. s \in Seq(Console!Chars) /\ Len(s) = d - k /\ d - k \in Nat /\ \A j \in 1..(d - k) : s[j] = RingAt(bf, a, k + j)
    BY <1>6
  <2>2. c \in Console!Chars
    OBVIOUS
  <2> HIDE DEF s
  <2>q. QED
    BY ONLY <2>1, <2>2, AppendProperties
<1>13. Line(bg, a, k, m) = Append(s, c)
  <2>1. Len(Line(bg, a, k, m)) = Len(Append(s, c))
    BY <1>8, <1>12
  <2>2. ASSUME NEW j \in 1..(m - k) PROVE Line(bg, a, k, m)[j] = Append(s, c)[j]
    <3>1. CASE j = d - k + 1
      <4>1. k + j = d + 1
        BY <3>1
      <4>q. QED
        BY <1>4, <1>8, <1>12, <3>1, <4>1
    <3>2. CASE j \in 1..(d - k)
      <4>1. k + j \in 1..d
        BY <3>2
      <4>q. QED
        BY <1>3, <1>8, <1>12, <3>2, <4>1
    <3>3. j = d - k + 1 \/ j \in 1..(d - k)
      OBVIOUS
    <3>q. QED
      BY <3>1, <3>2, <3>3
  <2>3. \A j \in 1..Len(Line(bg, a, k, m)) : Line(bg, a, k, m)[j] = Append(s, c)[j]
    BY <1>8, <2>2
  <2>q. QED
    BY <1>8, <1>12, <2>1, <2>3, SeqEqual
<1>14. Queue(bg, a, m) = Queue(bf, a, k) \o Append(s, c)
  <2> DEFINE q == Queue(bf, a, k)
             t == Append(s, c)
  <2>1. q \in Seq(Console!Chars) /\ t \in Seq(Console!Chars) /\ Len(q) = k /\ Len(t) = d - k + 1
    BY <1>6, <1>12
  <2>2. /\ q \o t \in Seq(Console!Chars) /\ Len(q \o t) = m
        /\ \A j \in 1..m : (q \o t)[j] = IF j <= k THEN q[j] ELSE t[j - k]
    <3>1. Len(q) + Len(t) = m
      BY <2>1
    <3> HIDE DEF q, t
    <3>q. QED
      BY ONLY <1>7, <2>1, <3>1, ConcatProperties
  <2>3. ASSUME NEW j \in 1..m PROVE Queue(bg, a, m)[j] = (q \o t)[j]
    <3>1. CASE j <= k
      <4>1. j \in 1..k /\ j \in 1..d
        BY <3>1
      <4>q. QED
        BY <1>3, <1>6, <1>9, <2>2, <3>1, <4>1
    <3>2. CASE k < j /\ j <= d
      <4>1. j - k \in 1..(d - k) /\ k + (j - k) = j /\ j \in 1..d /\ ~(j <= k)
        BY <3>2
      <4>2. t[j - k] = RingAt(bf, a, j)
        BY <1>12, <4>1
      <4>q. QED
        BY <1>3, <1>9, <2>2, <4>1, <4>2
    <3>3. CASE j = d + 1
      <4>1. j - k = (d - k) + 1 /\ ~(j <= k)
        BY <3>3
      <4>q. QED
        BY <1>4, <1>9, <1>12, <2>2, <3>3, <4>1
    <3>4. j <= k \/ (k < j /\ j <= d) \/ j = d + 1
      OBVIOUS
    <3>q. QED
      BY <3>1, <3>2, <3>3, <3>4
  <2>q. QED
    <3> HIDE DEF q, t
    <3>1. \A j \in 1..Len(Queue(bg, a, m)) : Queue(bg, a, m)[j] = (q \o t)[j]
      BY <1>9, <2>3
    <3>2. Queue(bg, a, m) = q \o t
      BY <1>9, <2>2, <3>1, SeqEqual
    <3>q. QED
      BY <3>2 DEF q, t
<1>q. QED
  BY <1>11, <1>13, <1>14 DEF Longer, Committed

\* Characters erased from the end of the line.
LEMMA LineShrinks ==
  ASSUME NEW bf, NEW a, NEW k \in Nat, NEW d \in Nat, NEW z \in Nat, k <= z, z <= d,
         AllChars(bf, a, d)
  PROVE  Line(bf, a, k, z) = SubSeq(Line(bf, a, k, d), 1, z - k)
<1> DEFINE s == Line(bf, a, k, d)
           t == Line(bf, a, k, z)
           m == z - k
<1>0. /\ k \in Nat /\ d \in Nat /\ z \in Nat /\ k <= z /\ z <= d /\ k <= d
      /\ AllChars(bf, a, d) /\ AllChars(bf, a, z)
  BY DEF AllChars
<1>1. s \in Seq(Console!Chars) /\ Len(s) = d - k /\ \A j \in 1..(d - k) : s[j] = RingAt(bf, a, k + j)
  BY <1>0, LineIsSeq
<1>3. t \in Seq(Console!Chars) /\ Len(t) = z - k /\ \A j \in 1..(z - k) : t[j] = RingAt(bf, a, k + j)
  BY <1>0, LineIsSeq
<1>4. m \in Nat /\ m <= d - k /\ z - k = m
  OBVIOUS
<1>5. /\ SubSeq(s, 1, m) \in Seq(Console!Chars) /\ Len(SubSeq(s, 1, m)) = m
      /\ \A j \in 1..m : SubSeq(s, 1, m)[j] = s[j]
  <2> HIDE DEF s, m
  <2>q. QED
    BY <1>1, <1>4
<1>6. \A j \in 1..m : j \in 1..(d - k)
  BY <1>4
<1>7. \A j \in 1..Len(t) : t[j] = SubSeq(s, 1, m)[j]
  <2> HIDE DEF s, t, m
  <2>q. QED
    BY <1>1, <1>3, <1>4, <1>5, <1>6
<1>8. t = SubSeq(s, 1, m)
  <2> HIDE DEF s, t, m
  <2>q. QED
    BY <1>3, <1>4, <1>5, <1>7, SeqEqual
<1>q. QED
  BY <1>8

\* The first character taken.
LEMMA QueueShifts ==
  ASSUME NEW bf, NEW a \in Index, NEW b \in Index, b = Console!Plus(a, 1),
         NEW k \in Nat, NEW d \in Nat, k <= d, k > 0, d <= INPUT_BUF,
         AllChars(bf, a, d)
  PROVE  /\ Queue(bf, a, k) # << >> /\ Head(Queue(bf, a, k)) = bf[Console!Slot(a)]
         /\ Queue(bf, b, k - 1) = Tail(Queue(bf, a, k))
         /\ Line(bf, b, k - 1, d - 1) = Line(bf, a, k, d)
<1>1. /\ Queue(bf, a, k) \in Seq(Console!Chars) /\ Len(Queue(bf, a, k)) = k
      /\ \A j \in 1..k : Queue(bf, a, k)[j] = RingAt(bf, a, j)
  <2>1. AllChars(bf, a, k)
    BY DEF AllChars
  <2>q. QED
    BY <2>1, QueueIsSeq
<1>2. ASSUME NEW j \in 1..(d - 1) PROVE RingAt(bf, b, j) = RingAt(bf, a, j + 1)
  <2>1. j - 1 \in 0..IndexWrap /\ j \in 0..IndexWrap /\ 1 \in 0..IndexWrap
    BY ConsoleSizes
  <2>2. Console!Plus(b, j - 1) = Console!Plus(a, j)
    <3>1. /\ b = IF a + 1 < IndexWrap THEN a + 1 ELSE a + 1 - IndexWrap
          /\ Console!Plus(b, j - 1) = IF b + (j - 1) < IndexWrap THEN b + (j - 1) ELSE b + (j - 1) - IndexWrap
          /\ Console!Plus(a, j) = IF a + j < IndexWrap THEN a + j ELSE a + j - IndexWrap
      BY <2>1, PlusIs
    <3>q. QED
      BY <3>1, ConsoleSizes DEF Index
  <2>3. Console!Slot(Console!Plus(b, j - 1)) = (b + (j - 1)) % INPUT_BUF /\ Console!Slot(Console!Plus(a, j)) = (a + j) % INPUT_BUF
    BY <2>1, SlotIs
  <2>4. b + (j - 1) = b + j - 1 /\ a + j = a + (j + 1) - 1
    BY ConsoleSizes DEF Index
  <2>q. QED
    BY <2>2, <2>3, <2>4 DEF RingAt
<1>3. RingAt(bf, a, 1) = bf[Console!Slot(a)]
  <2>1. a + 1 - 1 = a
    BY ConsoleSizes DEF Index
  <2>q. QED
    BY <2>1 DEF RingAt, Console!Slot
<1>4. Queue(bf, a, k) # << >> /\ Head(Queue(bf, a, k)) = bf[Console!Slot(a)]
  BY <1>1, <1>3
<1>5. /\ k - 1 \in Nat /\ d - 1 \in Nat /\ k - 1 <= d - 1
      /\ \A j \in 1..(d - 1) : j + 1 \in 1..d
  OBVIOUS
<1>6. /\ Queue(bf, b, k - 1) \in Seq(Console!Chars) /\ Len(Queue(bf, b, k - 1)) = k - 1
      /\ \A j \in 1..(k - 1) : Queue(bf, b, k - 1)[j] = RingAt(bf, b, j)
  <2>1. \A j \in 1..(k - 1) : j \in 1..(d - 1) /\ j + 1 \in 1..d
    BY <1>5
  <2>2. AllChars(bf, b, k - 1)
    BY <1>2, <2>1 DEF AllChars
  <2>q. QED
    BY <1>5, <2>2, QueueIsSeq
<1>7. Queue(bf, b, k - 1) = Tail(Queue(bf, a, k))
  <2> DEFINE q == Queue(bf, a, k)
             t == Queue(bf, b, k - 1)
  <2>1. /\ Tail(q) \in Seq(Console!Chars) /\ Len(Tail(q)) = k - 1
        /\ \A j \in 1..(k - 1) : Tail(q)[j] = q[j + 1]
    <3> HIDE DEF q
    <3>q. QED
      BY <1>1, <1>4, HeadTailProperties DEF q
  <2>2. \A j \in 1..(k - 1) : j \in 1..(d - 1) /\ j + 1 \in 1..k
    BY <1>5
  <2>3. \A j \in 1..Len(t) : t[j] = Tail(q)[j]
    BY <1>1, <1>2, <1>6, <2>1, <2>2
  <2>4. t = Tail(q)
    <3> HIDE DEF q, t
    <3>1. t \in Seq(Console!Chars) /\ Len(t) = k - 1
      BY <1>6 DEF t
    <3>q. QED
      BY <2>1, <2>3, <3>1, SeqEqual
  <2>q. QED
    BY <2>4
<1>8. Line(bf, b, k - 1, d - 1) = Line(bf, a, k, d)
  <2>1. (d - 1) - (k - 1) = d - k
    OBVIOUS
  <2>2. ASSUME NEW j \in 1..(d - k) PROVE RingAt(bf, b, (k - 1) + j) = RingAt(bf, a, k + j)
    <3>1. (k - 1) + j \in 1..(d - 1) /\ ((k - 1) + j) + 1 = k + j
      OBVIOUS
    <3>q. QED
      BY <1>2, <3>1
  <2>q. QED
    BY <2>1, <2>2 DEF Line
<1>q. QED
  BY <1>4, <1>7, <1>8


\* The character just before the line's end goes into the next free slot.
LEMMA NextSlot == ASSUME ConsoleInv PROVE Console!Slot(e) = (r + Console!Minus(e, r)) % INPUT_BUF
<1> DEFINE d == Console!Minus(e, r)
<1>1. r \in Index /\ e \in Index /\ d \in 0..IndexWrap
  BY Distances, ConsoleSizes
<1>2. d = IF r <= e THEN e - r ELSE e - r + IndexWrap
  BY <1>1, MinusIs
<1> HIDE DEF d
<1>3. Console!Plus(r, d) = IF r + d < IndexWrap THEN r + d ELSE r + d - IndexWrap
  BY <1>1, PlusIs
<1>4. Console!Plus(r, d) = e
  BY <1>1, <1>2, <1>3, ConsoleSizes DEF Index
<1>5. Console!Slot(Console!Plus(r, d)) = (r + d) % INPUT_BUF
  BY <1>1, SlotIs
<1>q. QED
  BY <1>4, <1>5 DEF d

Got == [p \in Readers |-> reader[p].got]

LEMMA NothingIsRead ==
  ASSUME \A p \in Readers : reader'[p].got = reader[p].got
  PROVE  Got' = Got
  BY DEF Got

LEMMA OneReads ==
  ASSUME NEW p \in Readers, NEW s, reader'[p].got = s,
         \A d \in Readers : d # p => reader'[d].got = reader[d].got
  PROVE  Got' = [Got EXCEPT ![p] = s]
  BY DEF Got

\* What each step does to the queue, the line and the calls.
LEMMA TypeIsMapped ==
  ASSUME ConsoleInv, ConsoleInv', NEW c \in Console!Chars, Console!Type(c)
  PROVE  (Console!Lines!Append1(c) \/ Console!Lines!Commit(c)) /\ Got' = Got
<1> DEFINE k == Console!Minus(w, r)
           d == Console!Minus(e, r)
           m == d + 1
<1>1. /\ buf \in [0..(INPUT_BUF - 1) -> Console!Chars] /\ r \in Index
      /\ k \in Nat /\ d \in Nat /\ m \in Nat /\ k <= d
  BY RingView, Distances
<1>2. /\ Console!Stretch(r, w) = Queue(buf, r, k) /\ Console!Stretch(w, e) = Line(buf, r, k, d)
      /\ Console!Stretch(r, w)' = Queue(buf', r', Console!Minus(w', r'))
      /\ Console!Stretch(w, e)' = Line(buf', r', Console!Minus(w', r'), Console!Minus(e', r'))
  BY RingView, RingViewNext
<1>3. Puts(buf', buf, Place(r, d), c)
  <2>1. buf' = [buf EXCEPT ![(r + d) % INPUT_BUF] = c]
    BY NextSlot DEF Console!Type
  <2>q. QED
    BY <1>1, <2>1 DEF Puts, Place
<1>4. r' = r /\ d < INPUT_BUF /\ Console!Minus(e', r') = m
  BY TypeMoves
<1>5. \/ Console!Minus(w', r') = k /\ reader' = reader
      \/ Console!Minus(w', r') = m /\ reader' = Console!Woken
  BY TypeMoves
<1>6. ConsoleTypeOK
  BY DEF ConsoleInv
<1>7. m = d + 1 /\ c \in Console!Chars
  OBVIOUS
<1> HIDE DEF k, d, m
<1>8. r \in Index /\ k \in Nat /\ d \in Nat /\ m \in Nat /\ k <= d /\ d < INPUT_BUF /\ IsRing(buf)
  BY <1>1, <1>4 DEF IsRing
<1>g. /\ Queue(buf', r, k) = Queue(buf, r, k)
      /\ Line(buf', r, k, m) = Longer(Line(buf, r, k, d), c)
      /\ Queue(buf', r, m) = Committed(Queue(buf, r, k), Line(buf, r, k, d), c)
  BY ONLY <1>3, <1>7, <1>8, LineGrows
<1>9. Line(buf', r, m, m) = << >>
  <2>1. 1..(m - m) = {}
    BY <1>1
  <2>q. QED
    BY <2>1 DEF Line
<1>10. Got' = Got
  BY <1>5, <1>6, ReadersWoken, NothingIsRead
<1>11. CASE Console!Minus(w', r') = k
  <2>1. Console!Stretch(r, w)' = Console!Stretch(r, w) /\ Console!Stretch(w, e)' = Append(Console!Stretch(w, e), c)
    BY <1>2, <1>4, <1>g, <1>11 DEF Longer
  <2>q. QED
    BY <1>10, <2>1 DEF Console!Lines!Append1
<1>12. CASE Console!Minus(w', r') = m
  <2>1. Console!Stretch(r, w)' = Console!Stretch(r, w) \o Append(Console!Stretch(w, e), c) /\ Console!Stretch(w, e)' = << >>
    BY <1>2, <1>4, <1>g, <1>9, <1>12 DEF Committed
  <2>q. QED
    BY <1>10, <2>1 DEF Console!Lines!Commit
<1>q. QED
  BY <1>5, <1>11, <1>12

LEMMA EraseIsMapped ==
  ASSUME ConsoleInv, ConsoleInv', Console!Backspace \/ Console!KillLine
  PROVE  Console!Lines!Erase /\ Got' = Got
<1> DEFINE k == Console!Minus(w, r)
           d == Console!Minus(e, r)
<1>1. k \in Nat /\ d \in Nat /\ k <= d /\ Console!Minus(e, w) = d - k
  BY Distances
<1>2. /\ Console!Stretch(r, w) = Queue(buf, r, k) /\ Console!Stretch(w, e) = Line(buf, r, k, d)
      /\ Console!Stretch(r, w)' = Queue(buf', r', Console!Minus(w', r'))
      /\ Console!Stretch(w, e)' = Line(buf', r', Console!Minus(w', r'), Console!Minus(e', r'))
  BY RingView, RingViewNext
<1>r. AllChars(buf, r, d)
  BY RingView
<1>3. PICK n \in 1..Console!Minus(e, w) : Console!Minus(e', r') = d - n
  BY EraseMoves
<1>4. UNCHANGED <<buf, r, w, reader>>
  BY EraseMoves
<1>5. Console!Minus(w', r') = k
  BY <1>4
<1>6. n \in 1..(d - k)
  BY <1>1
<1> HIDE DEF k, d
<1>7. Console!Stretch(r, w)' = Console!Stretch(r, w)
  BY <1>2, <1>4, <1>5
<1>7a. d - n \in Nat /\ k <= d - n /\ d - n <= d /\ d - k - n = (d - n) - k
  BY <1>1, <1>6
<1>8. Line(buf, r, k, d - n) = SubSeq(Line(buf, r, k, d), 1, (d - n) - k)
  BY <1>1, <1>r, <1>7a, LineShrinks
<1>9. Console!Stretch(w, e)' = SubSeq(Console!Stretch(w, e), 1, (d - n) - k)
  BY <1>2, <1>3, <1>4, <1>5, <1>8
<1>10. Len(Console!Stretch(w, e)) = d - k
  <2>1. Len(Line(buf, r, k, d)) = d - k
    BY <1>1, <1>r, LineIsSeq
  <2>q. QED
    BY <1>2, <2>1
<1>11. (d - n) - k \in 0..Len(Console!Stretch(w, e))
  BY <1>1, <1>6, <1>10
<1>12. Got' = Got
  BY <1>4 DEF Got
<1>q. QED
  BY <1>7, <1>9, <1>11, <1>12 DEF Console!Lines!Erase

\* A character leaves the queue.
LEMMA TakeIsMapped ==
  ASSUME ConsoleInv, ConsoleInv', r # w, r' = Console!Plus(r, 1), UNCHANGED <<buf, w, e>>
  PROVE  Console!Stretch(r, w)' = Tail(Console!Stretch(r, w)) /\ Console!Stretch(w, e)' = Console!Stretch(w, e)
<1> DEFINE k == Console!Minus(w, r)
           d == Console!Minus(e, r)
<1>1. k \in Nat /\ d \in Nat /\ k <= d /\ k > 0 /\ d <= INPUT_BUF /\ r \in Index
  BY Distances
<1>2. /\ Console!Stretch(r, w) = Queue(buf, r, k) /\ Console!Stretch(w, e) = Line(buf, r, k, d)
      /\ AllChars(buf, r, d)
      /\ Console!Stretch(r, w)' = Queue(buf', r', Console!Minus(w', r'))
      /\ Console!Stretch(w, e)' = Line(buf', r', Console!Minus(w', r'), Console!Minus(e', r'))
  BY RingView, RingViewNext
<1>3. Console!Minus(w', r') = k - 1 /\ Console!Minus(e', r') = d - 1 /\ r' \in Index
  BY TakeMoves
<1> HIDE DEF k, d
<1>4. r' = Console!Plus(r, 1) /\ buf' = buf
  OBVIOUS
<1>5. /\ Queue(buf, r', k - 1) = Tail(Queue(buf, r, k))
      /\ Line(buf, r', k - 1, d - 1) = Line(buf, r, k, d)
  BY <1>1, <1>2, <1>3, <1>4, QueueShifts
<1>q. QED
  BY <1>2, <1>3, <1>4, <1>5

LEMMA HeadIs ==
  ASSUME ConsoleInv, r # w
  PROVE  Console!Stretch(r, w) # << >> /\ Head(Console!Stretch(r, w)) = buf[Console!Slot(r)]
<1> DEFINE k == Console!Minus(w, r)
           d == Console!Minus(e, r)
<1>1. k \in Nat /\ d \in Nat /\ k <= d /\ k > 0 /\ d <= INPUT_BUF /\ r \in Index
  BY Distances
<1>2. Console!Stretch(r, w) = Queue(buf, r, k) /\ AllChars(buf, r, d)
  BY RingView
<1>3. Console!Plus(r, 1) \in Index
  <2>1. 1 \in 0..IndexWrap
    BY ConsoleSizes
  <2>q. QED
    BY <1>1, <2>1, PlusIs
<1> HIDE DEF k, d
<1>4. Queue(buf, r, k) # << >> /\ Head(Queue(buf, r, k)) = buf[Console!Slot(r)]
  BY <1>1, <1>2, <1>3, QueueShifts
<1>q. QED
  BY <1>2, <1>4

LEMMA ReleaseIsMapped ==
  ASSUME ConsoleTypeOK, NEW p \in Readers, Console!Release(p)
  PROVE  Got' = [Got EXCEPT ![p] = << >>]
<1>1. reader'[p].got = << >> /\ \A d \in Readers : d # p => reader'[d].got = reader[d].got
  BY ReleaseIs
<1>q. QED
  BY <1>1, OneReads

LEMMA ConsoleStep == ConsoleInv /\ ConsoleInv' /\ [Console!Next]_(Console!vars) => [Console!Lines!Next]_(Console!Lines!vars)
<1> SUFFICES ASSUME ConsoleInv, ConsoleInv', [Console!Next]_(Console!vars) PROVE [Console!Lines!Next]_(Console!Lines!vars)
  OBVIOUS
<1>a. ConsoleTypeOK /\ reader \in [Readers -> ReaderType]
  BY DEF ConsoleInv, ConsoleTypeOK
<1>b. ASSUME UNCHANGED <<buf, r, w>> PROVE Console!Stretch(r, w)' = Console!Stretch(r, w)
  BY <1>b DEF Console!Stretch, Console!Minus, Console!Plus, Console!Slot
<1>c. ASSUME UNCHANGED <<buf, w, e>> PROVE Console!Stretch(w, e)' = Console!Stretch(w, e)
  BY <1>c DEF Console!Stretch, Console!Minus, Console!Plus, Console!Slot
<1>d. ASSUME UNCHANGED <<buf, r, w, e>>, Got' = Got PROVE UNCHANGED Console!Lines!vars
  BY <1>b, <1>c, <1>d DEF Got, Console!Lines!vars
<1>e. ASSUME NEW p \in Readers, UNCHANGED <<buf, r, w, e>>, Got' = [Got EXCEPT ![p] = << >>] PROVE Console!Lines!Next
  BY <1>b, <1>c, <1>e DEF Got, Console!Lines!Next, Console!Lines!Return
<1>1. ASSUME NEW c \in Console!Chars, Console!Type(c) PROVE Console!Lines!Next
  BY <1>1, TypeIsMapped DEF Got, Console!Lines!Next, Console!Lines!Type
<1>2. CASE Console!Backspace \/ Console!KillLine
  <2>1. Console!Lines!Erase /\ Got' = Got
    BY <1>2, EraseIsMapped
  <2>q. QED
    BY <2>1 DEF Got, Console!Lines!Next, Console!Lines!Type
<1>3. ASSUME NEW p \in Readers, Console!Enter(p) PROVE UNCHANGED Console!Lines!vars
  <2>1. PICK n \in 1..MaxRead : reader' = [reader EXCEPT ![p].pc = "acquire", ![p].n = n]
    BY <1>3 DEF Console!Enter
  <2>2. \A d \in Readers : reader'[d].got = reader[d].got
    BY <1>a, <2>1 DEF ReaderType
  <2>q. QED
    BY <1>3, <1>d, <2>2, NothingIsRead DEF Console!Enter
<1>4. ASSUME NEW p \in Readers, Console!Acquire(p) \/ Console!Kill(p) \/ Console!Exits(p) PROVE UNCHANGED Console!Lines!vars
  <2>1. CASE Console!Acquire(p)
    <3>1. \A d \in Readers : reader'[d].got = reader[d].got
      BY <1>a, <2>1 DEF ReaderType, Console!Acquire
    <3>q. QED
      BY <1>d, <2>1, <3>1, NothingIsRead DEF Console!Acquire
  <2>2. CASE Console!Kill(p)
    <3>1. \A d \in Readers : reader'[d].got = reader[d].got
      BY <1>a, <2>2 DEF ReaderType, Console!Kill
    <3>q. QED
      BY <1>d, <2>2, <3>1, NothingIsRead DEF Console!Kill
  <2>3. CASE Console!Exits(p)
    <3>1. \A d \in Readers : reader'[d].got = reader[d].got
      BY <1>a, <2>3 DEF ReaderType, Console!Exits
    <3>q. QED
      BY <1>d, <2>3, <3>1, NothingIsRead DEF Console!Exits
  <2>q. QED
    BY <1>4, <2>1, <2>2, <2>3
<1>5. ASSUME NEW p \in Readers, Console!SleepOrDie(p) PROVE [Console!Lines!Next]_(Console!Lines!vars)
  <2>1. CASE Console!Release(p)
    BY <1>a, <1>e, <1>5, <2>1, ReleaseIsMapped DEF Console!SleepOrDie
  <2>2. CASE reader' = [reader EXCEPT ![p].pc = "asleep"]
    <3>1. \A d \in Readers : reader'[d].got = reader[d].got
      BY <1>a, <2>2 DEF ReaderType
    <3>q. QED
      BY <1>d, <1>5, <3>1, NothingIsRead DEF Console!SleepOrDie
  <2>q. QED
    BY <1>5, <2>1, <2>2 DEF Console!SleepOrDie
<1>6. ASSUME NEW p \in Readers, Console!Take(p) PROVE Console!Lines!Next
  <2>1. r # w /\ UNCHANGED <<buf, w, e>> /\ Got[p] = reader[p].got
    BY <1>6 DEF Console!Take, Got
  <2>2. Console!Stretch(r, w) # << >> /\ Head(Console!Stretch(r, w)) = buf[Console!Slot(r)]
    BY <2>1, HeadIs
  <2>3. ASSUME r' = Console!Plus(r, 1)
        PROVE  Console!Stretch(r, w)' = Tail(Console!Stretch(r, w)) /\ Console!Stretch(w, e)' = Console!Stretch(w, e)
    BY <2>1, <2>3, TakeIsMapped
  <2>4. CASE buf[Console!Slot(r)] = Console!Eof
    <3>1. Console!Release(p) /\ r' = IF reader[p].got # << >> THEN r ELSE Console!Plus(r, 1)
      BY <1>6, <2>4 DEF Console!Take
    <3>2. Got' = [Got EXCEPT ![p] = << >>]
      BY <1>a, <3>1, ReleaseIsMapped
    <3>3. CASE reader[p].got = << >>
      <4>1. Console!Stretch(r, w)' = Tail(Console!Stretch(r, w)) /\ Console!Stretch(w, e)' = Console!Stretch(w, e)
        BY <2>3, <3>1, <3>3
      <4>2. Console!Lines!TakeEof(p)
        BY <2>1, <2>2, <2>4, <3>2, <3>3, <4>1 DEF Got, Console!Lines!TakeEof
      <4>q. QED
        BY <4>2 DEF Console!Lines!Next
    <3>4. CASE reader[p].got # << >>
      <4>1. Console!Stretch(r, w)' = Console!Stretch(r, w) /\ Console!Stretch(w, e)' = Console!Stretch(w, e)
        BY <1>b, <1>c, <2>1, <3>1, <3>4
      <4>2. Console!Lines!TakeEof(p)
        BY <2>1, <2>2, <2>4, <3>2, <3>4, <4>1 DEF Got, Console!Lines!TakeEof
      <4>q. QED
        BY <4>2 DEF Console!Lines!Next
    <3>q. QED
      BY <3>3, <3>4
  <2>5. CASE buf[Console!Slot(r)] # Console!Eof
    <3>1. /\ r' = Console!Plus(r, 1)
          /\ reader' = [reader EXCEPT ![p].n = IF buf[Console!Slot(r)] = Console!Newline THEN 0 ELSE reader[p].n - 1,
                                      ![p].got = Append(reader[p].got, buf[Console!Slot(r)])]
      BY <1>6, <2>5 DEF Console!Take
    <3>2. /\ reader'[p].got = Append(reader[p].got, buf[Console!Slot(r)])
          /\ \A d \in Readers : d # p => reader'[d].got = reader[d].got
      BY <1>a, <3>1 DEF ReaderType
    <3>3. Got' = [Got EXCEPT ![p] = Append(Got[p], Head(Console!Stretch(r, w)))]
      BY <2>1, <2>2, <3>2, OneReads
    <3>4. Console!Lines!Take(p)
      BY <2>2, <2>3, <2>5, <3>1, <3>3 DEF Got, Console!Lines!Take
    <3>q. QED
      BY <3>4 DEF Console!Lines!Next
  <2>q. QED
    BY <2>4, <2>5
<1>7. ASSUME NEW p \in Readers, Console!Done(p) PROVE Console!Lines!Next
  BY <1>a, <1>e, <1>7, ReleaseIsMapped DEF Console!Done
<1>8. CASE UNCHANGED Console!vars
  BY <1>d, <1>8 DEF Console!vars, Got
<1>q. QED
  BY <1>1, <1>2, <1>3, <1>4, <1>5, <1>6, <1>7, <1>8 DEF Console!Next

LEMMA ConsoleStarts == Console!Init => Console!Lines!Init
<1> SUFFICES ASSUME Console!Init PROVE Console!Lines!Init
  OBVIOUS
<1>1. Console!Minus(0, 0) = 0
  <2>1. 0 \in Index
    BY ConsoleSizes DEF Index
  <2>q. QED
    BY <2>1, NoDistance
<1>2. Console!Stretch(r, w) = << >> /\ Console!Stretch(w, e) = << >>
  <2>1. 1..0 = {}
    OBVIOUS
  <2>q. QED
    BY <1>1, <2>1 DEF Console!Init, Console!Stretch
<1>q. QED
  BY <1>2 DEF Console!Init, Console!Lines!Init

-----------------------------------------------------------------------------
(* The clock and the console as parts of the kernel *)

ClockPart == part = "clock" => ClockInv

LEMMA ClockPartInvariance == KernelSpec => []ClockPart
<1>1. KernelInit => ClockPart
  BY ClockInit DEF KernelInit, ClockPart
<1>2. ClockPart /\ [KernelNext]_kernel => ClockPart'
  <2> SUFFICES ASSUME ClockPart, [KernelNext]_kernel, part' = "clock" PROVE ClockInv'
    BY DEF ClockPart
  <2>1. part = "clock"
    BY DEF KernelNext, kernel
  <2>2. [Clock!Next]_(Clock!vars)
    BY <2>1 DEF KernelNext, kernel, clock, Clock!vars
  <2>q. QED
    BY <2>1, <2>2, ClockStep DEF ClockPart
<1>q. QED
  BY <1>1, <1>2, PTL DEF KernelSpec

\* A CPU that holds a spinlock takes no interrupt, and neither acquire nor
\* sched panics (spinlock.c, proc.c).
THEOREM NoCpuWaitsForItself == KernelSpec => [](part = "clock" => Clock!NoSelfDeadlock)
<1>1. ClockPart => (part = "clock" => Clock!NoSelfDeadlock)
  BY ClockHolds DEF ClockPart
<1>q. QED
  BY <1>1, ClockPartInvariance, PTL

\* Whatever CPU a thread goes on with, its interrupts are as it left them, and
\* a CPU that halts can be woken (pushcli, popcli, sched).
THEOREM InterruptsComeBack == KernelSpec => []InterruptsRestored
<1>1. ClockPart => InterruptsRestored
  BY ClockHolds DEF ClockPart, InterruptsRestored
<1>q. QED
  BY <1>1, ClockPartInvariance, PTL

\* sys_sleep returns after the ticks it was asked for, and not later than the
\* tick they end with, across the wrap of ticks (sysproc.c, trap.c).
THEOREM SleepEndsInTime == KernelSpec => []SleepIsExact
<1>1. ClockPart => SleepIsExact
  BY ClockHolds DEF ClockPart, SleepIsExact
<1>q. QED
  BY <1>1, ClockPartInvariance, PTL

ConsolePart == part = "console" => ConsoleInv

LEMMA ConsolePartInvariance == KernelSpec => []ConsolePart
<1>1. KernelInit => ConsolePart
  BY ConsoleInit DEF KernelInit, ConsolePart
<1>2. ConsolePart /\ [KernelNext]_kernel => ConsolePart'
  <2> SUFFICES ASSUME ConsolePart, [KernelNext]_kernel, part' = "console" PROVE ConsoleInv'
    BY DEF ConsolePart
  <2>1. part = "console" /\ [Console!Next]_(Console!vars)
    BY DEF KernelNext, kernel, console, Console!vars
  <2>q. QED
    BY <2>1, ConsoleInvariance DEF ConsolePart
<1>q. QED
  BY <1>1, <1>2, PTL DEF KernelSpec

\* With any number of readers and a ring of any size, no reader sleeps beside
\* characters it could take, and a ring that takes no more has some to take;
\* and with any number of CPUs and threads none spins for a lock of its own.
THEOREM NobodyIsStuck == KernelSpec => []NeverStuck
<1>1. ConsolePart /\ ClockPart => NeverStuck
  BY ClockHolds DEF ConsolePart, ConsoleInv, ClockPart, NeverStuck
<1>q. QED
  BY <1>1, ConsolePartInvariance, ClockPartInvariance, PTL

\* With any number of readers, a ring of any size and indices that wrap at any
\* multiple of it, the console is a queue of committed lines.
THEOREM ConsoleIsLineQueue == KernelSpec => ImplementsLineQueue
<1>1. KernelInit => (part = "console" => Console!Lines!Init)
  BY ConsoleStarts DEF KernelInit
<1>2. ConsolePart /\ ConsolePart' /\ [KernelNext]_kernel =>
        [part = "console" => [Console!Lines!Next]_(Console!Lines!vars)]_kernel
  <2> SUFFICES ASSUME ConsolePart, ConsolePart', [KernelNext]_kernel, part = "console", kernel' # kernel
               PROVE  [Console!Lines!Next]_(Console!Lines!vars)
    OBVIOUS
  <2>1. part' = "console" /\ [Console!Next]_(Console!vars)
    BY DEF KernelNext
  <2>q. QED
    BY <2>1, ConsoleStep DEF ConsolePart
<1>q. QED
  BY <1>1, <1>2, ConsolePartInvariance, PTL DEF KernelSpec, ImplementsLineQueue

-----------------------------------------------------------------------------
(* Sleep-locks *)

\* Where a process holds lk->lk, and where ptable.lock is held for it.
SpinSteps == {"test", "sleep", "sleep_unlock", "rel_clear", "wakeup", "wakeup_scan", "rel_unlock"}
TableSteps == {"sleep_unlock", "sleep_switch", "wakeup_scan"}

SpinHeld == \A p \in Contenders : spc[p] \in SpinSteps => spin = p

TableHeld == \A p \in Contenders :
  spc[p] \in TableSteps \/ (spc[p] = "woken" /\ sstate[p] = "RUNNING") => ptable = p

OffCPU == \A p \in Contenders : sstate[p] # "RUNNING" => spc[p] = "woken"

\* The process that will call wakeup1 and has not yet taken ptable.lock.
WakeupAhead == \E q \in Contenders : spc[q] = "wakeup"

\* What a process on its way to sleep can rely on.
GoingToSleep ==
  \A p \in Contenders :
    /\ spc[p] \in {"sleep", "sleep_unlock"} => locked
    /\ spc[p] = "sleep_switch" => locked \/ WakeupAhead

\* The locks: who may do what.
SleepInv == Sleeplock!TypeOK /\ SpinHeld /\ TableHeld /\ OffCPU /\ Sleeplock!MutualExclusion

LEMMA SleepInvStep == SleepInv /\ [Sleeplock!Next]_(Sleeplock!vars) => SleepInv'
<1>1. SUFFICES ASSUME SleepInv, [Sleeplock!Next]_(Sleeplock!vars) PROVE SleepInv'
  OBVIOUS
<1>2. Sleeplock!TypeOK /\ SpinHeld /\ TableHeld /\ OffCPU /\ Sleeplock!MutualExclusion
  BY <1>1 DEF SleepInv
<1> USE SleepAssumption DEF SpinSteps, TableSteps, Sleeplock!InSection, SleepInv,
        SpinHeld, TableHeld, OffCPU, Sleeplock!MutualExclusion, Sleeplock!TypeOK, Sleeplock!PC
<1>3. ASSUME NEW p \in Contenders, Sleeplock!StartAcquire(p) PROVE SleepInv'
  BY <1>2, <1>3 DEF Sleeplock!StartAcquire, Sleeplock!At
<1>4. ASSUME NEW p \in Contenders, Sleeplock!AcquireSpin(p) PROVE SleepInv'
  BY <1>2, <1>4 DEF Sleeplock!AcquireSpin, Sleeplock!At, Sleeplock!Take
<1>5. ASSUME NEW p \in Contenders, Sleeplock!FoundLocked(p) PROVE SleepInv'
  BY <1>2, <1>5 DEF Sleeplock!FoundLocked, Sleeplock!At
<1>6. ASSUME NEW p \in Contenders, Sleeplock!TakeLock(p) PROVE SleepInv'
  BY <1>2, <1>6 DEF Sleeplock!TakeLock, Sleeplock!At, Sleeplock!Drop
<1>7. ASSUME NEW p \in Contenders, Sleeplock!SleepEntry(p) PROVE SleepInv'
  BY <1>2, <1>7 DEF Sleeplock!SleepEntry, Sleeplock!At, Sleeplock!Take, Sleeplock!Drop
<1>8. ASSUME NEW p \in Contenders, Sleeplock!SleepSwitch(p) PROVE SleepInv'
  BY <1>2, <1>8 DEF Sleeplock!SleepSwitch, Sleeplock!At, Sleeplock!Drop
<1>9. ASSUME NEW p \in Contenders, Sleeplock!Dispatch(p) PROVE SleepInv'
  BY <1>2, <1>9 DEF Sleeplock!Dispatch
<1>10. ASSUME NEW p \in Contenders, Sleeplock!SleepReturn(p) PROVE SleepInv'
  BY <1>2, <1>10 DEF Sleeplock!SleepReturn, Sleeplock!At, Sleeplock!Drop, Sleeplock!AfterSleep
<1>11. ASSUME NEW p \in Contenders, Sleeplock!StartRelease(p) PROVE SleepInv'
  BY <1>2, <1>11 DEF Sleeplock!StartRelease, Sleeplock!At
<1>12. ASSUME NEW p \in Contenders, Sleeplock!ReleaseSpin(p) PROVE SleepInv'
  BY <1>2, <1>12 DEF Sleeplock!ReleaseSpin, Sleeplock!At, Sleeplock!Take
<1>13. ASSUME NEW p \in Contenders, Sleeplock!ReleaseClear(p) PROVE SleepInv'
  BY <1>2, <1>13 DEF Sleeplock!ReleaseClear, Sleeplock!At
<1>14. ASSUME NEW p \in Contenders, Sleeplock!Wakeup(p) PROVE SleepInv'
  BY <1>2, <1>14 DEF Sleeplock!Wakeup, Sleeplock!At, Sleeplock!Take
<1>15. ASSUME NEW p \in Contenders, Sleeplock!WakeupScan(p) PROVE SleepInv'
  BY <1>2, <1>15 DEF Sleeplock!WakeupScan, Sleeplock!At, Sleeplock!Drop
<1>16. ASSUME NEW p \in Contenders, Sleeplock!ReleaseUnlock(p) PROVE SleepInv'
  BY <1>2, <1>16 DEF Sleeplock!ReleaseUnlock, Sleeplock!At, Sleeplock!Drop
<1>17. ASSUME NEW p \in Contenders, Sleeplock!Kill(p) PROVE SleepInv'
  BY <1>2, <1>17 DEF Sleeplock!Kill
<1>18. ASSUME UNCHANGED Sleeplock!vars PROVE SleepInv'
  BY <1>2, <1>18 DEF Sleeplock!vars
<1>q. QED
  BY <1>1, <1>3, <1>4, <1>5, <1>6, <1>7, <1>8, <1>9, <1>10, <1>11, <1>12, <1>13, <1>14, <1>15, <1>16,
     <1>17, <1>18
     DEF Sleeplock!Next, Sleeplock!Acquiring, Sleeplock!Releasing

\* The wakeup: whoever goes to sleep finds the lock taken or a wakeup ahead.
WakeInv == GoingToSleep /\ Sleeplock!NoLostWakeup

LEMMA FindsItLocked ==
  ASSUME SleepInv, WakeInv, NEW p \in Contenders, spc[p] \in {"sleep", "sleep_unlock"}
  PROVE  locked = TRUE
<1>1. locked \in BOOLEAN
  BY DEF SleepInv, Sleeplock!TypeOK
<1>2. locked
  BY DEF WakeInv, GoingToSleep
<1>q. QED
  BY <1>1, <1>2

LEMMA WakeStep == SleepInv /\ WakeInv /\ [Sleeplock!Next]_(Sleeplock!vars) => WakeInv'
<1>1. SUFFICES ASSUME SleepInv, WakeInv, [Sleeplock!Next]_(Sleeplock!vars) PROVE WakeInv'
  OBVIOUS
<1>2. /\ Sleeplock!TypeOK /\ SpinHeld /\ TableHeld /\ OffCPU /\ Sleeplock!MutualExclusion
      /\ GoingToSleep /\ Sleeplock!NoLostWakeup
  BY <1>1 DEF SleepInv, WakeInv
<1> USE SleepAssumption DEF SpinSteps, TableSteps, Sleeplock!InSection, WakeInv,
        GoingToSleep, Sleeplock!NoLostWakeup, WakeupAhead, SpinHeld, TableHeld, OffCPU,
        Sleeplock!MutualExclusion, Sleeplock!TypeOK, Sleeplock!PC
<1>3. ASSUME NEW p \in Contenders, Sleeplock!StartAcquire(p) PROVE WakeInv'
  BY <1>2, <1>3 DEF Sleeplock!StartAcquire, Sleeplock!At
<1>4. ASSUME NEW p \in Contenders, Sleeplock!AcquireSpin(p) PROVE WakeInv'
  BY <1>2, <1>4 DEF Sleeplock!AcquireSpin, Sleeplock!At, Sleeplock!Take
<1>5. ASSUME NEW p \in Contenders, Sleeplock!FoundLocked(p) PROVE WakeInv'
  BY <1>2, <1>5 DEF Sleeplock!FoundLocked, Sleeplock!At
<1>6. ASSUME NEW p \in Contenders, Sleeplock!TakeLock(p) PROVE WakeInv'
  BY <1>2, <1>6 DEF Sleeplock!TakeLock, Sleeplock!At, Sleeplock!Drop
<1>7. ASSUME NEW p \in Contenders, Sleeplock!SleepEntry(p) PROVE WakeInv'
  <2>1. spc[p] \in {"sleep", "sleep_unlock"} /\ locked' = locked
    BY <1>7 DEF Sleeplock!SleepEntry, Sleeplock!At
  <2>2. locked = TRUE
    BY <1>1, <2>1, FindsItLocked
  <2>3. locked' = TRUE
    BY <2>1, <2>2
  <2>4. GoingToSleep' /\ Sleeplock!NoLostWakeup'
    BY <2>3
  <2>q. QED
    BY <2>4
<1>8. ASSUME NEW p \in Contenders, Sleeplock!SleepSwitch(p) PROVE WakeInv'
  BY <1>2, <1>8 DEF Sleeplock!SleepSwitch, Sleeplock!At, Sleeplock!Drop
<1>9. ASSUME NEW p \in Contenders, Sleeplock!Dispatch(p) PROVE WakeInv'
  BY <1>2, <1>9 DEF Sleeplock!Dispatch
<1>10. ASSUME NEW p \in Contenders, Sleeplock!SleepReturn(p) PROVE WakeInv'
  BY <1>2, <1>10 DEF Sleeplock!SleepReturn, Sleeplock!At, Sleeplock!Drop, Sleeplock!AfterSleep
<1>11. ASSUME NEW p \in Contenders, Sleeplock!StartRelease(p) PROVE WakeInv'
  BY <1>2, <1>11 DEF Sleeplock!StartRelease, Sleeplock!At
<1>12. ASSUME NEW p \in Contenders, Sleeplock!ReleaseSpin(p) PROVE WakeInv'
  BY <1>2, <1>12 DEF Sleeplock!ReleaseSpin, Sleeplock!At, Sleeplock!Take
<1>13. ASSUME NEW p \in Contenders, Sleeplock!ReleaseClear(p) PROVE WakeInv'
  BY <1>2, <1>13 DEF Sleeplock!ReleaseClear, Sleeplock!At
<1>14. ASSUME NEW p \in Contenders, Sleeplock!Wakeup(p) PROVE WakeInv'
  BY <1>2, <1>14 DEF Sleeplock!Wakeup, Sleeplock!At, Sleeplock!Take
<1>15. ASSUME NEW p \in Contenders, Sleeplock!WakeupScan(p) PROVE WakeInv'
  BY <1>2, <1>15 DEF Sleeplock!WakeupScan, Sleeplock!At, Sleeplock!Drop
<1>16. ASSUME NEW p \in Contenders, Sleeplock!ReleaseUnlock(p) PROVE WakeInv'
  BY <1>2, <1>16 DEF Sleeplock!ReleaseUnlock, Sleeplock!At, Sleeplock!Drop
<1>17. ASSUME NEW p \in Contenders, Sleeplock!Kill(p) PROVE WakeInv'
  BY <1>2, <1>17 DEF Sleeplock!Kill
<1>18. ASSUME UNCHANGED Sleeplock!vars PROVE WakeInv'
  BY <1>2, <1>18 DEF Sleeplock!vars
<1>q. QED
  BY <1>1, <1>3, <1>4, <1>5, <1>6, <1>7, <1>8, <1>9, <1>10, <1>11, <1>12, <1>13, <1>14, <1>15, <1>16,
     <1>17, <1>18
     DEF Sleeplock!Next, Sleeplock!Acquiring, Sleeplock!Releasing

LEMMA SleepInvInit == Sleeplock!Init => SleepInv /\ WakeInv
  BY SleepAssumption DEF SpinSteps, TableSteps, Sleeplock!InSection, Sleeplock!Init, SleepInv, WakeInv,
     Sleeplock!TypeOK, Sleeplock!PC, SpinHeld, TableHeld, OffCPU,
     Sleeplock!MutualExclusion, GoingToSleep, Sleeplock!NoLostWakeup

SleepPart == part = "sleeplock" => SleepInv /\ WakeInv

LEMMA SleepPartInvariance == KernelSpec => []SleepPart
<1>1. KernelInit => SleepPart
  BY SleepInvInit DEF KernelInit, SleepPart
<1>2. SleepPart /\ [KernelNext]_kernel => SleepPart'
  <2> SUFFICES ASSUME SleepPart, [KernelNext]_kernel, part' = "sleeplock" PROVE SleepInv' /\ WakeInv'
    BY DEF SleepPart
  <2>1. part = "sleeplock" /\ [Sleeplock!Next]_(Sleeplock!vars)
    BY DEF KernelNext, kernel, sleeping, Sleeplock!vars
  <2>q. QED
    BY <2>1, SleepInvStep, WakeStep DEF SleepPart
<1>q. QED
  BY <1>1, <1>2, PTL DEF KernelSpec

\* A sleep-lock has one owner at a time, for any number of processes (sleeplock.c).
THEOREM SleepLockExcludes == KernelSpec => [](part = "sleeplock" => Sleeplock!MutualExclusion)
<1>1. SleepPart => (part = "sleeplock" => Sleeplock!MutualExclusion)
  BY DEF SleepPart, SleepInv
<1>q. QED
  BY <1>1, SleepPartInvariance, PTL

\* No process sleeps on a free sleep-lock without a wakeup on its way, for any
\* number of processes and with kills at any moment (sleep, wakeup, kill).
THEOREM SleepLosesNoWakeup == KernelSpec => []NoLostWakeup
<1>1. SleepPart => NoLostWakeup
  BY DEF SleepPart, WakeInv, NoLostWakeup
<1>q. QED
  BY <1>1, SleepPartInvariance, PTL

LEMMA LockStepIsMutex == SleepInv /\ [Sleeplock!Next]_(Sleeplock!vars) => [Sleeplock!M!Next]_(Sleeplock!owner)
<1>1. SUFFICES ASSUME SleepInv, [Sleeplock!Next]_(Sleeplock!vars)
               PROVE  [Sleeplock!M!Next]_(Sleeplock!owner)
  OBVIOUS
<1>2. Sleeplock!TypeOK /\ Sleeplock!MutualExclusion
  BY <1>1 DEF SleepInv
<1>3. ASSUME NEW p \in Contenders, Sleeplock!TakeLock(p) PROVE Sleeplock!M!Acquire(p)
  BY <1>3 DEF Sleeplock!TakeLock, Sleeplock!At, Sleeplock!M!Acquire, Sleeplock!owner
<1>4. ASSUME NEW p \in Contenders, Sleeplock!ReleaseClear(p) PROVE Sleeplock!M!Release(p)
  BY <1>2, <1>4 DEF Sleeplock!ReleaseClear, Sleeplock!At, Sleeplock!M!Release, Sleeplock!MutualExclusion,
     Sleeplock!InSection, Sleeplock!owner
<1>5. ASSUME UNCHANGED <<locked, holder>> PROVE UNCHANGED Sleeplock!owner
  BY <1>5 DEF Sleeplock!owner
<1>6. CASE UNCHANGED Sleeplock!vars
  BY <1>5, <1>6 DEF Sleeplock!vars
<1>7. ASSUME NEW p \in Contenders,
             Sleeplock!StartAcquire(p) \/ Sleeplock!Acquiring(p) \/ Sleeplock!Releasing(p) \/ Sleeplock!Kill(p)
      PROVE  Sleeplock!TakeLock(p) \/ Sleeplock!ReleaseClear(p) \/ UNCHANGED <<locked, holder>>
  BY <1>7 DEF Sleeplock!Acquiring, Sleeplock!Releasing, Sleeplock!StartAcquire, Sleeplock!AcquireSpin,
     Sleeplock!FoundLocked, Sleeplock!SleepEntry, Sleeplock!SleepSwitch,
     Sleeplock!Dispatch, Sleeplock!SleepReturn, Sleeplock!StartRelease,
     Sleeplock!ReleaseSpin, Sleeplock!Wakeup, Sleeplock!WakeupScan, Sleeplock!ReleaseUnlock, Sleeplock!Kill
<1>q. QED
  BY <1>1, <1>3, <1>4, <1>5, <1>6, <1>7 DEF Sleeplock!Next, Sleeplock!M!Next

\* A sleep-lock implements the abstract mutual-exclusion lock.
THEOREM SleepLockIsMutex == KernelSpec => ImplementsMutex
<1>1. KernelInit => (part = "sleeplock" => Sleeplock!M!Init)
  BY DEF KernelInit, Sleeplock!Init, Sleeplock!M!Init, Sleeplock!owner
<1>2. SleepPart /\ [KernelNext]_kernel => [part = "sleeplock" => [Sleeplock!M!Next]_(Sleeplock!owner)]_kernel
  <2> SUFFICES ASSUME SleepPart, [KernelNext]_kernel, part = "sleeplock", kernel' # kernel
               PROVE  [Sleeplock!M!Next]_(Sleeplock!owner)
    OBVIOUS
  <2>1. [Sleeplock!Next]_(Sleeplock!vars)
    BY DEF KernelNext
  <2>q. QED
    BY <2>1, LockStepIsMutex DEF SleepPart
<1>q. QED
  BY <1>1, <1>2, SleepPartInvariance, PTL DEF KernelSpec, ImplementsMutex
=============================================================================
