------------------------------- MODULE Machine -------------------------------
(***************************************************************************)
(* The parts of the kernel that share no state, side by side: the memory,  *)
(* the console's input, spinlocks with the timer interrupt, sleep-locks,   *)
(* and the start of the CPUs.  `part` says which of them a behaviour is    *)
(* about; the others stand still.  A variable of a part has the part's own *)
(* name, with the part's initial before it where two parts use the same.   *)
(***************************************************************************)
EXTENDS Integers, FiniteSets, Sequences

CONSTANTS
  NProc, NPages, PGSIZE, KERNBASE, PerTable, Amounts, ImageSize, Values,
  Readers, INPUT_BUF, IndexWrap, Letters, MaxRead,
  NCpu, NThread, TickWrap, Sleeps, Killable,
  Contenders, Nobody,
  Apics, NCPU, Low, High, NPROC

VARIABLES
  part,
  free, data, space, new, proc,
  buf, r, w, e, lock, reader,
  cpu, stack, owner, thread, ticks, scan,
  panic,
  locked, holder, spin, ptable, sstate, spc,
  cpus, boot, kmem, next, bpc, br, bstack, pgdir, used, code, started, i, runnable

memory == <<free, data, space, new, proc>>
console == <<buf, r, w, e, lock, reader>>
clock == <<cpu, stack, owner, thread, ticks, scan>>
sleeping == <<locked, holder, spin, ptable, sstate, spc>>
booting == <<cpus, boot, kmem, next, bpc, br, bstack, pgdir, used, code, started, i, runnable>>
kernel == <<part, memory, console, clock, panic, sleeping, booting>>

Memory == INSTANCE Memory
Console == INSTANCE Console WITH Wrap <- IndexWrap
Clock == INSTANCE Interrupts WITH Wrap <- TickWrap
Sleeplock == INSTANCE SleepLock WITH Procs <- Contenders, NoProc <- Nobody, state <- sstate, pc <- spc
Boot == INSTANCE Boot WITH pc <- bpc, r <- br, stack <- bstack

\* The first process takes five pages, and a program fits below KERNBASE ...
ASSUME MemoryAssumption ==
  /\ NProc \in Nat \ {0} /\ NPages \in Nat /\ NPages >= 5
  /\ PGSIZE \in Nat \ {0} /\ PerTable \in Nat \ {0}
  /\ KERNBASE \in Nat /\ ImageSize \in Nat /\ (ImageSize + 2) * PGSIZE < KERNBASE
  /\ Amounts \subseteq Int

\* ... there are finitely many CPUs, and none is the null pointer that a free lock
\* has for its holder ...
ASSUME BootAssumption ==
  /\ IsFiniteSet(Apics) /\ Boot!None \notin Apics
  /\ NCPU \in Nat /\ Low \in Nat /\ High \in Nat

\* ... and the console's unsigned indices wrap at a multiple of the ring's size.
ASSUME ConsoleAssumption ==
  /\ INPUT_BUF \in Nat \ {0} /\ IndexWrap \in Nat
  /\ IndexWrap % INPUT_BUF = 0 /\ IndexWrap > INPUT_BUF
  /\ Console!NoOne \notin Readers /\ MaxRead \in Nat

\* The clock's ticks wrap, and sleep is called with integers.
ASSUME ClockAssumption ==
  /\ NCpu \in Nat /\ NThread \in Nat /\ TickWrap \in Nat \ {0}
  /\ Sleeps \subseteq Int /\ Killable \subseteq Clock!Threads

\* No process is the pid 0 of a free sleep-lock.
ASSUME SleepAssumption == Nobody \notin Contenders

Off == "off"
NoMemory == free = Off /\ data = Off /\ space = Off /\ new = Off /\ proc = Off
NoConsole == buf = Off /\ r = Off /\ w = Off /\ e = Off /\ lock = Off /\ reader = Off
NoClock == cpu = Off /\ stack = Off /\ owner = Off /\ thread = Off /\ ticks = Off /\ scan = Off
NoSleep == locked = Off /\ holder = Off /\ spin = Off /\ ptable = Off /\ sstate = Off /\ spc = Off
NoBoot ==
  /\ cpus = Off /\ boot = Off /\ kmem = Off /\ next = Off /\ bpc = Off /\ br = Off /\ bstack = Off
  /\ pgdir = Off /\ used = Off /\ code = Off /\ started = Off /\ i = Off /\ runnable = Off
NoKernel == NoMemory /\ NoConsole /\ NoClock /\ NoSleep /\ NoBoot /\ panic = FALSE

KernelInit ==
  \/ part = "memory" /\ Memory!Init /\ NoConsole /\ NoClock /\ NoSleep /\ NoBoot
  \/ part = "console" /\ Console!Init /\ NoMemory /\ NoClock /\ NoSleep /\ NoBoot /\ panic = FALSE
  \/ part = "clock" /\ Clock!Init /\ NoMemory /\ NoConsole /\ NoSleep /\ NoBoot
  \/ part = "sleeplock" /\ Sleeplock!Init /\ NoMemory /\ NoConsole /\ NoClock /\ NoBoot /\ panic = FALSE
  \/ part = "boot" /\ Boot!Init /\ NoMemory /\ NoConsole /\ NoClock /\ NoSleep /\ panic = FALSE

KernelNext ==
  \/ part = "memory" /\ Memory!Next /\ UNCHANGED <<part, console, clock, sleeping, booting>>
  \/ part = "console" /\ Console!Next /\ UNCHANGED <<part, memory, clock, sleeping, booting, panic>>
  \/ part = "clock" /\ Clock!Next /\ UNCHANGED <<part, memory, console, sleeping, booting>>
  \/ part = "sleeplock" /\ Sleeplock!Next /\ UNCHANGED <<part, memory, console, clock, booting, panic>>
  \/ part = "boot" /\ Boot!Next /\ UNCHANGED <<part, memory, console, clock, sleeping, panic>>

KernelSpec == KernelInit /\ [][KernelNext]_kernel
-----------------------------------------------------------------------------

\* The properties of the parts, each of the behaviours about its part; the
\* comment on the property of the part's module says more.

\* A page has one owner: the free list, a process, or a failed fork (kalloc.c, vm.c).
PagesHaveOneOwner == part = "memory" => Memory!PagesHaveOneOwner

\* Memory is lost in no step but a fork that fails (copyuvm).
OnlyForkLoses == [][part = "memory" => [Memory!LossStep]_(Memory!vars)]_kernel

\* The page tables implement memories that no other process can reach.
MemoryIsPrivate ==
  /\ part = "memory" => Memory!Private!Init
  /\ [][part = "memory" => [Memory!Private!Next]_(Memory!mem)]_kernel

\* The ring of the console implements a queue of committed lines.
ImplementsLineQueue ==
  /\ part = "console" => Console!Lines!Init
  /\ [][part = "console" => [Console!Lines!Next]_(Console!Lines!vars)]_kernel

\* No reader of the console sleeps while there is something to read, and a
\* full ring has something to read; no CPU spins for a lock it holds itself.
NeverStuck ==
  /\ part = "console" => Console!NeverStuck
  /\ part = "clock" => Clock!NoSelfDeadlock

\* Whatever CPU a thread goes on with, its interrupts are as it left them.
InterruptsRestored == part = "clock" => Clock!InterruptsRestored

\* sys_sleep returns after the ticks it was asked for, across the wrap.
SleepIsExact == part = "clock" => Clock!SleepIsExact

\* Nobody sleeps on a free sleep-lock without a wakeup on its way (sleeplock.c, proc.c).
NoLostWakeup == part = "sleeplock" => Sleeplock!NoLostWakeup

\* A sleep-lock implements the lock that its users see.
ImplementsMutex ==
  /\ part = "sleeplock" => Sleeplock!M!Init
  /\ [][part = "sleeplock" => [Sleeplock!M!Next]_(Sleeplock!owner)]_kernel

\* The CPUs share no stack and no page while they start (main.c).
CpusKeepApart == part = "boot" => Boot!CpusKeepApart
=============================================================================
