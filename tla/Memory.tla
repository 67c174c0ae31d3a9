------------------------------- MODULE Memory -------------------------------
(***************************************************************************)
(* Physical pages and address spaces (kalloc.c, vm.c), as sbrk, fork, exec,*)
(* exit and wait use them.  Every kalloc is a step: between two of them    *)
(* another process may take the last page.  A page has one value, which    *)
(* stands for its contents.                                                *)
(*                                                                         *)
(* sbrk, exec and fork build an address space page by page: `mem` is the   *)
(* page just allocated, `at` the virtual page it is for, `to` the size     *)
(* wanted.  sbrk works on the image of the process, exec and fork on a     *)
(* new one, `new`.                                                         *)
(***************************************************************************)
EXTENDS Integers, FiniteSets, FiniteSetsExt

CONSTANTS
  NProc,      \* process slots; 1 is init
  NPages,     \* pages of physical memory
  PGSIZE,     \* bytes of a page
  KERNBASE,   \* first address that is not the user's
  PerTable,   \* pages a page table maps (NPTENTRIES)
  Amounts,    \* arguments of sbrk
  ImageSize,  \* pages of a program, without guard page and stack
  Values      \* what programs store

Procs == 1..NProc
Pages == 1..NPages
VPages == 0..((KERNBASE - 1) \div PGSIZE)
Tables == 0..(((KERNBASE - 1) \div PGSIZE) \div PerTable)
None == 0
Zero == "zero"
Text == "text"
Junk == "junk"

VARIABLES
  free,    \* kmem.freelist
  data,    \* contents of the pages
  space,   \* proc[p].pgdir
  new,     \* the address space p builds
  proc,    \* the rest of the process
  panic

vars == <<free, data, space, new, proc, panic>>

PGROUNDUP(n) == (n + PGSIZE - 1) \div PGSIZE

NoPte == [pa |-> None, user |-> FALSE]
NoSpace == [dir |-> None, kern |-> None, table |-> [t \in Tables |-> None], pte |-> [v \in VPages |-> NoPte]]
Present(s, v) == s.pte[v].pa # None

\* The pages that belong to an address space.
OwnPages(s) ==
  ({s.dir, s.kern} \cup {s.table[t] : t \in Tables} \cup {s.pte[v].pa : v \in VPages}) \ {None}

UserPages(s, from, end) == {v \in VPages : from <= v /\ v < end /\ Present(s, v)}

\* deallocuvm: user pages from PGROUNDUP(newsz) up to oldsz.
FirstGone(newsz) == PGROUNDUP(newsz)
Dealloc_wrong(s, oldsz, newsz) ==
  [space |-> s, pages |-> {s.pte[v].pa : v \in UserPages(s, FirstGone(newsz), PGROUNDUP(oldsz))}]
Dealloc(s, oldsz, newsz) ==
  LET gone == UserPages(s, FirstGone(newsz), PGROUNDUP(oldsz))
  IN  [space |-> [s EXCEPT !.pte = [v \in VPages |-> IF v \in gone THEN NoPte ELSE @[v]]],
       pages |-> {s.pte[v].pa : v \in gone}]

(***************************************************************************)
(* Building an address space.                                              *)
(***************************************************************************)
Idle == [state |-> "unused", parent |-> 0, sz |-> 0, kstack |-> None,
         pc |-> "user", call |-> "none", at |-> 0, to |-> 0, mem |-> None, child |-> 0]

Running(p) == proc[p].state = "running" /\ ~panic
At(p, pc) == Running(p) /\ proc[p].pc = pc
\* The program itself runs only if its text is there; a fault kills it.
InUser(p) == At(p, "user") /\ Present(space[p], 0)
Go(p, pc) == [proc EXCEPT ![p].pc = pc]
Back(p) == [proc EXCEPT ![p].pc = "user", ![p].call = "none", ![p].at = 0, ![p].to = 0,
                        ![p].mem = None, ![p].child = 0]

\* kalloc into a variable, or what to do without a page.
Kalloc(got(_), nomem) ==
  IF free = {} THEN nomem
  ELSE \E pg \in {Min(free)} : free' = free \ {pg} /\ got(pg)

\* allocproc takes the slot, then a page for the kernel stack.
Fork(p) ==
  /\ InUser(p)
  /\ \E c \in {x \in Procs : proc[x].state = "unused"} :
       /\ \A x \in Procs : proc[x].state = "unused" => c <= x
       /\ proc' = [proc EXCEPT ![p].pc = "kstack", ![p].call = "fork", ![p].to = proc[p].sz,
                               ![p].child = c, ![c].state = "embryo"]
  /\ UNCHANGED <<free, data, space, new, panic>>

KStack(p) ==
  /\ At(p, "kstack")
  /\ LET c == proc[p].child IN
       Kalloc(LAMBDA pg : proc' = [Go(p, "dir") EXCEPT ![c].kstack = pg],
              proc' = [Back(p) EXCEPT ![c] = Idle] /\ UNCHANGED free)
  /\ UNCHANGED <<data, space, new, panic>>

\* exec of a program file, up to its page table.
Exec(p) ==
  /\ InUser(p)
  /\ proc' = [proc EXCEPT ![p].pc = "dir", ![p].call = "exec", ![p].to = (ImageSize + 2) * PGSIZE]
  /\ UNCHANGED <<free, data, space, new, panic>>

\* kfree fills a page with junk, after a step that frees some.
Fill == data' = [pg \in Pages |-> IF pg \in free' THEN Junk ELSE data[pg]]

\* Giving up the new address space; a fork also gives up the slot.
Undo(p, freed) ==
  LET c == proc[p].child
  IN  /\ free' = free \cup OwnPages(new[p]) \cup freed \cup
                 (IF c = 0 THEN {} ELSE {proc[c].kstack})
      /\ new' = [new EXCEPT ![p] = NoSpace]
      /\ proc' = [q \in Procs |-> IF q = c THEN Idle ELSE Back(p)[q]]

\* setupkvm: the directory, then the tables of the kernel's mappings.
Dir(p) ==
  /\ At(p, "dir")
  /\ Kalloc(LAMBDA pg : new' = [new EXCEPT ![p].dir = pg] /\ proc' = Go(p, "kern"), Undo(p, {}))
  /\ Fill
  /\ UNCHANGED <<space, panic>>

Kern(p) ==
  /\ At(p, "kern")
  /\ Kalloc(LAMBDA pg : new' = [new EXCEPT ![p].kern = pg] /\ proc' = Go(p, "page"), Undo(p, {}))
  /\ Fill
  /\ UNCHANGED <<space, panic>>

\* growproc.  Sizes are unsigned: below 0 they wrap and nothing happens; a
\* size of 0 is taken for an error when the pages are gone already.
Sbrk(p) ==
  /\ InUser(p) /\ p # 1
  /\ \E n \in Amounts :
       LET sz == proc[p].sz
           less == Dealloc(space[p], sz, sz + n)
       IN  \/ /\ n > 0 /\ sz + n < KERNBASE
              /\ proc' = [proc EXCEPT ![p].pc = "page", ![p].call = "sbrk",
                                      ![p].at = PGROUNDUP(sz), ![p].to = sz + n]
              /\ UNCHANGED <<free, space>>
           \/ /\ n < 0 /\ sz + n >= 0
              /\ space' = [space EXCEPT ![p] = less.space]
              /\ free' = free \cup less.pages
              /\ proc' = [proc EXCEPT ![p].sz = IF sz + n = 0 THEN sz ELSE sz + n]
  /\ Fill
  /\ UNCHANGED <<new, panic>>

Target(p) == IF proc[p].call = "sbrk" THEN space[p] ELSE new[p]

\* What the new page holds: a copy, the program, or zeros.
Contents_wrong(p) ==
  CASE proc[p].call = "fork" -> data[space[p].pte[proc[p].at].pa]
    [] proc[p].call = "exec" /\ proc[p].at < ImageSize -> Text
    [] OTHER -> Junk
Contents(p) ==
  CASE proc[p].call = "fork" -> data[space[p].pte[proc[p].at].pa]
    [] proc[p].call = "exec" /\ proc[p].at < ImageSize -> Text
    [] OTHER -> Zero

\* A turn of the loop of allocuvm or copyuvm.
Page(p) ==
  /\ At(p, "page") /\ proc[p].at < PGROUNDUP(proc[p].to)
  /\ IF proc[p].call = "fork" /\ ~Present(space[p], proc[p].at)
       THEN panic' = TRUE /\ UNCHANGED <<free, data, space, new, proc>>
       ELSE /\ \/ /\ free # {}
                  /\ Kalloc(LAMBDA pg : /\ data' = [data EXCEPT ![pg] = Contents(p)]
                                        /\ proc' = [Go(p, "map") EXCEPT ![p].mem = pg], FALSE)
                  /\ UNCHANGED <<space, new>>
               \/ /\ free = {} /\ proc[p].call # "sbrk"
                  /\ Undo(p, {}) /\ Fill
                  /\ UNCHANGED space
               \/ /\ free = {} /\ proc[p].call = "sbrk"
                  /\ LET less == Dealloc(space[p], proc[p].to, proc[p].sz)
                     IN  /\ space' = [space EXCEPT ![p] = less.space]
                         /\ free' = free \cup less.pages
                  /\ proc' = Back(p) /\ Fill
                  /\ UNCHANGED new
            /\ UNCHANGED panic

\* The page table entry; only the page below exec's stack is not the user's.
Mapped(p, s) ==
  [s EXCEPT !.pte[proc[p].at] =
     [pa |-> proc[p].mem,
      user |-> CASE proc[p].call = "fork" -> space[p].pte[proc[p].at].user
                 [] proc[p].call = "exec" -> proc[p].at # ImageSize
                 [] OTHER -> TRUE]]
Put(p, s) ==
  IF proc[p].call = "sbrk" THEN space' = [space EXCEPT ![p] = s] /\ UNCHANGED new
  ELSE new' = [new EXCEPT ![p] = s] /\ UNCHANGED space
Mapping(p) == [Go(p, "page") EXCEPT ![p].at = @ + 1, ![p].mem = None]

\* mappages, where a page table is there, or is allocated, or cannot be.
Map(p) ==
  /\ At(p, "map")
  /\ LET s == Target(p)
         t == proc[p].at \div PerTable
     IN  \/ /\ Present(s, proc[p].at)
            /\ panic' = TRUE
            /\ UNCHANGED <<free, space, new, proc>>
         \/ /\ ~Present(s, proc[p].at) /\ s.table[t] # None
            /\ Put(p, Mapped(p, s)) /\ proc' = Mapping(p)
            /\ UNCHANGED <<free, panic>>
         \/ /\ s.table[t] = None /\ free # {}
            /\ Kalloc(LAMBDA pg : Put(p, Mapped(p, [s EXCEPT !.table[t] = pg])), FALSE)
            /\ proc' = Mapping(p)
            /\ UNCHANGED panic
  /\ UNCHANGED data

\* No page for the table.  allocuvm frees what it has allocated, the last
\* page too; copyuvm forgets that page.
Saved_wrong(p) == {}
Saved(p) == IF proc[p].call = "fork" THEN {} ELSE {proc[p].mem}
MapFails(p) ==
  /\ At(p, "map")
  /\ Target(p).table[proc[p].at \div PerTable] = None /\ free = {}
  /\ IF proc[p].call = "sbrk"
       THEN LET less == Dealloc(space[p], proc[p].to, proc[p].sz)
            IN  /\ space' = [space EXCEPT ![p] = less.space]
                /\ free' = free \cup less.pages \cup Saved(p)
                /\ proc' = Back(p)
                /\ UNCHANGED new
       ELSE Undo(p, Saved(p)) /\ UNCHANGED space
  /\ Fill
  /\ UNCHANGED panic

(***************************************************************************)
(* The end of a call.                                                      *)
(***************************************************************************)
Complete(p, call) ==
  At(p, "page") /\ proc[p].call = call /\ proc[p].at = PGROUNDUP(proc[p].to)

SbrkDone(p) ==
  /\ proc[p].at >= PGROUNDUP(proc[p].to)
  /\ At(p, "page") /\ proc[p].call = "sbrk"
  /\ proc' = [Back(p) EXCEPT ![p].sz = proc[p].to]
  /\ UNCHANGED <<free, data, space, new, panic>>

ForkDone(p) ==
  /\ Complete(p, "fork")
  /\ LET c == proc[p].child IN
       /\ space' = [space EXCEPT ![c] = new[p]]
       /\ proc' = [Back(p) EXCEPT ![c].state = "running", ![c].sz = proc[p].sz, ![c].parent = p]
  /\ new' = [new EXCEPT ![p] = NoSpace]
  /\ UNCHANGED <<free, data, panic>>

\* exec replaces the image, or the arguments do not fit and the old stays.
ExecDone(p) ==
  /\ Complete(p, "exec")
  /\ \/ /\ space' = [space EXCEPT ![p] = new[p]]
        /\ free' = free \cup OwnPages(space[p])
        /\ new' = [new EXCEPT ![p] = NoSpace]
        /\ proc' = [Back(p) EXCEPT ![p].sz = proc[p].to]
     \/ Undo(p, {}) /\ UNCHANGED space
  /\ Fill
  /\ UNCHANGED panic

\* A process ends by itself, or by a fault once its text is gone.
Exit(p) ==
  /\ At(p, "user") /\ p # 1
  /\ proc' = [q \in Procs |->
       IF q = p THEN [proc[p] EXCEPT !.state = "zombie"]
       ELSE IF proc[q].parent = p THEN [proc[q] EXCEPT !.parent = 1] ELSE proc[q]]
  /\ UNCHANGED <<free, data, space, new, panic>>

Wait(p) ==
  /\ InUser(p)
  /\ \E c \in Procs :
       /\ proc[c].state = "zombie" /\ proc[c].parent = p
       /\ free' = free \cup {proc[c].kstack} \cup OwnPages(space[c])
       /\ space' = [space EXCEPT ![c] = NoSpace]
       /\ proc' = [proc EXCEPT ![c] = Idle]
  /\ Fill
  /\ UNCHANGED <<new, panic>>

\* The program writes to a page of its own.
Store(p) ==
  /\ InUser(p)
  /\ \E v \in VPages, x \in Values :
       /\ space[p].pte[v].user
       /\ data' = [data EXCEPT ![space[p].pte[v].pa] = x]
  /\ UNCHANGED <<free, space, new, proc, panic>>

\* userinit: a stack, a directory, two tables and a page.
Init ==
  /\ free = Pages \ (1..5)
  /\ data = [pg \in Pages |-> IF pg = 5 THEN Text ELSE IF pg < 5 THEN Zero ELSE Junk]
  /\ space = [p \in Procs |->
       IF p = 1 THEN [NoSpace EXCEPT !.dir = 2, !.kern = 3, !.table[0] = 4,
                                     !.pte[0] = [pa |-> 5, user |-> TRUE]]
       ELSE NoSpace]
  /\ new = [p \in Procs |-> NoSpace]
  /\ proc = [p \in Procs |->
       IF p = 1 THEN [Idle EXCEPT !.state = "running", !.kstack = 1, !.sz = PGSIZE] ELSE Idle]
  /\ panic = FALSE

Next ==
  \E p \in Procs :
    \/ Fork(p) \/ KStack(p) \/ Exec(p) \/ Dir(p) \/ Kern(p) \/ Sbrk(p) \/ Page(p)
    \/ Map(p) \/ MapFails(p) \/ SbrkDone(p) \/ ForkDone(p) \/ ExecDone(p)
    \/ Exit(p) \/ Wait(p) \/ Store(p)

Spec == Init /\ [][Next]_vars

-----------------------------------------------------------------------------

\* The pages of each holder: an address space, one being built with the
\* page about to go into it, a kernel stack.
Holders == {"space", "new", "mem", "kstack"} \X Procs
Held(h) ==
  CASE h[1] = "space" -> OwnPages(space[h[2]])
    [] h[1] = "new" -> OwnPages(new[h[2]])
    [] h[1] = "mem" -> {proc[h[2]].mem} \ {None}
    [] h[1] = "kstack" -> {proc[h[2]].kstack} \ {None}
Owned == UNION {Held(h) : h \in Holders}

\* No page is free and in use or used twice, whatever failed half-way and
\* whoever took the last page meanwhile; so neither "remap" nor "page not
\* present" can panic.
PagesHaveOneOwner ==
  /\ free \cap Owned = {}
  /\ \A h, i \in Holders : h # i => Held(h) \cap Held(i) = {}
  /\ \A p \in Procs : \A v, w \in VPages :
       v # w /\ Present(space[p], v) => space[p].pte[v].pa # space[p].pte[w].pa
  /\ ~panic

\* The only page that ever gets lost is the one for which copyuvm finds no
\* page table (vm.c:335); every other failure gives back all it took.
LossStep ==
  free' \cup Owned' # free \cup Owned =>
    \E p \in Procs : proc[p].call = "fork" /\ proc[p].mem # None /\ proc'[p].call = "none"
OnlyForkLoses == [][LossStep]_vars

\* Seen from the programs, memory is private: the page tables, half-built
\* images and recycled pages do not show.
Visible(p) == {v \in VPages : space[p].pte[v].user /\ v * PGSIZE < proc[p].sz}
mem == [p \in Procs |-> [v \in Visible(p) |-> data[space[p].pte[v].pa]]]
Private == INSTANCE PrivateMemory WITH
  Images <- {[v \in (0..(ImageSize + 1)) \ {ImageSize} |-> IF v < ImageSize THEN Text ELSE Zero]}
MemoryIsPrivate == Private!Spec
=============================================================================
