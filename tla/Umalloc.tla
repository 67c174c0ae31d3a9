------------------------------ MODULE Umalloc ------------------------------
(***************************************************************************)
(* malloc and free of the user library over sbrk.  An address counts       *)
(* headers, a header is one unit; address 0 is the static header `base`,   *)
(* which lies below the heap.  The program may call sbrk itself, so that   *)
(* what morecore gets need not be adjacent to what it got before.  What    *)
(* stands where no header is, and the link of a block that is in use, is   *)
(* not kept: the program writes over the one and nothing reads the other.  *)
(***************************************************************************)
EXTENDS Integers, FiniteSets

CONSTANTS
  MemEnd,    \* the addresses the process may have lie below
  MinCore,  \* the least morecore asks for (4096 in the source)
  Requests  \* the sizes of the program's requests, in units

VARIABLES
  brk,   \* the first address beyond the heap
  hdr,   \* the header at each address, Garbage where none was written
  freep, \* where the search starts, None before the first malloc
  live,  \* the program's blocks: the sizes asked for, by address of the header
  own    \* the addresses the program took with sbrk itself

vars == <<brk, hdr, freep, live, own>>

None == -1
Garbage == [ptr |-> None, size |-> 0]
base == 0

Init ==
  /\ brk = 1 /\ hdr = [a \in 0..(MemEnd - 1) |-> Garbage] /\ freep = None
  /\ live = [a \in {} |-> 0] /\ own = {}

\* The state malloc and free work on.
Heap(b, h, f) == [brk |-> b, hdr |-> h, freep |-> f]

\* The place in the list for bp: the first p from freep on with bp between
\* it and its successor, or with bp beyond both ends where the list wraps.
RECURSIVE place(_, _, _)
place(h, bp, p) ==
  LET next == h[p].ptr
  IN  IF (bp > p /\ bp < next) \/ (p >= next /\ (bp > p \/ bp < next)) THEN p ELSE place(h, bp, next)

\* Joins with the block above only.
free_wrong(heap, bp) ==
  LET h == heap.hdr
      p == place(h, bp, heap.freep)
      next == h[p].ptr
      h1 == IF bp + h[bp].size = next
              THEN [h EXCEPT ![bp] = [ptr |-> h[next].ptr, size |-> @.size + h[next].size], ![next] = Garbage]
              ELSE [h EXCEPT ![bp].ptr = next]
  IN  [heap EXCEPT !.hdr = [h1 EXCEPT ![p].ptr = bp], !.freep = p]

\* Puts the block bp into the list and joins it with its neighbours.
free(heap, bp) ==
  LET h == heap.hdr
      p == place(h, bp, heap.freep)
      next == h[p].ptr
      h1 == IF bp + h[bp].size = next
              THEN [h EXCEPT ![bp] = [ptr |-> h[next].ptr, size |-> @.size + h[next].size], ![next] = Garbage]
              ELSE [h EXCEPT ![bp].ptr = next]
      h2 == IF p + h1[p].size = bp
              THEN [h1 EXCEPT ![p] = [ptr |-> h1[bp].ptr, size |-> @.size + h1[bp].size], ![bp] = Garbage]
              ELSE [h1 EXCEPT ![p].ptr = bp]
  IN  [heap EXCEPT !.hdr = h2, !.freep = p]

\* At least MinCore units more, or the heap as it is.
Core(nu) == IF nu < MinCore THEN MinCore ELSE nu
morecore(heap, nu) ==
  LET n == Core(nu)
  IN  IF heap.brk + n > MemEnd THEN heap
      ELSE free([heap EXCEPT !.brk = @ + n, !.hdr[heap.brk].size = n], heap.brk)

\* The first block from p on that is large enough gives its tail; at freep
\* again, the heap must grow.  Returns the heap and the block, or None.
RECURSIVE search(_, _, _, _)
search(heap, prevp, p, nunits) ==
  LET size == heap.hdr[p].size
      tail == p + size - nunits
      more == morecore(heap, nunits)
  IN  CASE size = nunits ->
             <<[heap EXCEPT !.hdr = [@ EXCEPT ![prevp].ptr = heap.hdr[p].ptr, ![p].ptr = None], !.freep = prevp], p>>
        [] size > nunits ->
             <<[heap EXCEPT !.hdr = [@ EXCEPT ![p].size = size - nunits, ![tail].size = nunits], !.freep = prevp], tail>>
        [] size < nunits /\ p # heap.freep -> search(heap, p, heap.hdr[p].ptr, nunits)
        [] size < nunits /\ p = heap.freep ->
             IF more = heap THEN <<heap, None>>
             ELSE search(more, more.freep, more.hdr[more.freep].ptr, nunits)

malloc(n) ==
  LET heap == IF freep = None THEN Heap(brk, [hdr EXCEPT ![base] = [ptr |-> base, size |-> 0]], base)
              ELSE Heap(brk, hdr, freep)
  IN  search(heap, heap.freep, heap.hdr[heap.freep].ptr, n + 1)

Becomes(heap) == brk' = heap.brk /\ hdr' = heap.hdr /\ freep' = heap.freep

Malloc(n) ==
  LET r == malloc(n)
  IN  /\ Becomes(r[1])
      /\ live' = IF r[2] = None THEN live ELSE [a \in DOMAIN live \cup {r[2]} |-> IF a = r[2] THEN n ELSE live[a]]
      /\ UNCHANGED own

Free(a) ==
  /\ Becomes(free(Heap(brk, hdr, freep), a))
  /\ live' = [b \in DOMAIN live \ {a} |-> live[b]]
  /\ UNCHANGED own

\* The program grows its memory by a unit of its own.
Sbrk ==
  /\ brk < MemEnd
  /\ brk' = brk + 1 /\ own' = own \cup {brk}
  /\ UNCHANGED <<hdr, freep, live>>

Next ==
  \/ \E n \in Requests : Malloc(n)
  \/ \E a \in DOMAIN live : Free(a)
  \/ Sbrk

Spec == Init /\ [][Next]_vars

-----------------------------------------------------------------------------

\* The blocks of the list, in the order in which a search meets them.
RECURSIVE listfrom(_)
listfrom(p) == {p} \cup IF hdr[p].ptr = freep THEN {} ELSE listfrom(hdr[p].ptr)
FreeList == IF freep = None THEN {} ELSE listfrom(freep) \ {base}

Units(a) == a..(a + hdr[a].size - 1)

\* Whatever the order of requests and releases, every unit that was got
\* from the kernel is in exactly one block, on the list or the program's,
\* or taken by the program itself; a block of the program is as large as it
\* asked for; no two blocks of the list touch; and from whatever block the
\* search starts, a request fails only when no block is large enough and
\* sbrk gives nothing.
HeapIsWhole ==
  LET blocks == FreeList \cup DOMAIN live
  IN  /\ own \cup UNION {Units(a) : a \in blocks} = 1..(brk - 1)
      /\ \A a, b \in blocks : a # b => Units(a) \cap Units(b) = {}
      /\ \A a \in blocks : Units(a) \cap own = {} /\ a \in Units(a)
      /\ \A a \in DOMAIN live : hdr[a].size = live[a] + 1
      /\ \A a, b \in FreeList : a + hdr[a].size # b
      /\ \A n \in Requests : malloc(n)[2] = None =>
           (\A a \in FreeList : hdr[a].size < n + 1) /\ brk + Core(n + 1) > MemEnd
=============================================================================
