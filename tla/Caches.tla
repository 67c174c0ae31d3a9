------------------------------- MODULE Caches -------------------------------
(***************************************************************************)
(* The two cache simulators of the coursework, cs220/lab13 and             *)
(* cs320/project2, over a trace of accesses [op, line]: what each counts   *)
(* as a hit, against the distance in the trace that defines LRU.           *)
(***************************************************************************)
EXTENDS Integers, Sequences, SequencesExt, FiniteSets, FiniteSetsExt

CONSTANTS
  MemLines,    \* lines of memory, 0 .. n
  Sets, Ways   \* of the set-associative caches

NoLine == -1   \* what the entries of project2 start with
Ops == {"L", "S"}
Access == [op : Ops, line : MemLines]

\* The definition of LRU: an access hits when fewer than `ways` other lines
\* of its set were used since its line was used last.
LruHit(trace, i, sets, ways) ==
  LET before == {j \in 1..(i - 1) : trace[j] = trace[i]}
      same == {j \in (Max(before) + 1)..(i - 1) : trace[j] % sets = trace[i] % sets}
  IN  before # {} /\ Cardinality({trace[j] : j \in same}) < ways
Used(trace) == [i \in DOMAIN trace |-> trace[i].line]
LruHits(trace, sets, ways) ==
  Cardinality({i \in DOMAIN trace : LruHit(Used(trace), i, sets, ways)})

-----------------------------------------------------------------------------
(***************************************************************************)
(* cs320/project2: an entry of a set is its place in a list, the least     *)
(* recently used first.                                                    *)
(***************************************************************************)
Without(set, j) == SubSeq(set, 1, j - 1) \o SubSeq(set, j + 1, Len(set))

\* One access of a set-associative cache: found or not, and the cache after.
find(cache, lmiss, a, prefetch) ==
  LET addr == a.line + (IF prefetch THEN 1 ELSE 0)
      set2 == addr % Sets
      at == {j \in 1..Ways : cache[set2][j] = addr}
  IN  IF at # {} THEN [hit |-> TRUE, cache |-> [cache EXCEPT ![set2] = Append(Without(@, Min(at)), addr)]]
      ELSE [hit |-> FALSE,
            cache |-> IF lmiss /\ a.op # "L" THEN cache ELSE [cache EXCEPT ![set2] = Append(Tail(@), addr)]]

\* A variant is a step [sets, cache] -> the same, over the trace.
Count(st, r) == [hits |-> st.hits + (IF r.hit THEN 1 ELSE 0), cache |-> r.cache]
Start == [hits |-> 0, cache |-> [s \in 0..(Sets - 1) |-> [j \in 1..Ways |-> NoLine]]]
Plain(st, a) == Count(st, find(st.cache, FALSE, a, FALSE))
NoWriteAllocate(st, a) == Count(st, find(st.cache, TRUE, a, FALSE))
Prefetch(st, a) ==
  LET r == find(st.cache, FALSE, a, FALSE)
  IN  Count(st, [r EXCEPT !.cache = find(r.cache, FALSE, a, TRUE).cache])
PrefetchOnMiss(st, a) ==
  LET r == find(st.cache, FALSE, a, FALSE)
  IN  IF r.hit THEN Count(st, r) ELSE Count(st, [r EXCEPT !.cache = find(r.cache, FALSE, a, TRUE).cache])

\* A direct-mapped cache, and the fully associative ones, of Sets entries.
Direct(st, a) ==
  Count(st, [hit |-> st.cache[a.line % Sets][1] = a.line,
             cache |-> [st.cache EXCEPT ![a.line % Sets] = <<a.line>>]])
full_ass(st, a) ==
  LET at == {j \in DOMAIN st.cache : st.cache[j] = a.line}
  IN  Count(st, [hit |-> at # {},
                 cache |-> IF at # {} THEN Append(Without(st.cache, Min(at)), a.line)
                           ELSE IF Len(st.cache) < Sets THEN Append(st.cache, a.line)
                           ELSE Append(Tail(st.cache), a.line)])
\* Meant to keep what is used often; it never has more than one entry.
full_ass2(st, a) == Count(st, [hit |-> st.cache = <<a.line>>, cache |-> <<a.line>>])

Hits(step(_, _), start, trace) == FoldLeft(step, start, trace).hits
OneEntry == [hits |-> 0, cache |-> <<NoLine>>]

\* What the hits of a variant are the LRU hits of: the accesses that touch
\* the cache, of which only the demand ones count.
Touching(trace, step(_, _), prefetches(_)) ==
  FlattenSeq([i \in DOMAIN trace |->
    LET st == FoldLeft(step, Start, SubSeq(trace, 1, i - 1))
        hit == step(st, trace[i]).hits > st.hits
    IN  <<[line |-> trace[i].line, demand |-> TRUE]>>
          \o (IF prefetches(hit) THEN <<[line |-> trace[i].line + 1, demand |-> FALSE]>> ELSE <<>>)])
DemandHits(touched) ==
  Cardinality({i \in DOMAIN touched : touched[i].demand /\ LruHit(Used(touched), i, Sets, Ways)})

\* Without allocation on a write, only what is in the cache can be used.
TouchesIt(trace, i, hit) == trace[i].op = "L" \/ hit
NoAllocateTrace(trace) ==
  LET Hit(i) == LET st == FoldLeft(NoWriteAllocate, Start, SubSeq(trace, 1, i - 1))
                IN  NoWriteAllocate(st, trace[i]).hits > st.hits
      kept(k) == SelectSeq([i \in 1..k |-> [i |-> i, line |-> trace[i].line, keep |-> TouchesIt(trace, i, Hit(i))]],
                           LAMBDA x : x.keep)
  IN  \A i \in DOMAIN trace :
        Hit(i) = LET t == Append(kept(i - 1), [i |-> i, line |-> trace[i].line, keep |-> TRUE])
                 IN  LruHit(Used(t), Len(t), Sets, Ways)

-----------------------------------------------------------------------------
(***************************************************************************)
(* cs220/lab13: valid, dirty, tag and the time of last use of each line.   *)
(***************************************************************************)
lines_create == [n \in 0..(Sets * Ways - 1) |-> [valid |-> FALSE, dirty |-> FALSE, lastUsed |-> 0, tag |-> 0]]
CacheStart == [lines |-> lines_create, time |-> 1, misses |-> 0, writes |-> 0]

line_firstUsed(lines, start, end) ==
  LET free == {n \in start..(end - 1) : ~lines[n].valid}
  IN  IF free # {} THEN Min(free)
      ELSE Min({n \in start..(end - 1) : \A o \in start..(end - 1) : lines[n].lastUsed <= lines[o].lastUsed})

line_setValid(st, line, tag) ==
  [st EXCEPT !.misses = @ + 1,
             !.writes = IF st.lines[line].valid /\ st.lines[line].dirty THEN @ + 1 ELSE @,
             !.lines[line].valid = TRUE, !.lines[line].dirty = FALSE, !.lines[line].tag = tag]
line_setUsed(st, line, write) ==
  [st EXCEPT !.lines[line].lastUsed = st.time, !.time = @ + 1, !.lines[line].dirty = @ \/ write]

\* The CAM answers the first line with the tag, valid or not.
cam_read(lines, start, end, tag) == {n \in start..(end - 1) : lines[n].tag = tag}
SetAssociative(st, a) ==
  LET start == (a.line % Sets) * Ways
      tag == a.line \div Sets
      cam == cam_read(st.lines, start, start + Ways, tag)
      known == cam # {} /\ st.lines[Min(cam)].valid
      line == IF known THEN Min(cam) ELSE line_firstUsed(st.lines, start, start + Ways)
  IN  line_setUsed(IF known THEN st ELSE line_setValid(st, line, tag), line, a.op = "S")
DirectAccess(st, a) ==
  LET line == a.line % (Sets * Ways)
      tag == a.line \div (Sets * Ways)
      known == st.lines[line].valid /\ st.lines[line].tag = tag
  IN  line_setUsed(IF known THEN st ELSE line_setValid(st, line, tag), line, a.op = "S")

\* The stores that are written back: the line was stored to since it came
\* in, and it is gone before the end.
Writebacks(trace, sets, ways) ==
  LET miss == {i \in DOMAIN trace : ~LruHit(Used(trace), i, sets, ways)}
      Ends(i) == {j \in DOMAIN trace : j > i /\ j \in miss /\ trace[j].line = trace[i].line}
      Upto(i) == IF Ends(i) = {} THEN Len(trace) ELSE Min(Ends(i)) - 1
      Dirty(i) == \E j \in i..Upto(i) : trace[j].line = trace[i].line /\ trace[j].op = "S"
      Gone(i) == ~LruHit(Append(Used(trace), trace[i].line), Len(trace) + 1, sets, ways) \/ Ends(i) # {}
  IN  Cardinality({i \in miss : Dirty(i) /\ Gone(i)})

\* Both simulators count the misses, hits and writes back of the caches
\* they simulate, whatever they were started with; the "hot-cold" cache of
\* project2 is one line, and its fully associative cache holds as many
\* lines as it has entries, the one it starts with gone first.
CountsAreLru(trace) ==
  /\ Hits(Plain, Start, trace) = LruHits(trace, Sets, Ways)
  /\ Hits(Direct, Start, trace) = LruHits(trace, Sets, 1)
  /\ Hits(full_ass, OneEntry, trace) = LruHits(trace, 1, Sets)
  /\ Hits(full_ass2, OneEntry, trace) = LruHits(trace, 1, 1)
  /\ Hits(Prefetch, Start, trace) = DemandHits(Touching(trace, Prefetch, LAMBDA hit : TRUE))
  /\ Hits(PrefetchOnMiss, Start, trace) = DemandHits(Touching(trace, PrefetchOnMiss, LAMBDA hit : ~hit))
  /\ NoAllocateTrace(trace)
  /\ LET set == FoldLeft(SetAssociative, CacheStart, trace)
         direct == FoldLeft(DirectAccess, CacheStart, trace)
     IN  /\ set.misses = Len(trace) - LruHits(trace, Sets, Ways)
         /\ set.writes = Writebacks(trace, Sets, Ways)
         /\ direct.misses = Len(trace) - LruHits(trace, Sets * Ways, 1)
         /\ direct.writes = Writebacks(trace, Sets * Ways, 1)
=============================================================================
