----------------------------- MODULE Exercises -----------------------------
(***************************************************************************)
(* Algorithms of the coursework, each against what it is to compute: the   *)
(* knapsacks of cs375/prog1, prog3 and prog4, the extended heap of         *)
(* cs375/heap.cpp, the packing bench of cs220/proj1 and the score of a     *)
(* match in cs220/lab12.                                                   *)
(***************************************************************************)
EXTENDS Integers, Sequences, SequencesExt, FiniteSets, FiniteSetsExt

CONSTANTS NUMSLOTS, Width

-----------------------------------------------------------------------------
(***************************************************************************)
(* Knapsacks.  An item has a weight w and a cost c; its ratio is a quotient *)
(* of integers, cut off.                                                   *)
(***************************************************************************)
Ratio(item) == item.c \div item.w
WeightOf(items, S) == MapThenSumSet(LAMBDA i : items[i].w, S)
CostOf(items, S) == MapThenSumSet(LAMBDA i : items[i].c, S)
Best(items, w) ==
  Max({CostOf(items, S) : S \in {S \in SUBSET DOMAIN items : WeightOf(items, S) <= w}})

\* std::sort leaves the order of items with one ratio open.
Sorted(items) ==
  {p \in SetToSeqs(DOMAIN items) : \A i \in 1..(Len(p) - 1) : Ratio(items[p[i]]) >= Ratio(items[p[i + 1]])}

backtrack(items, w) ==
  LET table[i \in 0..Len(items), we \in 0..w] ==
        IF i = 0 \/ we = 0 THEN 0
        ELSE IF items[i].w > we THEN table[i - 1, we]
        ELSE LET with == items[i].c + table[i - 1, we - items[i].w]
             IN  IF table[i - 1, we] > with THEN table[i - 1, we] ELSE with
  IN  table[Len(items), w]

greedy_one(items, w) ==
  FoldLeft(LAMBDA st, item : IF item.w <= st.w THEN [w |-> st.w - item.w, profit |-> st.profit + item.c] ELSE st,
           [w |-> w, profit |-> 0], items).profit
greedy_two(items, w) ==
  Max({greedy_one(items, w)} \cup {items[i].c : i \in {i \in DOMAIN items : items[i].w <= w}})

\* The table finds the best choice in whatever order the items are; greedy
\* choices are not better, and the second is at least half as good when no
\* ratio was cut off.
KnapsacksAreRight(items, w) ==
  \A p \in Sorted(items) :
    LET list == [i \in DOMAIN p |-> items[p[i]]]
    IN  /\ backtrack(list, w) = Best(items, w)
        /\ greedy_one(list, w) <= greedy_two(list, w) /\ greedy_two(list, w) <= Best(items, w)
        /\ (\A i \in DOMAIN items : items[i].c % items[i].w = 0) => 2 * greedy_two(list, w) >= Best(items, w)

\* Cards [w |-> cost, m |-> market price]: all of them if the money is
\* enough, else the first best subset in the order of binary numbers.
Profit(cards, S) == MapThenSumSet(LAMBDA i : cards[i].m - cards[i].w, S)
SubsetOf(i, n) == {j \in 1..n : (i \div 2^(j - 1)) % 2 = 1}
compute_profit(cards, money) ==
  FoldLeft(LAMBDA st, i : LET S == SubsetOf(i, Len(cards))
                          IN  IF Profit(cards, S) > st.profit /\ WeightOf(cards, S) <= money
                              THEN [profit |-> Profit(cards, S), bought |-> Cardinality(S)] ELSE st,
           [profit |-> 0, bought |-> 0], [i \in 1..(2^Len(cards)) |-> i - 1])
BuyCards(cards, money) ==
  LET p == SelectSeq(cards, LAMBDA card : card.w <= money)
  IN  IF money >= WeightOf(cards, DOMAIN cards) THEN [profit |-> Profit(p, DOMAIN p), bought |-> Len(p)]
      ELSE compute_profit(p, money)

\* With enough money even the cards that lose money are bought.
CardsAreBestBuys(cards, money) ==
  LET can == {S \in SUBSET DOMAIN cards : WeightOf(cards, S) <= money}
      best == Max({Profit(cards, S) : S \in can})
      got == BuyCards(cards, money)
  IN  IF money >= WeightOf(cards, DOMAIN cards) THEN got = [profit |-> Profit(cards, DOMAIN cards), bought |-> Len(cards)]
      ELSE got.profit = best /\ \E S \in can : Profit(cards, S) = best /\ Cardinality(S) = got.bought

-----------------------------------------------------------------------------
(***************************************************************************)
(* The extended heap: arr holds [id, score], handle says where each id is. *)
(* Places count from 1 here, as in handle.                                 *)
(***************************************************************************)
swap(h, i, j) ==
  LET a == h.arr[i].id
      b == h.arr[j].id
  IN  [arr |-> [h.arr EXCEPT ![i] = h.arr[j], ![j] = h.arr[i]],
       handle |-> [h.handle EXCEPT ![a] = h.handle[b], ![b] = h.handle[a]]]

RECURSIVE SiftUp(_, _)
SiftUp(h, i) ==
  IF i = 1 \/ h.arr[i \div 2].score <= h.arr[i].score THEN h ELSE SiftUp(swap(h, i, i \div 2), i \div 2)

\* The right child is taken whenever it is smaller than its parent.
RECURSIVE reheapify(_, _)
reheapify(h, i) ==
  LET Below(c) == c <= Len(h.arr) /\ h.arr[c].score < h.arr[i].score
      smallest == IF Below(2 * i + 1) THEN 2 * i + 1 ELSE IF Below(2 * i) THEN 2 * i ELSE i
  IN  IF smallest = i THEN h ELSE reheapify(swap(h, i, smallest), smallest)

insertContestant(h, id, score) ==
  IF h.handle[id] # 0 THEN h
  ELSE SiftUp([arr |-> Append(h.arr, [id |-> id, score |-> score]), handle |-> [h.handle EXCEPT ![id] = id]],
              Len(h.arr) + 1)
points(h, id, n) ==
  IF h.handle[id] <= 0 THEN h ELSE reheapify([h EXCEPT !.arr[h.handle[id]].score = @ + n], h.handle[id])
eliminateWeakest(h) ==
  IF Len(h.arr) <= 1 THEN [h EXCEPT !.arr = <<>>]
  ELSE LET last == h.arr[Len(h.arr)]
       IN  reheapify([arr |-> [Front(h.arr) EXCEPT ![1] = last],
                      handle |-> [h.handle EXCEPT ![last.id] = 1, ![h.arr[1].id] = -1]], 1)

\* Contestants come in the order of their numbers; op.id is for points.
HeapOps == [op : {"insert"}, n : {1, 2}] \cup [op : {"points"}, id : 1..2, n : {2, -2}] \cup [op : {"eliminate"}]
Apply(h, op) ==
  CASE op.op = "insert" -> insertContestant(h, Len(h.arr) + 1, op.n)
    [] op.op = "points" -> points(h, op.id, op.n)
    [] op.op = "eliminate" -> eliminateWeakest(h)
NoHeap(n) == [arr |-> <<>>, handle |-> [id \in 1..(n + 2) |-> 0]]
HeapAfter(ops) == FoldLeft(Apply, NoHeap(Len(ops)), ops)

\* handle follows every swap, so long as the last contestant is not
\* eliminated: that one keeps its handle.  Until scores change or someone
\* goes, the weakest is in front.
HandlesAreRight(ops) ==
  LET h == HeapAfter(ops)
  IN  (\A k \in 1..Len(ops) : ops[k].op = "eliminate" => Len(HeapAfter(SubSeq(ops, 1, k - 1)).arr) > 1)
        => /\ \A i \in DOMAIN h.arr : h.handle[h.arr[i].id] = i
           /\ \A id \in DOMAIN h.handle : h.handle[id] > 0 => h.arr[h.handle[id]].id = id
           /\ (\A k \in DOMAIN ops : ops[k].op = "insert")
                => \A i \in 2..Len(h.arr) : h.arr[i \div 2].score <= h.arr[i].score

-----------------------------------------------------------------------------
(***************************************************************************)
(* The bench: an order of bins, one part at a time.  boxes counts how often *)
(* a bin was asked for; the cost is in quarters.                           *)
(***************************************************************************)
NoBin == -1
clearBench == [slots |-> [s \in 1..NUMSLOTS |-> NoBin], cost |-> 0, failed |-> FALSE]
fetchBin(b, bin, slot) ==
  [b EXCEPT !.slots[slot] = bin, !.cost = @ + (IF b.slots[slot] # NoBin THEN 3 ELSE 2)]
Times(order, n, bin) == Cardinality({i \in 1..n : order[i] = bin})

\* The slot for a bin that is not there: a free one, or that of the bin
\* asked for least, the last one first and then in their order.
SlotFor(b, boxes(_)) ==
  LET free == {s \in 1..NUMSLOTS : b.slots[s] = NoBin}
      least == {s \in 1..NUMSLOTS : \A t \in 1..NUMSLOTS : boxes(b.slots[s]) <= boxes(b.slots[t])}
  IN  IF free # {} THEN Min(free) ELSE IF NUMSLOTS \in least THEN NUMSLOTS ELSE Min(least)
Pack(order, b, n) ==
  LET there == \E s \in 1..NUMSLOTS : b.slots[s] = order[n]
      after == IF there THEN b ELSE fetchBin(b, order[n], SlotFor(b, LAMBDA bin : Times(order, n, bin)))
  IN  [after EXCEPT !.failed = @ \/ ~\E s \in 1..NUMSLOTS : after.slots[s] = order[n]]
BenchAfter(order) == FoldLeft(LAMBDA b, n : Pack(order, b, n), clearBench, [n \in DOMAIN order |-> n])

\* The bin of a part is on the bench when the part is taken, no bin is
\* there twice, and no bin that goes was asked for more than one that
\* stays, the new one aside.
BenchIsRight(order) ==
  LET b == BenchAfter(order)
      n == Len(order)
      was == BenchAfter(SubSeq(order, 1, n - 1))
      On(x) == {x.slots[s] : s \in 1..NUMSLOTS} \ {NoBin}
  IN  /\ ~b.failed
      /\ \A s, t \in 1..NUMSLOTS : b.slots[s] = b.slots[t] /\ b.slots[s] # NoBin => s = t
      /\ n > 0 => \A gone \in On(was) \ On(b), kept \in On(b) \ {order[n]} :
           Times(order, n, gone) <= Times(order, n, kept)
      /\ b.cost = 2 * Cardinality(On(b)) + 3 * Cardinality({i \in 1..n :
           LET x == BenchAfter(SubSeq(order, 1, i - 1)) IN order[i] \notin On(x) /\ Cardinality(On(x)) = NUMSLOTS})

-----------------------------------------------------------------------------
(***************************************************************************)
(* A match: a tie doubles the bet, an int of Width bits.                   *)
(***************************************************************************)
Moves == {"Rock", "Paper", "Scissors", "Unknown"}
Beats == {<<"Rock", "Scissors">>, <<"Scissors", "Paper">>, <<"Paper", "Rock">>}
              \cup {<<m, "Unknown">> : m \in Moves \ {"Unknown"}}
\* The cascade of eval_round: what is not a tie or the first player's.
eval_round(p1, p2) ==
  CASE p1 = p2 -> "Tie"
    [] p1 # p2 /\ p1 = "Unknown" -> "Player2"
    [] p1 # p2 /\ p2 = "Unknown" -> "Player1"
    [] p1 # p2 /\ "Unknown" \notin {p1, p2} ->
         IF <<p1, p2>> \in {<<"Rock", "Scissors">>, <<"Scissors", "Paper">>, <<"Paper", "Rock">>}
         THEN "Player1" ELSE "Player2"

Narrow(n) == ((n + 2^(Width - 1)) % 2^Width) - 2^(Width - 1)
Play(st, game) ==
  LET result == eval_round(game[1], game[2])
  IN  CASE result = "Player1" -> [st EXCEPT !.my = Narrow(@ + st.bet), !.bet = 1]
        [] result = "Player2" -> [st EXCEPT !.opp = Narrow(@ + st.bet), !.bet = 1]
        [] result = "Tie" -> [st EXCEPT !.bet = Narrow(@ * 2)]
match(games) == FoldLeft(Play, [my |-> 0, opp |-> 0, bet |-> 1], games)

\* The score is that of the rules, each win doubled by the ties just before
\* it, if no player's score reaches what an int can hold.
MatchIsFair(games) ==
  LET Won(i, a, b) == <<games[i][a], games[i][b]>> \in Beats
      Decided(i) == Won(i, 1, 2) \/ Won(i, 2, 1)
      Worth(i) == 2^(i - 1 - Max({0} \cup {j \in 1..(i - 1) : Decided(j)}))
      Score(a, b) == MapThenSumSet(Worth, {i \in DOMAIN games : Won(i, a, b)})
      fits == Score(1, 2) < 2^(Width - 1) /\ Score(2, 1) < 2^(Width - 1)
  IN  fits => match(games).my = Score(1, 2) /\ match(games).opp = Score(2, 1)
=============================================================================
