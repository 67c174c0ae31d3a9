----------------------------- MODULE Tournament -----------------------------
(***************************************************************************)
(* The double-elimination tournament of cs220/lab12.  A pool is a set: a   *)
(* player is put into it at a random place and the first one is taken out. *)
(* What two players do to each other is up to them, so a match may end in  *)
(* any way.                                                                *)
(***************************************************************************)
EXTENDS Naturals, FiniteSets

CONSTANT Players

VARIABLES
  wp, nwp,    \* winners' bracket, and that of the next tier
  lp, nlp,    \* losers' bracket, and that of the next tier
  losses,     \* history: the matches each has lost
  tied,       \* history: the championship match was a tie
  pc

vars == <<wp, nwp, lp, nlp, losses, tied, pc>>

Tie == "tie"
Lose(p) == losses' = [losses EXCEPT ![p] = @ + 1]

Init ==
  /\ wp = Players /\ nwp = {} /\ lp = {} /\ nlp = {}
  /\ losses = [p \in Players |-> 0] /\ tied = FALSE /\ pc = "tier"

\* Two players out of a pool, and who wins.
Match(pool, p1, p2, winner) ==
  /\ p1 \in pool /\ p2 \in pool \ {p1} /\ winner \in {p1, p2, Tie}
Winner(p1, p2, winner) == IF winner = p2 THEN p2 ELSE p1
Other(p1, p2, winner) == IF winner = p2 THEN p1 ELSE p2

\* The pools of the next tier take the places of this one's.
Swap(winners, losers) == wp' = winners /\ nwp' = {} /\ lp' = losers /\ nlp' = {}

StartTier ==
  /\ pc = "tier" /\ Cardinality(wp) + Cardinality(lp) > 1 /\ ~(Cardinality(wp) = 1 /\ Cardinality(lp) = 1)
  /\ pc' = "winners" /\ UNCHANGED <<wp, nwp, lp, nlp, losses, tied>>

Championship ==
  /\ pc = "tier" /\ Cardinality(wp) = 1 /\ Cardinality(lp) = 1
  /\ \E p1 \in wp, p2 \in lp :
       \/ Swap({p1}, {}) /\ Lose(p2) /\ UNCHANGED tied
       \/ Swap({}, {p1, p2}) /\ Lose(p1) /\ UNCHANGED tied
       \/ Swap({}, {}) /\ tied' = TRUE /\ UNCHANGED losses
  /\ UNCHANGED pc

WinnersMatch ==
  /\ pc = "winners"
  /\ \E p1, p2 \in wp, winner \in wp \cup {Tie} :
       /\ Match(wp, p1, p2, winner)
       /\ wp' = wp \ {p1, p2} /\ nwp' = nwp \cup {Winner(p1, p2, winner)} /\ nlp' = nlp \cup {Other(p1, p2, winner)}
       /\ Lose(Other(p1, p2, winner))
  /\ UNCHANGED <<lp, tied, pc>>

LosersMatch ==
  /\ pc = "losers"
  /\ \E p1, p2 \in lp, winner \in lp \cup {Tie} :
       /\ Match(lp, p1, p2, winner)
       /\ lp' = lp \ {p1, p2} /\ nlp' = nlp \cup {Winner(p1, p2, winner)}
       /\ Lose(Other(p1, p2, winner))
  /\ UNCHANGED <<wp, nwp, tied, pc>>

\* Who is left over gets into the next tier without a match.
WinnersEnd ==
  /\ pc = "winners" /\ Cardinality(wp) <= 1 /\ pc' = "losers"
  /\ nwp' = nwp \cup wp /\ wp' = {} /\ UNCHANGED <<lp, nlp, losses, tied>>
LosersEnd ==
  /\ pc = "losers" /\ Cardinality(lp) <= 1 /\ pc' = "tier"
  /\ Swap(nwp, nlp \cup lp) /\ UNCHANGED <<losses, tied>>

Over == pc = "tier" /\ Cardinality(wp) + Cardinality(lp) <= 1
Finish == Over /\ UNCHANGED vars

Next == StartTier \/ Championship \/ WinnersMatch \/ LosersMatch \/ WinnersEnd \/ LosersEnd \/ Finish

Spec == Init /\ [][Next]_vars

-----------------------------------------------------------------------------
\* The winners' bracket holds those who have lost nothing, the losers' those
\* who have lost once, and nobody is out before a second loss; so there is
\* a winner, but for the tie of the championship, which drops both players
\* (tournament.c:33-37).
BracketsFollowLosses ==
  /\ \A p \in Players :
       /\ (p \in wp \cup nwp) = (losses[p] = 0 /\ ~tied)
       /\ (p \in lp \cup nlp) = (losses[p] = 1 /\ ~tied)
       /\ losses[p] <= 2
  /\ Over /\ ~tied => Cardinality(wp \cup lp) = 1
=============================================================================
