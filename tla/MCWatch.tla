------------------------------- MODULE MCWatch -------------------------------
(* Watch for TLC: two fixtures and two calls of the proxy at once. The odds   *)
(* are those of a full 1X2 market, of one that has moved by MovePct and lost  *)
(* a price, and of one without prices; matches end in normal and in extra     *)
(* time, and their events may be out of order.                                *)
EXTENDS Watch

Symmetric == Permutations(Callers)

Three == <<"part1", "draw", "part2">>

FullOdds  == <<[kind |-> "OU", names |-> <<"over", "under">>, pct |-> <<NA, NA>>],
               [kind |-> "1X2", names |-> Three, pct |-> <<25, 30, 45>>]>>
MovedOdds == <<[kind |-> "1X2", names |-> Three, pct |-> <<45, NA, 40>>]>>
UnpricedOdds == <<[kind |-> "1X2", names |-> Three, pct |-> <<NA, NA, NA>>]>>

MCFixtures == <<"f1", "f2">>
MCOffers == [f \in {"f1", "f2"} |-> IF f = "f1" THEN <<FullOdds, MovedOdds>> ELSE <<UnpricedOdds, FullOdds>>]

Event(seq, ended, part1, part2) == [seq |-> seq, ended |-> ended, part1 |-> part1, part2 |-> part2]

MCResults ==
  {[events |-> <<>>, winner |-> Unknown],
   [events |-> <<Event(2, FALSE, [H1 |-> 1], [H1 |-> 0])>>, winner |-> Unknown],
   [events |-> <<Event(3, TRUE, [H1 |-> 1, H2 |-> 1], [H1 |-> 0, H2 |-> 2]), Event(2, FALSE, [H1 |-> 1], [H1 |-> 0])>>, winner |-> "away"],
   [events |-> <<Event(1, TRUE, [H2 |-> 1], [H2 |-> 1]), Event(4, TRUE, [H2 |-> 1, ET2 |-> 2], [H2 |-> 1, ET2 |-> 1])>>, winner |-> "home"],
   [events |-> <<Event(1, TRUE, [H2 |-> 1], [H2 |-> 1])>>, winner |-> "draw"],
   [events |-> <<Event(1, TRUE, [H2 |-> 1], <<>>)>>, winner |-> Unknown]}
=============================================================================
