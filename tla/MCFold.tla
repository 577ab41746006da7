------------------------------- MODULE MCFold -------------------------------
(* Two sellers, which write into their notes what looks like fields; the      *)
(* first round long enough for a settled order and, after a restart, a        *)
(* refunded one under the same number.                                        *)
EXTENDS Transfers, TLC

CONSTANTS s1, s2

MC_Notes == {<<[key |-> "round", val |-> 2], [key |-> "price", val |-> 2]>>}

MC_MaxSaid == <<15, 1>>

Symmetry == Permutations(Sellers)
=============================================================================
