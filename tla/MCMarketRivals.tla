--------------------------- MODULE MCMarketRivals ---------------------------
(* Market with two sellers for TLC: one may still be at work on its order  *)
(* of the first round while the other is awarded the second.               *)
EXTENDS MCMarket, TLC

CONSTANTS s1, s2, r1, r2

MCSellers == {s1, s2}
MCRefs == {r1, r2}
\* Sellers and references are interchangeable.
Symmetry == Permutations(MCSellers) \cup Permutations(MCRefs)
=============================================================================
