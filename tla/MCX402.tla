-------------------------------- MODULE MCX402 --------------------------------
(* X402 for TLC: three purchases compete for two open challenges.  The      *)
(* purchases are alike, and so are the references.                         *)
EXTENDS X402, TLC

MCSymmetry == Permutations(Fetches) \cup Permutations(Refs)
=============================================================================
