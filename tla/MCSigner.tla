------------------------------ MODULE MCSigner ------------------------------
(* Signer for TLC: the signer's wallet and its seller, amounts that fit the *)
(* cap once or exactly fill it, and enough lamports that the wallet itself  *)
(* is not what limits the deposits.                                         *)
EXTENDS Signer, TLC

CONSTANTS buyer, seller, r1, r2, r3, h1, h2

MCWallets == {buyer, seller}
MCInitialLamports == [w \in MCWallets |-> IF w = buyer THEN 12 ELSE 1]
MCRefs == {r1, r2, r3}
MCAmounts == {-1, 2, 3}
MCHandlers == {h1, h2}
\* References and handlers are interchangeable.
Symmetry == Permutations(MCRefs) \cup Permutations(MCHandlers)
=============================================================================
