------------------------------ MODULE MCEscrow ------------------------------
(* Escrow for TLC: two wallets that deal with each other (and themselves)  *)
(* under one reference.  One starts below what it takes to open an escrow  *)
(* twice, the other is empty, so the rent rule bites in both directions.   *)
EXTENDS Escrow

CONSTANTS alice, bob, order

MCWallets == {alice, bob}
MCInitialLamports == [w \in MCWallets |-> IF w = alice THEN 12 ELSE 3]
=============================================================================
