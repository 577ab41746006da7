------------------------------ MODULE MCMarket ------------------------------
(* Market for TLC: a buyer, its sellers and the verifier over two rounds,  *)
(* so that what is late in the first round is read in the second.          *)
EXTENDS Market

CONSTANTS buyerWallet, sellerWallet

MCWallets == {buyerWallet, sellerWallet}
MCInitialLamports == [w \in MCWallets |-> IF w = buyerWallet THEN 9 ELSE 1]
=============================================================================
