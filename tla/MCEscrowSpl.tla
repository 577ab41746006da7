---------------------------- MODULE MCEscrowSpl ----------------------------
(* EscrowSpl for TLC: two wallets under one reference and two mints; bob    *)
(* has never held the first.                                               *)
EXTENDS EscrowSpl

CONSTANTS alice, bob, order, usdc, bonk

MCWallets == {alice, bob}
MCInitialTokens ==
    [a \in MCWallets \X {usdc, bonk} |->
        CASE a = <<alice, usdc>> -> 2
          [] a = <<alice, bonk>> -> 1
          [] a = <<bob, usdc>> -> NoAccount
          [] a = <<bob, bonk>> -> 1]
=============================================================================
