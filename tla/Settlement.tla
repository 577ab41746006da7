----------------------------- MODULE Settlement -----------------------------
(***************************************************************************)
(* What an order's settlement promises the parties, with no accounts,      *)
(* rent or programs in sight.  An order is either idle or carries a deal:  *)
(* who pays, who is to be paid, how much, and from when the payer may take *)
(* the money back.  A deal is never edited; it ends by paying its seller   *)
(* or, from its deadline on, by returning its amount to its buyer.         *)
(*                                                                         *)
(* The steps are relations between the purses before and after, so an      *)
(* implementation is free to charge deposits (account rent) on top of the  *)
(* amount and to give them back later.                                     *)
(***************************************************************************)
EXTENDS Integers

CONSTANTS Orders, Parties, NoDeal

VARIABLES now,    \* the ledger's clock
          deals,  \* order -> deal, or NoDeal
          purse   \* party -> what the party holds itself

vars == <<now, deals, purse>>

Deals == [buyer : Parties, seller : Parties, amount : Nat \ {0}, deadline : Int]

Init == /\ now \in Nat
        /\ deals = [o \in Orders |-> NoDeal]
        /\ purse \in [Parties -> Nat]

OthersKeepTheirs(ps) == \A p \in Parties \ ps : purse'[p] = purse[p]

\* The buyer parts with at least the amount; nobody else's purse moves.
Fund(o) ==
    /\ deals[o] = NoDeal
    /\ deals'[o] \in Deals
    /\ deals' = [deals EXCEPT ![o] = deals'[o]]
    /\ deals'[o].deadline > now
    /\ purse'[deals'[o].buyer] =< purse[deals'[o].buyer] - deals'[o].amount
    /\ OthersKeepTheirs({deals'[o].buyer})
    /\ UNCHANGED now

\* The seller of the deal gets its amount; the buyer may get deposits back.
Pay(o) ==
    LET d == deals[o] IN
    /\ d # NoDeal
    /\ deals' = [deals EXCEPT ![o] = NoDeal]
    /\ IF d.seller = d.buyer
         THEN purse'[d.buyer] >= purse[d.buyer] + d.amount
         ELSE /\ purse'[d.seller] = purse[d.seller] + d.amount
              /\ purse'[d.buyer] >= purse[d.buyer]
    /\ OthersKeepTheirs({d.buyer, d.seller})
    /\ UNCHANGED now

\* Only once the deadline has come does the buyer get the amount back.
Return(o) ==
    LET d == deals[o] IN
    /\ d # NoDeal
    /\ now >= d.deadline
    /\ deals' = [deals EXCEPT ![o] = NoDeal]
    /\ purse'[d.buyer] >= purse[d.buyer] + d.amount
    /\ OthersKeepTheirs({d.buyer})
    /\ UNCHANGED now

\* The parties trade among themselves, outside any order.
Elsewhere == /\ purse' \in [Parties -> Nat]
             /\ UNCHANGED <<now, deals>>

TimePasses == /\ now' > now
              /\ UNCHANGED <<deals, purse>>

Next == \/ \E o \in Orders : Fund(o) \/ Pay(o) \/ Return(o)
        \/ Elsewhere
        \/ TimePasses

Spec == Init /\ [][Next]_vars
=============================================================================
