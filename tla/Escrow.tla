------------------------------- MODULE Escrow -------------------------------
(***************************************************************************)
(* The SOL half of the escrow program (programs/escrow/src/lib.rs):        *)
(* initialize, release and refund over the lamports of every account.      *)
(*                                                                         *)
(* An order's escrow lives at the address derived from the seeds           *)
(* ("escrow", buyer, reference), modelled as the pair <<buyer, reference>>.*)
(* One action is one confirmed transaction; a failed one changes nothing   *)
(* and is not a step.  Transaction fees are left out.                      *)
(*                                                                         *)
(* The Can... and the lamport operators take the balances they apply to,   *)
(* so that a program that calls this one in the middle of its own          *)
(* instruction (Arbiter) applies them to the balances of that moment.      *)
(*                                                                         *)
(* An operator named Mut... is not part of the model: it is a plausible    *)
(* mistake in the definition below it, kept to show that the properties    *)
(* would notice.                                                           *)
(***************************************************************************)
EXTENDS Integers, FiniteSets, Functions

CONSTANTS
    Wallets,          \* accounts that can sign: key pairs, and PDAs of a calling program
    Refs,             \* order references
    NoEscrow,         \* an address that holds no Escrow account
    Rent,             \* rent-exempt minimum of an Escrow account
    MinBalance,       \* rent-exempt minimum of an account without data
    U64Max,           \* the largest u64
    InitialLamports,  \* wallet -> lamports at the start
    Amounts,          \* amounts passed to initialize
    Deadlines,        \* deadlines passed to initialize
    Gifts,            \* amounts of plain transfers
    MaxTime           \* bound of the clock

Keys == Wallets \X Refs
Addresses == Wallets \cup Keys

ASSUME KeysAreNotWallets == Wallets \cap Keys = {}
ASSUME RentAssumption ==
    /\ Rent \in Nat /\ MinBalance \in Nat
    /\ 0 < MinBalance /\ MinBalance =< Rent
ASSUME InputAssumption ==
    /\ Amounts \subseteq Nat /\ Gifts \subseteq Nat
    /\ Deadlines \subseteq Int
    /\ U64Max \in Nat /\ MaxTime \in Nat
ASSUME InitialAssumption == InitialLamports \in [Wallets -> Nat]
\* Addresses are finitely many, and all lamports together fit a u64.
ASSUME FiniteAssumption == IsFiniteSet(Wallets) /\ IsFiniteSet(Refs)
ASSUME SupplyAssumption == FoldFunction(+, 0, InitialLamports) =< U64Max

VARIABLES now,       \* the cluster's clock (unix_timestamp)
          lamports,  \* address -> balance
          escrows    \* key -> the Escrow account there, or NoEscrow

vars == <<now, lamports, escrows>>

EscrowAccounts == [buyer : Wallets, seller : Wallets, amount : Nat \ {0},
                   reference : Refs, deadline : Int]

\* The terms of an account, without the reference that is part of its address.
Deals == [buyer : Wallets, seller : Wallets, amount : Nat \ {0}, deadline : Int]

ASSUME NoEscrowAssumption == NoEscrow \notin EscrowAccounts /\ NoEscrow \notin Deals

Open == {k \in Keys : escrows[k] # NoEscrow}

TypeOK == /\ now \in Nat
          /\ lamports \in [Addresses -> Nat]
          /\ escrows \in [Keys -> EscrowAccounts \cup {NoEscrow}]

Init == /\ now = 0
        /\ lamports = [a \in Addresses |-> IF a \in Wallets THEN InitialLamports[a] ELSE 0]
        /\ escrows = [k \in Keys |-> NoEscrow]

-----------------------------------------------------------------------------
(* The runtime: a transaction may leave no account below the rent-exempt   *)
(* minimum unless it is empty.                                             *)

RentExempt(l) == \A a \in Addresses : l[a] = 0 \/ l[a] >= MinBalance

Move(l, from, to, x) ==
    [a \in DOMAIN l |-> (l[a] - (IF a = from THEN x ELSE 0)) + (IF a = to THEN x ELSE 0)]

\* Anchor's `init` on an address that was sent lamports beforehand pays only
\* what is missing to the rent.
TopUp(l, k) == IF l[k] < Rent THEN Rent - l[k] ELSE 0

-----------------------------------------------------------------------------
(* What each instruction requires and does to the balances l.              *)

MutRentFromAmount(l, k, amount) == IF TopUp(l, k) > amount THEN TopUp(l, k) ELSE amount

\* The rent of the account and, on top of it, the amount.
DepositCost(l, k, amount) == TopUp(l, k) + amount

ValidTerms(amount, deadline) == amount > 0 /\ deadline > now

\* `init` creates the account and fails when there is one.
Vacant(k) == escrows[k] = NoEscrow

CanInitialize(l, k, amount, deadline) ==
    /\ ValidTerms(amount, deadline)
    /\ Vacant(k)
    /\ l[k[1]] >= DepositCost(l, k, amount)

Deposited(l, k, amount) == Move(l, k[1], k, DepositCost(l, k, amount))

MutAnySeller(e, seller) == TRUE

HasOneSeller(e, seller) == e.seller = seller

\* `buyer` signs and `seller` is passed in: both must be the recorded ones.
CanRelease(l, k, buyer, seller) ==
    LET e == escrows[k] IN
    /\ e # NoEscrow
    /\ k = <<buyer, e.reference>>
    /\ e.buyer = buyer
    /\ HasOneSeller(e, seller)
    /\ l[k] >= e.amount
    /\ l[seller] + e.amount =< U64Max

\* `close = buyer`: the account's lamports go to the buyer, all of them.
Closed(l, k, buyer) == Move(l, k, buyer, l[k])

MutPaidFromNowhere(l, k, e, seller) == Closed([l EXCEPT ![seller] = @ + e.amount], k, e.buyer)

\* The amount to the seller passed in, what is left to the buyer.
Released(l, k, e, seller) == Closed(Move(l, k, seller, e.amount), k, e.buyer)

MutAfterDeadline(e) == now > e.deadline

MutAnyTime(e) == TRUE

DeadlineReached(e) == now >= e.deadline

CanRefund(k, buyer) ==
    LET e == escrows[k] IN
    /\ e # NoEscrow
    /\ k = <<buyer, e.reference>>
    /\ e.buyer = buyer
    /\ DeadlineReached(e)

Refunded(l, k, e) == Closed(l, k, e.buyer)

-----------------------------------------------------------------------------
Initialize(buyer, seller, ref, amount, deadline) ==
    LET k == <<buyer, ref>> IN
    /\ CanInitialize(lamports, k, amount, deadline)
    /\ lamports' = Deposited(lamports, k, amount)
    /\ RentExempt(lamports')
    /\ escrows' = [escrows EXCEPT ![k] =
           [buyer |-> buyer, seller |-> seller, amount |-> amount,
            reference |-> ref, deadline |-> deadline]]
    /\ UNCHANGED now

\* All that a settlement needs to execute: what the program requires and, of
\* the balances it leaves, the runtime.
Releasable(buyer, seller, k) ==
    /\ CanRelease(lamports, k, buyer, seller)
    /\ RentExempt(Released(lamports, k, escrows[k], seller))

Refundable(buyer, k) ==
    /\ CanRefund(k, buyer)
    /\ RentExempt(Refunded(lamports, k, escrows[k]))

Release(buyer, seller, k) ==
    /\ Releasable(buyer, seller, k)
    /\ lamports' = Released(lamports, k, escrows[k], seller)
    /\ escrows' = [escrows EXCEPT ![k] = NoEscrow]
    /\ UNCHANGED now

Refund(buyer, k) ==
    /\ Refundable(buyer, k)
    /\ lamports' = Refunded(lamports, k, escrows[k])
    /\ escrows' = [escrows EXCEPT ![k] = NoEscrow]
    /\ UNCHANGED now

\* Anybody may send lamports anywhere, to an escrow's address too, before it
\* is opened or while it is open.
SystemTransfer(from, to, x) ==
    /\ from # to
    /\ lamports[from] >= x
    /\ lamports' = Move(lamports, from, to, x)
    /\ RentExempt(lamports')
    /\ UNCHANGED <<now, escrows>>

Tick == /\ now < MaxTime
        /\ now' = now + 1
        /\ UNCHANGED <<lamports, escrows>>

Next ==
    \/ \E buyer, seller \in Wallets, ref \in Refs, amount \in Amounts, deadline \in Deadlines :
          Initialize(buyer, seller, ref, amount, deadline)
    \/ \E buyer, seller \in Wallets, k \in Keys : Release(buyer, seller, k)
    \/ \E buyer \in Wallets, k \in Keys : Refund(buyer, k)
    \/ \E from \in Wallets, to \in Addresses, x \in Gifts : SystemTransfer(from, to, x)
    \/ Tick

Spec == Init /\ [][Next]_vars

-----------------------------------------------------------------------------
(* Properties *)

\* The address seeds and the account agree: the escrow found at a key is the
\* one its buyer opened under that reference (`has_one` and the seeds of
\* Release and Refund can never disagree).
KeyedByItsBuyer ==
    \A k \in Open : k = <<escrows[k].buyer, escrows[k].reference>>

\* An open escrow always holds its amount and its rent, whatever was sent to
\* its address before or since: `checked_sub` in release never fails.
Solvency == \A k \in Open : lamports[k] >= escrows[k].amount + Rent


\* No lamport is made or lost by any sequence of transfers, deposits and
\* settlements, whatever deal is open: what the accounts hold together never
\* changes.
Conservation == TypeOK /\ FoldFunction(+, 0, lamports) = FoldFunction(+, 0, InitialLamports)

\* Nothing locks an escrow up.  Its buyer can always release it, unless the
\* seller's account is empty and the amount alone would not make it rent
\* exempt, and from the deadline on can always refund it.
NeverLocked ==
    \A k \in Open :
      LET e == escrows[k] IN
      /\ lamports[e.seller] + e.amount >= MinBalance => Releasable(e.buyer, e.seller, k)
      /\ now >= e.deadline => Refundable(e.buyer, k)

\* The terms of an open escrow are those it was opened with, until it is
\* closed: no second initialize replaces its seller, amount or deadline.
TermsAreFixed ==
    [][\A k \in Keys : escrows[k] # NoEscrow /\ escrows'[k] # NoEscrow
                         => escrows'[k] = escrows[k]]_vars

\* Lamports leave an escrow's address only when the escrow is closed, and
\* then all of them do.
DrainedOnlyWhenClosed ==
    [][\A k \in Keys : lamports'[k] < lamports[k]
                         => /\ escrows[k] # NoEscrow /\ escrows'[k] = NoEscrow
                            /\ lamports'[k] = 0]_vars

\* What an Escrow account says of the deal it holds.
DealOf(e) ==
    IF e = NoEscrow THEN NoEscrow
    ELSE [buyer |-> e.buyer, seller |-> e.seller, amount |-> e.amount, deadline |-> e.deadline]

Promise == INSTANCE Settlement WITH
    Orders <- Keys,
    Parties <- Wallets,
    NoDeal <- NoEscrow,
    deals <- [k \in Keys |-> DealOf(escrows[k])],
    purse <- [w \in Wallets |-> lamports[w]]

\* Every step is a step of the promise: a deal ends by paying its bound seller
\* the exact amount or, from its deadline on, by returning it to its buyer.
KeepsPromise == Promise!Spec
=============================================================================
