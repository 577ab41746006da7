------------------------------- MODULE Signer -------------------------------
(***************************************************************************)
(* The policy signer (examples/patchbond/src/signer-server.ts): an HTTP    *)
(* sidecar that owns the buyer's key and offers deposit, release and       *)
(* refund.  It runs over the SOL escrow program (Escrow).                  *)
(*                                                                         *)
(* The server is a Node process: a handler runs alone until its `await`    *)
(* and again when the awaited transaction is confirmed, and other handlers *)
(* run in between.  So a request is the steps                              *)
(*     Deposit / Release / Refund   check, sign and send                   *)
(*     Land                         the cluster executes the transaction   *)
(*     Confirm                      the handler resumes and records it     *)
(* or, after sending, Fail (the transaction does not execute) or           *)
(* LoseConfirmation (sendAndConfirmTransaction throws although the         *)
(* transaction executed, or will yet).  Restart forgets what the process   *)
(* holds.  A refused request changes nothing and is not a step.            *)
(***************************************************************************)
EXTENDS Integers, FiniteSets

CONSTANTS
    Wallets, Refs, NoEscrow, Rent, MinBalance, U64Max, InitialLamports,
    MaxTime,          \* all of Escrow
    Buyer,            \* the wallet whose key the signer holds
    SELLER,           \* the only seller it will fund
    MAX_SOL,          \* the spend cap
    MinSecs, MaxSecs, \* accepted range of deadlineSeconds (15 and 300)
    AskedAmounts,     \* amountSol clients ask for, in lamports
    AskedSecs,        \* deadlineSeconds clients ask for
    Handlers,         \* requests that can be in flight at once
    Idle,             \* a handler that is free
    NoOrder,          \* a reference the signer has no order for
    MayLose,          \* TRUE: confirmations may be lost
    MaxRestarts       \* bound on restarts

VARIABLES
    now, lamports, escrows,   \* the cluster (Escrow)
    orders,        \* reference -> [seller, amountSol], or NoOrder
    depositedSol,  \* what the signer counts against the cap
    handlers,      \* handler -> the transaction it awaits, or Idle
    orphans,       \* transactions sent that no handler awaits any more
    restarts,
    \* History, read by the properties and for the freshness of references.
    funded,        \* all deposits that executed, in lamports
    asked,         \* references some accepted deposit was for
    lost,          \* references whose deposit the handler did not see confirmed,
                   \* or whose order a restart forgot
    overlapped     \* a deposit was accepted while another was unaccounted for

chain == <<now, lamports, escrows>>
server == <<orders, depositedSol, handlers>>
history == <<funded, asked, lost, overlapped>>
vars == <<chain, server, orphans, restarts, history>>

Chain == INSTANCE Escrow WITH Amounts <- {}, Deadlines <- {}, Gifts <- {}

Key(ref) == <<Buyer, ref>>

Orders == [seller : Wallets, amountSol : Nat]

Transactions == [op : {"deposit", "release", "refund"}, reference : Refs, seller : Wallets,
                 amount : Nat, deadline : Int, landed : BOOLEAN]

\* The escrow program's own assumptions.
ASSUME ChainAssumption ==
    /\ Chain!KeysAreNotWallets /\ Chain!RentAssumption /\ Chain!InputAssumption
    /\ Chain!InitialAssumption /\ Chain!FiniteAssumption /\ Chain!SupplyAssumption
    /\ Chain!NoEscrowAssumption
ASSUME SignerAssumption ==
    /\ Buyer \in Wallets
    /\ AskedAmounts \subseteq Int /\ AskedSecs \subseteq Int
    /\ MAX_SOL \in Nat /\ MaxRestarts \in Nat /\ IsFiniteSet(Handlers)
    /\ Idle \notin Transactions /\ NoOrder \notin Orders

TypeOK == /\ Chain!TypeOK
          /\ orders \in [Refs -> Orders \cup {NoOrder}]
          /\ depositedSol \in Nat
          /\ handlers \in [Handlers -> Transactions \cup {Idle}]
          /\ orphans \subseteq Transactions
          /\ restarts \in 0..MaxRestarts
          /\ funded \in Nat
          /\ asked \subseteq Refs /\ lost \subseteq Refs
          /\ overlapped \in BOOLEAN

Init == /\ Chain!Init
        /\ orders = [r \in Refs |-> NoOrder]
        /\ depositedSol = 0
        /\ handlers = [h \in Handlers |-> Idle]
        /\ orphans = {}
        /\ restarts = 0
        /\ funded = 0 /\ asked = {} /\ lost = {} /\ overlapped = FALSE

-----------------------------------------------------------------------------
(* Requests: from the body to the await.                                   *)

Send(h, op, ref, seller, amount, deadline) ==
    /\ handlers[h] = Idle
    /\ handlers' = [handlers EXCEPT ![h] =
           [op |-> op, reference |-> ref, seller |-> seller, amount |-> amount,
            deadline |-> deadline, landed |-> FALSE]]
    /\ UNCHANGED <<chain, orders, depositedSol, orphans, restarts>>

InFlight(op) == {h \in Handlers : handlers[h] # Idle /\ handlers[h].op = op}

MutPerDeposit(amountSol) == amountSol =< MAX_SOL

WithinCap(amountSol) == depositedSol + amountSol =< MAX_SOL

\* What the handler checks before it signs a deposit; depositEscrow repeats
\* the conditions on the amount and the shortest deadline.
MayDeposit(ref, seller, amountSol, secs) ==
    /\ seller = SELLER
    /\ amountSol > 0
    /\ WithinCap(amountSol)
    /\ secs \in MinSecs..MaxSecs
    /\ orders[ref] = NoOrder

\* Sellers make a new reference for each order, so clients never ask to fund
\* one twice.
Deposit(h, ref, seller, amountSol, secs) ==
    /\ ref \notin asked
    /\ MayDeposit(ref, seller, amountSol, secs)
    /\ Send(h, "deposit", ref, seller, amountSol, now + secs)
    /\ asked' = asked \cup {ref}
    /\ overlapped' = (overlapped \/ InFlight("deposit") # {} \/ lost # {})
    /\ UNCHANGED <<funded, lost>>

Release(h, ref, seller) ==
    /\ orders[ref] # NoOrder
    /\ seller = orders[ref].seller
    /\ Send(h, "release", ref, seller, 0, 0)
    /\ UNCHANGED history

Refund(h, ref) ==
    /\ orders[ref] # NoOrder
    /\ Send(h, "refund", ref, Buyer, 0, 0)
    /\ UNCHANGED history

-----------------------------------------------------------------------------
(* The cluster executes a transaction, or never will.                      *)

Executes(tx) ==
    /\ \/ /\ tx.op = "deposit"
          /\ Chain!Initialize(Buyer, tx.seller, tx.reference, tx.amount, tx.deadline)
       \/ /\ tx.op = "release"
          /\ Chain!Release(Buyer, tx.seller, Key(tx.reference))
       \/ /\ tx.op = "refund"
          /\ Chain!Refund(Buyer, Key(tx.reference))
    /\ funded' = IF tx.op = "deposit" THEN funded + tx.amount ELSE funded

Land(h) ==
    /\ handlers[h] # Idle /\ ~handlers[h].landed
    /\ Executes(handlers[h])
    /\ handlers' = [handlers EXCEPT ![h].landed = TRUE]
    /\ UNCHANGED <<orders, depositedSol, orphans, restarts, asked, lost, overlapped>>

LandOrphan(tx) ==
    /\ Executes(tx)
    /\ orphans' = orphans \ {tx}
    /\ UNCHANGED <<server, restarts, asked, lost, overlapped>>

DropOrphan(tx) ==
    /\ orphans' = orphans \ {tx}
    /\ UNCHANGED <<chain, server, restarts, history>>

-----------------------------------------------------------------------------
(* The handler resumes.                                                    *)

MutForgotten(tx) == NoOrder

\* After the await, a deposit is remembered and a settled order is forgotten.
Remembered(tx) ==
    IF tx.op = "deposit" THEN [seller |-> tx.seller, amountSol |-> tx.amount] ELSE NoOrder

Counted(tx) == IF tx.op = "deposit" THEN depositedSol + tx.amount ELSE depositedSol

Confirm(h) ==
    /\ handlers[h] # Idle /\ handlers[h].landed
    /\ orders' = [orders EXCEPT ![handlers[h].reference] = Remembered(handlers[h])]
    /\ depositedSol' = Counted(handlers[h])
    /\ handlers' = [handlers EXCEPT ![h] = Idle]
    /\ UNCHANGED <<chain, orphans, restarts, history>>

\* The transaction was refused or its blockhash expired: the handler throws
\* and answers 400.
Fail(h) ==
    /\ handlers[h] # Idle /\ ~handlers[h].landed
    /\ handlers' = [handlers EXCEPT ![h] = Idle]
    /\ UNCHANGED <<chain, orders, depositedSol, orphans, restarts, history>>

\* The same exception and the same 400, but the transaction executed or is
\* still on its way.
LoseConfirmation(h) ==
    LET tx == handlers[h] IN
    /\ MayLose
    /\ tx # Idle
    /\ handlers' = [handlers EXCEPT ![h] = Idle]
    /\ orphans' = IF tx.landed THEN orphans ELSE orphans \cup {tx}
    /\ lost' = IF tx.op = "deposit" THEN lost \cup {tx.reference} ELSE lost
    /\ UNCHANGED <<chain, orders, depositedSol, restarts, funded, asked, overlapped>>

\* The process dies and comes back with nothing in memory.
Restart ==
    LET busy == {handlers[h] : h \in Handlers} \ {Idle} IN
    /\ restarts < MaxRestarts
    /\ restarts' = restarts + 1
    /\ orders' = [r \in Refs |-> NoOrder]
    /\ depositedSol' = 0
    /\ handlers' = [h \in Handlers |-> Idle]
    /\ orphans' = orphans \cup {tx \in busy : ~tx.landed}
    /\ lost' = lost \cup {tx.reference : tx \in {t \in busy : t.op = "deposit"}}
                  \cup {r \in Refs : orders[r] # NoOrder}
    /\ UNCHANGED <<chain, funded, asked, overlapped>>

Tick == /\ Chain!Tick
        /\ UNCHANGED <<server, orphans, restarts, history>>

Next ==
    \/ \E h \in Handlers, ref \in Refs :
          \/ \E seller \in Wallets :
                \/ \E amountSol \in AskedAmounts, secs \in AskedSecs : Deposit(h, ref, seller, amountSol, secs)
                \/ Release(h, ref, seller)
          \/ Refund(h, ref)
    \/ \E h \in Handlers : Land(h) \/ Confirm(h) \/ Fail(h) \/ LoseConfirmation(h)
    \/ \E tx \in orphans : LandOrphan(tx) \/ DropOrphan(tx)
    \/ Restart
    \/ Tick

Spec == Init /\ [][Next]_vars

-----------------------------------------------------------------------------
(* Properties *)

Funded(ref) == escrows[Key(ref)] # NoEscrow

\* However its requests interleave, the signer never counts more than one cap
\* per request that can be in flight: the check before the await can be passed
\* by every one of them, and no further.  It counts nothing that was not
\* funded, and served one deposit at a time, with every confirmation received
\* and no restart, it never funds more than its cap.
OvershootIsBounded ==
    /\ TypeOK
    /\ depositedSol =< Cardinality(Handlers) * MAX_SOL
    /\ depositedSol =< funded
    /\ ~overlapped /\ lost = {} /\ restarts = 0 => funded =< MAX_SOL

\* Money is out of the signer's reach only by a lost confirmation or a
\* restart: any other open escrow is recorded, or a handler that has just
\* funded it is about to record it.
StrandedOnlyByLoss ==
    \A ref \in Refs :
        Funded(ref) /\ ref \notin lost =>
            \/ orders[ref] # NoOrder
            \/ \E h \in InFlight("deposit") : handlers[h].landed /\ handlers[h].reference = ref
=============================================================================
