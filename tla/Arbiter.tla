------------------------------ MODULE Arbiter ------------------------------
(***************************************************************************)
(* The arbiter program (programs/arbiter/src/lib.rs), SOL half: it wraps   *)
(* the escrow program (Escrow) with the vault-as-buyer pattern.  The buyer *)
(* of an arbitrated escrow is a vault PDA that only this program can sign  *)
(* for, and it does so for the configured arbiter alone.                   *)
(*                                                                         *)
(* An instruction here moves lamports itself and calls the escrow program  *)
(* in between; Escrow's operators apply to the balances of that moment,    *)
(* and the whole is one transaction.                                       *)
(***************************************************************************)
EXTENDS Integers

CONSTANTS
    Parties,          \* key pairs: payers, sellers and arbiters
    VaultOf,          \* reference -> the address of its vault
    Refs, NoEscrow, Rent, MinBalance, U64Max, Amounts, Deadlines, Gifts, MaxTime,
    InitialLamports,  \* party -> lamports at the start
    Nobody            \* no arbiter is configured, or no party acts

Vaults == {VaultOf[r] : r \in Refs}

VARIABLES
    now, lamports, escrows,  \* the cluster (Escrow)
    config,                  \* the arbiter, or Nobody
    \* History, read by the properties only.
    signer                   \* who signed the last transaction

vars == <<now, lamports, escrows, config, signer>>

Esc == INSTANCE Escrow WITH
    Wallets <- Parties \cup Vaults,
    InitialLamports <- [w \in Parties \cup Vaults |->
                           IF w \in Parties THEN InitialLamports[w] ELSE 0]

Key(ref) == <<VaultOf[ref], ref>>
IsOpen(ref) == escrows[Key(ref)] # NoEscrow

\* The escrow program's own assumptions, of parties and vaults.
ASSUME EscrowAssumption ==
    /\ Esc!KeysAreNotWallets /\ Esc!RentAssumption /\ Esc!InputAssumption
    /\ Esc!InitialAssumption /\ Esc!FiniteAssumption /\ Esc!SupplyAssumption
    /\ Esc!NoEscrowAssumption
\* A vault is derived from its reference alone and nobody has its key.
ASSUME VaultAssumption ==
    /\ Parties \cap Vaults = {}
    /\ \A r1, r2 \in Refs : VaultOf[r1] = VaultOf[r2] => r1 = r2
    /\ (Parties \cup Vaults) \cap ((Parties \cup Vaults) \X Refs) = {}
ASSUME ArbiterAssumption ==
    /\ Rent \in Nat /\ Amounts \subseteq Nat /\ Gifts \subseteq Nat /\ Deadlines \subseteq Int
    /\ InitialLamports \in [Parties -> Nat]
    /\ Nobody \notin Parties

TypeOK == /\ Esc!TypeOK
          /\ config \in Parties \cup {Nobody}
          /\ signer \in Parties \cup {Nobody}

Init == /\ Esc!Init
        /\ config = Nobody
        /\ signer = Nobody

-----------------------------------------------------------------------------
MutNoArbiterCheck(arbiter) == config # Nobody

IsArbiter(arbiter) == config # Nobody /\ arbiter = config

\* `init` runs once.
InitConfig(admin, arbiter) ==
    /\ config = Nobody
    /\ config' = arbiter
    /\ signer' = admin
    /\ UNCHANGED <<now, lamports, escrows>>

MutWithoutRent(amount) == amount

\* What the payer moves into the vault for the escrow to cost it nothing.
Fund(amount) == amount + Rent

OpenOrder(payer, seller, ref, amount, deadline) ==
    LET vault == VaultOf[ref]
        funded == Esc!Move(lamports, payer, vault, Fund(amount))
    IN
    /\ lamports[payer] >= Fund(amount)
    /\ Esc!CanInitialize(funded, Key(ref), amount, deadline)
    /\ lamports' = Esc!Deposited(funded, Key(ref), amount)
    /\ Esc!RentExempt(lamports')
    /\ escrows' = [escrows EXCEPT ![Key(ref)] =
           [buyer |-> vault, seller |-> seller, amount |-> amount,
            reference |-> ref, deadline |-> deadline]]
    /\ signer' = payer
    /\ UNCHANGED <<now, config>>

MayRelease(arbiter, seller, ref) ==
    IsArbiter(arbiter) /\ Esc!Releasable(VaultOf[ref], seller, Key(ref))

\* The rest of the escrow's lamports, its rent, stays in the vault.
ArbitrateRelease(arbiter, seller, ref) ==
    /\ MayRelease(arbiter, seller, ref)
    /\ Esc!Release(VaultOf[ref], seller, Key(ref))
    /\ signer' = arbiter
    /\ UNCHANGED config

\* All that is in the vault goes to the payer the arbiter names.
Swept(l, ref) == l[VaultOf[ref]]

GivenBack(payer, ref) ==
    LET refunded == Esc!Refunded(lamports, Key(ref), escrows[Key(ref)])
    IN Esc!Move(refunded, VaultOf[ref], payer, Swept(refunded, ref))

MayRefund(arbiter, payer, ref) ==
    /\ IsArbiter(arbiter)
    /\ Esc!CanRefund(Key(ref), VaultOf[ref])
    /\ Esc!RentExempt(GivenBack(payer, ref))

ArbitrateRefund(arbiter, payer, ref) ==
    /\ MayRefund(arbiter, payer, ref)
    /\ lamports' = GivenBack(payer, ref)
    /\ escrows' = [escrows EXCEPT ![Key(ref)] = NoEscrow]
    /\ signer' = arbiter
    /\ UNCHANGED <<now, config>>

\* The parties may call the escrow program themselves, for a vault's escrow
\* too, but none of them can sign as a vault.
Directly(p) ==
    /\ \E k \in Esc!Keys :
          \/ \E seller \in Parties : Esc!Release(p, seller, k)
          \/ Esc!Refund(p, k)
    /\ signer' = p
    /\ UNCHANGED config

\* They may also send lamports to any address, and open escrows of their own.
OnTheirOwn(p) ==
    /\ \/ \E seller \in Parties, ref \in Refs, amount \in Amounts, deadline \in Deadlines :
             Esc!Initialize(p, seller, ref, amount, deadline)
       \/ \E to \in Esc!Addresses, x \in Gifts : Esc!SystemTransfer(p, to, x)
    /\ signer' = p
    /\ UNCHANGED config

Tick == /\ Esc!Tick
        /\ signer' = Nobody
        /\ UNCHANGED config

Next ==
    \/ \E admin, arbiter \in Parties : InitConfig(admin, arbiter)
    \/ \E payer, seller \in Parties, ref \in Refs, amount \in Amounts, deadline \in Deadlines :
          OpenOrder(payer, seller, ref, amount, deadline)
    \/ \E arbiter, p \in Parties, ref \in Refs :
          \/ ArbitrateRelease(arbiter, p, ref)
          \/ ArbitrateRefund(arbiter, p, ref)
    \/ \E p \in Parties : Directly(p) \/ OnTheirOwn(p)
    \/ Tick

Spec == Init /\ [][Next]_vars

-----------------------------------------------------------------------------
(* Properties *)

\* Only the arbiter ends an arbitrated order; whoever paid for it, and
\* whoever calls the escrow program directly, has no power over it.
OnlyTheArbiterSettles ==
    [][\A ref \in Refs : IsOpen(ref) /\ ~IsOpen(ref)' => signer' = config /\ config' = config]_vars

\* The arbiter's power is bounded as well: it can end an order only by paying
\* its seller the exact amount, with the account's deposit and whatever was
\* sent to it left in the vault, or, from the deadline on, by giving one party
\* all that the vault and the escrow hold together.  And an order pays for its
\* own accounts: what a vault holds from elsewhere, gifts and the rents of
\* orders released before, leaves it only when an order is settled and is never
\* spent on opening the next one.
OrdersAreSettledInFull ==
    [][\A ref \in Refs :
          LET e == escrows[Key(ref)]
              vault == VaultOf[ref]
              all == lamports[vault] + lamports[Key(ref)]
              ends == IsOpen(ref) /\ ~IsOpen(ref)'
          IN
          /\ lamports'[vault] < lamports[vault] => ends
          /\ ends =>
              \/ /\ lamports'[e.seller] = lamports[e.seller] + e.amount
                 /\ lamports'[vault] = all - e.amount
              \/ /\ now >= e.deadline
                 /\ lamports'[vault] = 0
                 /\ \E p \in Parties : lamports'[p] = lamports[p] + all]_vars

\* An order never outlives its arbiter's reach: from the deadline on the
\* arbiter can refund it, to any party, and until then release it (unless the
\* seller's account would be left below the rent-exempt minimum).
ArbiterCanSettle ==
    TypeOK /\ (config # Nobody =>
        \A ref \in {r \in Refs : IsOpen(r)} :
          LET e == escrows[Key(ref)] IN
          /\ lamports[e.seller] + e.amount >= MinBalance => MayRelease(config, e.seller, ref)
          /\ now >= e.deadline => \A payer \in Parties : MayRefund(config, payer, ref))
=============================================================================
