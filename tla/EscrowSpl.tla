----------------------------- MODULE EscrowSpl -----------------------------
(***************************************************************************)
(* The SPL half of the escrow program (programs/escrow/src/lib.rs):        *)
(* initialize_spl, release_spl and refund_spl over token balances.         *)
(*                                                                         *)
(* An associated token account (ATA) is the pair <<owner, mint>>.  The     *)
(* deposit of an order lives in the ATA of its escrow PDA, its vault,      *)
(* which is opened with the escrow and closed with it.  The lamports paid  *)
(* for accounts are left out: Escrow accounts for those.                   *)
(***************************************************************************)
EXTENDS Integers

CONSTANTS
    Wallets, Refs, Mints,
    NoEscrow,       \* an address that holds no EscrowSpl account
    NoAccount,      \* an ATA that does not exist
    InitialTokens,  \* ATA of a wallet -> its balance at the start, or NoAccount
    Amounts,        \* amounts passed to initialize_spl
    Deadlines,      \* deadlines passed to initialize_spl
    Gifts,          \* amounts of plain token transfers
    MaxTime         \* bound of the clock

Keys == Wallets \X Refs
Owners == Wallets \cup Keys
Atas == Owners \X Mints

VARIABLES now,
          tokens,  \* ATA -> balance, or NoAccount
          escrows  \* key -> the EscrowSpl account there, or NoEscrow

vars == <<now, tokens, escrows>>

EscrowAccounts == [buyer : Wallets, seller : Wallets, mint : Mints, amount : Nat \ {0},
                   reference : Refs, deadline : Int]

\* What the account says of its deal, in terms of ATAs.
Deals == [buyer : Wallets \X Mints, seller : Wallets \X Mints, amount : Nat \ {0}, deadline : Int]

ASSUME SplAssumption ==
    /\ Wallets \cap Keys = {}
    /\ Amounts \subseteq Nat /\ Gifts \subseteq Nat /\ Deadlines \subseteq Int /\ MaxTime \in Nat
    /\ InitialTokens \in [Wallets \X Mints -> Nat \cup {NoAccount}]
    /\ NoAccount \notin Nat /\ NoEscrow \notin EscrowAccounts /\ NoEscrow \notin Deals

Open == {k \in Keys : escrows[k] # NoEscrow}
Exists(ata) == tokens[ata] # NoAccount

\* The vault of an open escrow.
Vault(k) == <<k, escrows[k].mint>>

TypeOK == /\ now \in 0..MaxTime
          /\ tokens \in [Atas -> Nat \cup {NoAccount}]
          /\ escrows \in [Keys -> EscrowAccounts \cup {NoEscrow}]

Init == /\ now = 0
        /\ tokens = [a \in Atas |-> IF a[1] \in Wallets THEN InitialTokens[a] ELSE NoAccount]
        /\ escrows = [k \in Keys |-> NoEscrow]

-----------------------------------------------------------------------------
(* The token program.                                                      *)

Create(t, ata) == IF t[ata] = NoAccount THEN [t EXCEPT ![ata] = 0] ELSE t

CanTransfer(t, from, to, x) ==
    /\ t[from] # NoAccount /\ t[to] # NoAccount
    /\ t[from] >= x

Transferred(t, from, to, x) ==
    [a \in Atas |-> IF a \notin {from, to} THEN t[a]
                    ELSE (t[a] - (IF a = from THEN x ELSE 0)) + (IF a = to THEN x ELSE 0)]

\* close_account fails while the account holds tokens.
CanClose(t, ata) == t[ata] = 0
ClosedAta(t, ata) == [t EXCEPT ![ata] = NoAccount]

-----------------------------------------------------------------------------

ValidTerms(amount, deadline) == amount > 0 /\ deadline > now

\* `init` creates the escrow and its vault, and fails when either exists.
InitializeSpl(buyer, seller, mint, ref, amount, deadline) ==
    LET k == <<buyer, ref>>
        from == <<buyer, mint>>
        vault == <<k, mint>>
        t == Create(tokens, vault)
    IN
    /\ ValidTerms(amount, deadline)
    /\ escrows[k] = NoEscrow
    /\ Exists(from) /\ ~Exists(vault)
    /\ CanTransfer(t, from, vault, amount)
    /\ tokens' = Transferred(t, from, vault, amount)
    /\ escrows' = [escrows EXCEPT ![k] =
           [buyer |-> buyer, seller |-> seller, mint |-> mint, amount |-> amount,
            reference |-> ref, deadline |-> deadline]]
    /\ UNCHANGED now

\* `close = buyer`.
Closed(k) == [escrows EXCEPT ![k] = NoEscrow]

\* The amount can leave the vault, and the vault be closed after it.
Settleable(k, t, vault, to) ==
    /\ CanTransfer(t, vault, to, escrows[k].amount)
    /\ CanClose(Transferred(t, vault, to, escrows[k].amount), vault)

MutKeepsVault(k, t, vault, to) ==
    /\ tokens' = Transferred(t, vault, to, escrows[k].amount)
    /\ escrows' = Closed(k)
    /\ UNCHANGED now

\* The amount moves from the vault to `to`, and the vault and the escrow are
\* closed; when one of these fails, nothing changes.
Settle(k, t, vault, to) ==
    /\ tokens' = ClosedAta(Transferred(t, vault, to, escrows[k].amount), vault)
    /\ escrows' = Closed(k)
    /\ UNCHANGED now

MutAnyMint(e, mint) == TRUE

HasOneMint(e, mint) == e.mint = mint

MutNoInit(ata) == tokens

\* The seller's ATA is created if it is missing (init_if_needed) ...
WithSellerAta(ata) == Create(tokens, ata)

ReleasableSpl(buyer, seller, mint, k) ==
    LET e == escrows[k] IN
    /\ e # NoEscrow
    /\ k = <<buyer, e.reference>>
    /\ e.buyer = buyer /\ e.seller = seller
    /\ HasOneMint(e, mint)
    /\ Settleable(k, WithSellerAta(<<seller, mint>>), <<k, mint>>, <<seller, mint>>)

ReleaseSpl(buyer, seller, mint, k) ==
    /\ ReleasableSpl(buyer, seller, mint, k)
    /\ Settle(k, WithSellerAta(<<seller, mint>>), <<k, mint>>, <<seller, mint>>)

\* ... and the buyer's is not.
RefundableSpl(buyer, mint, k) ==
    LET e == escrows[k] IN
    /\ e # NoEscrow
    /\ now >= e.deadline
    /\ k = <<buyer, e.reference>>
    /\ e.buyer = buyer
    /\ HasOneMint(e, mint)
    /\ Settleable(k, tokens, <<k, mint>>, <<buyer, mint>>)

RefundSpl(buyer, mint, k) ==
    /\ RefundableSpl(buyer, mint, k)
    /\ Settle(k, tokens, <<k, mint>>, <<buyer, mint>>)

\* What anybody may do beside the program: create any owner's ATA, a vault's
\* too, and send it tokens; and close an ATA of one's own that is empty.
CreateAta(ata) ==
    /\ ~Exists(ata)
    /\ tokens' = Create(tokens, ata)
    /\ UNCHANGED <<now, escrows>>

TokenTransfer(from, to, x) ==
    /\ from # to
    /\ CanTransfer(tokens, from, to, x)
    /\ tokens' = Transferred(tokens, from, to, x)
    /\ UNCHANGED <<now, escrows>>

CloseAta(ata) ==
    /\ Exists(ata) /\ CanClose(tokens, ata)
    /\ tokens' = ClosedAta(tokens, ata)
    /\ UNCHANGED <<now, escrows>>

Tick == /\ now < MaxTime
        /\ now' = now + 1
        /\ UNCHANGED <<tokens, escrows>>

Next ==
    \/ \E buyer, seller \in Wallets, mint \in Mints, ref \in Refs :
          \/ \E amount \in Amounts, deadline \in Deadlines :
                InitializeSpl(buyer, seller, mint, ref, amount, deadline)
          \/ ReleaseSpl(buyer, seller, mint, <<buyer, ref>>)
    \/ \E buyer \in Wallets, mint \in Mints, k \in Keys : RefundSpl(buyer, mint, k)
    \/ \E ata \in Atas : CreateAta(ata)
    \/ \E owner \in Wallets, mint \in Mints :
          \/ \E to \in Owners, x \in Gifts : TokenTransfer(<<owner, mint>>, <<to, mint>>, x)
          \/ CloseAta(<<owner, mint>>)
    \/ Tick

Spec == Init /\ [][Next]_vars

-----------------------------------------------------------------------------
(* Properties *)

\* Every open escrow has its vault, with the deposit in it, whoever creates
\* accounts or sends tokens and in whatever order.
VaultsAreFunded == \A k \in Open : Exists(Vault(k)) /\ tokens[Vault(k)] >= escrows[k].amount

Balance(t, ata) == IF t[ata] # NoAccount THEN t[ata] ELSE 0

\* An escrow never ends with something left in its vault, which nobody could
\* reach any more: the vault is gone with it, and all it held, also what was
\* sent to it while the escrow was open, is with the buyer or the seller.
VaultsAreEmptiedInFull ==
    [][\A k \in Open : escrows'[k] = NoEscrow =>
          LET vault == Vault(k)
              e == escrows[k]
          IN
          /\ tokens'[vault] = NoAccount
          /\ \E w \in {e.buyer, e.seller} :
                LET ata == <<w, e.mint>> IN
                Balance(tokens', ata) = Balance(tokens, ata) + tokens[vault]]_vars

\* Every open escrow has its funded vault, and if that holds the deposit
\* exactly the escrow can always be released by its buyer, whether or not the
\* seller ever held the mint, and from the deadline on be refunded to a buyer
\* that has kept its ATA.
SettleableWhenExact ==
    TypeOK /\ VaultsAreFunded /\ \A k \in Open :
      LET e == escrows[k] IN
      tokens[Vault(k)] = e.amount =>
        /\ ReleasableSpl(e.buyer, e.seller, e.mint, k)
        /\ now >= e.deadline /\ Exists(<<e.buyer, e.mint>>) => RefundableSpl(e.buyer, e.mint, k)

\* What an EscrowSpl account says of the deal it holds: the parties to it are
\* the ATAs of the buyer and the seller for its mint.
DealOf(e) ==
    IF e = NoEscrow THEN NoEscrow
    ELSE [buyer |-> <<e.buyer, e.mint>>, seller |-> <<e.seller, e.mint>>,
          amount |-> e.amount, deadline |-> e.deadline]

Promise == INSTANCE Settlement WITH
    Orders <- Keys,
    Parties <- Wallets \X Mints,
    NoDeal <- NoEscrow,
    deals <- [k \in Keys |-> DealOf(escrows[k])],
    purse <- [a \in Wallets \X Mints |-> Balance(tokens, a)]

\* The program keeps the abstract contract: a deal ends by paying its seller
\* the exact amount in the mint of the deal, or by returning it to its buyer
\* after the deadline, and no settlement moves any other balance.
KeepsPromise == Promise!Spec
=============================================================================
