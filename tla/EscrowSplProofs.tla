-------------------------- MODULE EscrowSplProofs --------------------------
(***************************************************************************)
(* What holds of the SPL escrow for every set of wallets, references,      *)
(* mints, amounts and balances: every open escrow has its funded vault, a  *)
(* settlement leaves nothing behind in it, nothing but tokens sent to a    *)
(* vault keeps an escrow from being settled, and each step keeps the       *)
(* promise of Settlement.                                                  *)
(***************************************************************************)
EXTENDS EscrowSpl, TLAPS

Tokens == [Atas -> Nat \cup {NoAccount}]
WalletAtas == Wallets \X Mints

\* No token account a key owns is closed or loses anything.
Kept(j) ==
    \A m \in Mints : tokens[<<j, m>>] # NoAccount =>
        tokens'[<<j, m>>] # NoAccount /\ tokens'[<<j, m>>] >= tokens[<<j, m>>]

\* The escrow at k is closed: what was in its vault, the amount, is with w.
Settles(k, w) ==
    LET e == escrows[k]
        to == <<w, e.mint>>
    IN
    /\ e \in EscrowAccounts /\ w \in Wallets
    /\ escrows' = [escrows EXCEPT ![k] = NoEscrow] /\ now' = now
    /\ tokens' \in Tokens
    /\ tokens[<<k, e.mint>>] = e.amount /\ tokens'[<<k, e.mint>>] = NoAccount
    /\ tokens'[to] = Balance(tokens, to) + e.amount
    /\ \A a \in Atas \ {<<k, e.mint>>, to} : tokens'[a] = tokens[a]

\* An escrow e is opened at k: the amount is in its vault and was its buyer's.
Opens(k, e) ==
    LET from == <<e.buyer, e.mint>> IN
    /\ e \in EscrowAccounts /\ escrows[k] = NoEscrow /\ e.deadline > now
    /\ k = <<e.buyer, e.reference>>
    /\ escrows' = [escrows EXCEPT ![k] = e] /\ now' = now
    /\ tokens' \in Tokens
    /\ tokens'[<<k, e.mint>>] = e.amount
    /\ tokens[from] \in Nat /\ tokens[from] >= e.amount /\ tokens'[from] = tokens[from] - e.amount
    /\ \A a \in Atas \ {<<k, e.mint>>, from} : tokens'[a] = tokens[a]

\* Accounts are created, closed and moved between, outside any escrow.
Trades == tokens' \in Tokens /\ UNCHANGED <<now, escrows>> /\ \A j \in Keys : Kept(j)

\* The address and the account agree on the buyer.
KeyedByItsBuyer == \A k \in Open : k = <<escrows[k].buyer, escrows[k].reference>>

IInv == TypeOK /\ VaultsAreFunded /\ KeyedByItsBuyer

-----------------------------------------------------------------------------
(* Token accounts.                                                         *)

LEMMA AtaLemma ==
    /\ \A o \in Owners, m \in Mints : <<o, m>> \in Atas
    /\ \A w \in Wallets : w \in Owners /\ w \notin Keys
    /\ \A k \in Keys : k \in Owners /\ k \notin Wallets
    /\ WalletAtas \subseteq Atas
  BY SplAssumption DEF Atas, Owners, WalletAtas

LEMMA TransferredLemma ==
    ASSUME NEW t \in Tokens, NEW from \in Atas, NEW to \in Atas, from # to, NEW x \in Nat,
           CanTransfer(t, from, to, x)
    PROVE  LET r == Transferred(t, from, to, x) IN
           /\ r \in Tokens /\ t[from] \in Nat /\ t[to] \in Nat
           /\ r[from] = t[from] - x /\ r[to] = t[to] + x
           /\ \A a \in Atas \ {from, to} : r[a] = t[a]
<1>1. t[from] \in Nat /\ t[to] \in Nat /\ t[from] >= x
  BY DEF CanTransfer, Tokens
<1>2. t[from] - x \in Nat /\ t[to] + x \in Nat
  BY <1>1
<1>3. PICK r : r = Transferred(t, from, to, x)
  OBVIOUS
<1>4. /\ r[from] = t[from] - x /\ r[to] = t[to] + x
      /\ \A a \in Atas \ {from, to} : r[a] = t[a]
      /\ r = [a \in Atas |-> r[a]]
  BY <1>1, <1>3 DEF Transferred
<1>5. \A a \in Atas : r[a] \in Nat \cup {NoAccount}
  BY <1>2, <1>4 DEF Tokens
<1>6. r \in Tokens
  BY <1>4, <1>5 DEF Tokens
<1>7. QED
  BY <1>1, <1>3, <1>4, <1>6

\* Creating a token account changes no balance.
LEMMA CreateLemma ==
    ASSUME NEW t \in Tokens, NEW ata \in Atas
    PROVE  LET r == Create(t, ata) IN
           /\ r \in Tokens /\ r[ata] \in Nat /\ r[ata] = Balance(t, ata)
           /\ \A a \in Atas \ {ata} : r[a] = t[a]
  BY SplAssumption DEF Create, Tokens, Balance

-----------------------------------------------------------------------------
(* What each action does.                                                  *)

LEMMA InitializeStep ==
    ASSUME TypeOK, NEW buyer \in Wallets, NEW seller \in Wallets, NEW mint \in Mints, NEW ref \in Refs,
           NEW amount \in Amounts, NEW deadline \in Deadlines,
           InitializeSpl(buyer, seller, mint, ref, amount, deadline)
    PROVE  \E k \in Keys, e \in EscrowAccounts : Opens(k, e)
<1>1. PICK k, from, vault : k = <<buyer, ref>> /\ from = <<buyer, mint>> /\ vault = <<k, mint>>
  OBVIOUS
<1>2. PICK e : e = [buyer |-> buyer, seller |-> seller, mint |-> mint, amount |-> amount,
                    reference |-> ref, deadline |-> deadline]
  OBVIOUS
<1>3. PICK t : t = Create(tokens, vault)
  OBVIOUS
<1>4. /\ amount > 0 /\ deadline > now /\ escrows[k] = NoEscrow /\ tokens[vault] = NoAccount
      /\ CanTransfer(t, from, vault, amount) /\ tokens' = Transferred(t, from, vault, amount)
      /\ escrows' = [escrows EXCEPT ![k] = e] /\ now' = now
  BY <1>1, <1>2, <1>3 DEF InitializeSpl, ValidTerms, Exists
<1>5. k \in Keys /\ from \in Atas /\ vault \in Atas /\ from # vault /\ amount \in Nat /\ deadline \in Int
      /\ tokens \in Tokens
  BY <1>1, AtaLemma, SplAssumption DEF Keys, TypeOK, Tokens
<1>6. e \in EscrowAccounts /\ e.buyer = buyer /\ e.mint = mint /\ e.amount = amount /\ e.deadline = deadline
      /\ e.reference = ref
  BY <1>2, <1>4, <1>5 DEF EscrowAccounts
<1>7. t \in Tokens /\ t[vault] = 0 /\ \A a \in Atas \ {vault} : t[a] = tokens[a]
  BY <1>3, <1>4, <1>5, CreateLemma DEF Balance
<1>8. /\ tokens' \in Tokens /\ t[from] \in Nat
      /\ tokens'[from] = t[from] - amount /\ tokens'[vault] = t[vault] + amount
      /\ \A a \in Atas \ {from, vault} : tokens'[a] = t[a]
  BY <1>4, <1>5, <1>7, TransferredLemma
<1>9. t[from] >= amount
  BY <1>4 DEF CanTransfer
<1>10. /\ tokens'[vault] = amount /\ tokens[from] \in Nat /\ tokens[from] >= amount
       /\ tokens'[from] = tokens[from] - amount
       /\ \A a \in Atas \ {vault, from} : tokens'[a] = tokens[a]
  BY <1>5, <1>7, <1>8, <1>9
<1>11. Opens(k, e)
  BY <1>1, <1>4, <1>6, <1>8, <1>10 DEF Opens
<1>12. QED
  BY <1>5, <1>6, <1>11

\* A vault that can be closed after the amount has left it held the amount.
LEMMA SettleStep ==
    ASSUME TypeOK, NEW k \in Keys, escrows[k] # NoEscrow, NEW w \in Wallets, NEW t \in Tokens,
           Settleable(k, t, <<k, escrows[k].mint>>, <<w, escrows[k].mint>>),
           Settle(k, t, <<k, escrows[k].mint>>, <<w, escrows[k].mint>>),
           t = tokens \/ t = Create(tokens, <<w, escrows[k].mint>>)
    PROVE  Settles(k, w)
<1>1. PICK e : e = escrows[k]
  OBVIOUS
<1>2. PICK vault, to : vault = <<k, e.mint>> /\ to = <<w, e.mint>>
  OBVIOUS
<1>3. e \in EscrowAccounts /\ e.mint \in Mints /\ e.amount \in Nat /\ tokens \in Tokens
  BY <1>1 DEF TypeOK, EscrowAccounts, Tokens
<1>4. vault \in Atas /\ to \in Atas /\ vault # to
  BY <1>2, <1>3, AtaLemma
<1>5. PICK paid : paid = Transferred(t, vault, to, e.amount)
  OBVIOUS
<1>6. /\ CanTransfer(t, vault, to, e.amount) /\ paid[vault] = 0
      /\ tokens' = [paid EXCEPT ![vault] = NoAccount] /\ escrows' = [escrows EXCEPT ![k] = NoEscrow] /\ now' = now
  BY <1>1, <1>2, <1>5 DEF Settleable, Settle, CanClose, ClosedAta, Closed
<1>7. /\ paid \in Tokens /\ t[vault] \in Nat /\ t[to] \in Nat
      /\ paid[vault] = t[vault] - e.amount /\ paid[to] = t[to] + e.amount
      /\ \A a \in Atas \ {vault, to} : paid[a] = t[a]
  BY <1>3, <1>4, <1>5, <1>6, TransferredLemma
<1>8. t[vault] = e.amount
  BY <1>3, <1>6, <1>7
<1>9. t[to] = Balance(tokens, to) /\ \A a \in Atas \ {to} : t[a] = tokens[a]
  <2>1. CASE t = tokens
    BY <2>1, <1>7, SplAssumption DEF Balance
  <2>2. CASE t = Create(tokens, to)
    BY <2>2, <1>3, <1>4, CreateLemma
  <2>3. QED
    BY <2>1, <2>2, <1>1, <1>2
<1>10. tokens' \in Tokens /\ tokens'[vault] = NoAccount /\ \A a \in Atas \ {vault} : tokens'[a] = paid[a]
  BY <1>4, <1>6, <1>7 DEF Tokens
<1>11. tokens[vault] = e.amount /\ tokens'[to] = Balance(tokens, to) + e.amount
       /\ \A a \in Atas \ {vault, to} : tokens'[a] = tokens[a]
  BY <1>4, <1>7, <1>8, <1>9, <1>10
<1>12. QED
  BY <1>1, <1>2, <1>3, <1>6, <1>10, <1>11 DEF Settles

LEMMA ReleaseStep ==
    ASSUME TypeOK, NEW buyer \in Wallets, NEW seller \in Wallets, NEW mint \in Mints, NEW k \in Keys,
           ReleaseSpl(buyer, seller, mint, k)
    PROVE  Settles(k, escrows[k].seller)
<1>1. /\ escrows[k] # NoEscrow /\ escrows[k].seller = seller /\ escrows[k].mint = mint
      /\ Settleable(k, Create(tokens, <<seller, mint>>), <<k, mint>>, <<seller, mint>>)
      /\ Settle(k, Create(tokens, <<seller, mint>>), <<k, mint>>, <<seller, mint>>)
  BY DEF ReleaseSpl, ReleasableSpl, HasOneMint, WithSellerAta
<1>2. Create(tokens, <<seller, mint>>) \in Tokens
  BY CreateLemma, AtaLemma DEF TypeOK, Tokens
<1>3. QED
  BY <1>1, <1>2, SettleStep

LEMMA RefundStep ==
    ASSUME TypeOK, NEW buyer \in Wallets, NEW mint \in Mints, NEW k \in Keys, RefundSpl(buyer, mint, k)
    PROVE  Settles(k, escrows[k].buyer) /\ now >= escrows[k].deadline
<1>1. /\ escrows[k] # NoEscrow /\ escrows[k].buyer = buyer /\ escrows[k].mint = mint /\ now >= escrows[k].deadline
      /\ Settleable(k, tokens, <<k, mint>>, <<buyer, mint>>)
      /\ Settle(k, tokens, <<k, mint>>, <<buyer, mint>>)
  BY DEF RefundSpl, RefundableSpl, HasOneMint
<1>2. tokens \in Tokens
  BY DEF TypeOK, Tokens
<1>3. QED
  BY <1>1, <1>2, SettleStep

\* Nobody but the program takes from an account a key owns.
LEMMA OutsideStep ==
    ASSUME TypeOK,
           \/ \E ata \in Atas : CreateAta(ata)
           \/ \E owner \in Wallets, mint \in Mints :
                 \/ \E to \in Owners, x \in Gifts : TokenTransfer(<<owner, mint>>, <<to, mint>>, x)
                 \/ CloseAta(<<owner, mint>>)
    PROVE  Trades
<1>1. tokens \in Tokens /\ \A j \in Keys, m \in Mints : <<j, m>> \in Atas
  BY AtaLemma DEF TypeOK, Tokens
<1>2. ASSUME NEW ata \in Atas, CreateAta(ata) PROVE Trades
  <2>1. /\ tokens[ata] = NoAccount /\ tokens' \in Tokens /\ UNCHANGED <<now, escrows>>
        /\ \A a \in Atas \ {ata} : tokens'[a] = tokens[a]
    BY <1>1, <1>2, CreateLemma DEF CreateAta, Exists
  <2>2. ASSUME NEW j \in Keys, NEW m \in Mints, tokens[<<j, m>>] # NoAccount
        PROVE  tokens'[<<j, m>>] # NoAccount /\ tokens'[<<j, m>>] >= tokens[<<j, m>>]
    <3>1. tokens[<<j, m>>] \in Nat /\ tokens'[<<j, m>>] = tokens[<<j, m>>]
      BY <1>1, <2>1, <2>2 DEF Tokens
    <3>2. QED
      BY <2>2, <3>1
  <2>3. QED
    BY <2>1, <2>2 DEF Trades, Kept
<1>3. ASSUME NEW owner \in Wallets, NEW mint \in Mints, NEW o \in Owners, NEW x \in Gifts,
             TokenTransfer(<<owner, mint>>, <<o, mint>>, x)
      PROVE  Trades
  <2>1. PICK from \in Atas, to \in Atas : from = <<owner, mint>> /\ to = <<o, mint>>
    BY AtaLemma
  <2>2. from # to /\ CanTransfer(tokens, from, to, x) /\ tokens' = Transferred(tokens, from, to, x)
        /\ UNCHANGED <<now, escrows>> /\ x \in Nat
    BY <1>3, <2>1, SplAssumption DEF TokenTransfer
  <2>3. /\ tokens' \in Tokens /\ tokens[to] \in Nat /\ tokens'[to] = tokens[to] + x
        /\ \A a \in Atas \ {from, to} : tokens'[a] = tokens[a]
    BY <1>1, <2>1, <2>2, TransferredLemma
  <2>4. ASSUME NEW j \in Keys, NEW m \in Mints, tokens[<<j, m>>] # NoAccount
        PROVE  tokens'[<<j, m>>] # NoAccount /\ tokens'[<<j, m>>] >= tokens[<<j, m>>]
    <3>1. PICK a \in Atas : a = <<j, m>>
      BY <1>1
    <3>2. a # from /\ tokens[a] \in Nat
      BY <1>1, <2>1, <2>4, <3>1, AtaLemma DEF Tokens
    <3>3. tokens'[a] \in Nat /\ tokens'[a] >= tokens[a]
      <4>1. CASE a = to
        BY <2>2, <2>3, <4>1
      <4>2. CASE a # to
        <5>1. tokens'[a] = tokens[a]
          BY <2>3, <3>2, <4>2
        <5>2. QED
          BY <3>2, <5>1
      <4>3. QED
        BY <4>1, <4>2
    <3>4. QED
      BY <3>1, <3>3, SplAssumption
  <2>5. QED
    BY <2>2, <2>3, <2>4 DEF Trades, Kept
<1>4. ASSUME NEW owner \in Wallets, NEW mint \in Mints, CloseAta(<<owner, mint>>) PROVE Trades
  <2>1. PICK ata \in Atas : ata = <<owner, mint>>
    BY AtaLemma
  <2>2. tokens' = [tokens EXCEPT ![ata] = NoAccount] /\ UNCHANGED <<now, escrows>>
    BY <1>4, <2>1 DEF CloseAta, ClosedAta
  <2>3. tokens' \in Tokens /\ \A a \in Atas \ {ata} : tokens'[a] = tokens[a]
    BY <1>1, <2>2 DEF Tokens
  <2>4. ASSUME NEW j \in Keys, NEW m \in Mints, tokens[<<j, m>>] # NoAccount
        PROVE  tokens'[<<j, m>>] # NoAccount /\ tokens'[<<j, m>>] >= tokens[<<j, m>>]
    <3>1. <<j, m>> # ata
      BY <2>1, AtaLemma
    <3>2. tokens[<<j, m>>] \in Nat /\ tokens'[<<j, m>>] = tokens[<<j, m>>]
      BY <1>1, <2>3, <2>4, <3>1 DEF Tokens
    <3>3. QED
      BY <2>4, <3>2
  <2>5. QED
    BY <2>2, <2>3, <2>4 DEF Trades, Kept
<1>5. QED
  BY <1>2, <1>3, <1>4

\* Every step opens an escrow, settles one, trades, or lets time pass.
LEMMA Steps ==
    ASSUME TypeOK, [Next]_vars
    PROVE  \/ \E k \in Keys, e \in EscrowAccounts : Opens(k, e)
           \/ \E k \in Keys : Settles(k, escrows[k].seller)
           \/ \E k \in Keys : Settles(k, escrows[k].buyer) /\ now >= escrows[k].deadline
           \/ Trades
           \/ Tick
           \/ UNCHANGED vars
<1>1. ASSUME NEW buyer \in Wallets, NEW seller \in Wallets, NEW mint \in Mints, NEW ref \in Refs,
             ReleaseSpl(buyer, seller, mint, <<buyer, ref>>)
      PROVE  \E k \in Keys : Settles(k, escrows[k].seller)
  <2>1. PICK k \in Keys : k = <<buyer, ref>>
    BY DEF Keys
  <2>2. QED
    BY <1>1, <2>1, ReleaseStep
<1>2. QED
  BY <1>1, InitializeStep, RefundStep, OutsideStep DEF Next

-----------------------------------------------------------------------------
(* The inductive invariant.                                                *)

LEMMA InitHolds == Init => IInv
<1>1. SUFFICES ASSUME Init PROVE IInv
  OBVIOUS
<1>2. \A a \in Atas : a[1] \in Wallets => a \in Wallets \X Mints
  BY DEF Atas
<1>3. tokens \in Tokens
  BY <1>1, <1>2, SplAssumption DEF Init, Tokens
<1>4. TypeOK
  BY <1>1, <1>3, SplAssumption DEF Init, TypeOK, Tokens
<1>5. VaultsAreFunded /\ KeyedByItsBuyer
  BY <1>1 DEF Init, VaultsAreFunded, KeyedByItsBuyer, Open
<1>6. QED
  BY <1>4, <1>5 DEF IInv

\* What keeps the vaults funded: an escrow is closed, opened with its amount
\* in the vault, or left alone with its accounts.
LEMMA FundedStays ==
    ASSUME IInv, TypeOK',
           \A j \in Keys : \/ escrows'[j] = NoEscrow
                           \/ escrows'[j] = escrows[j] /\ Kept(j)
                           \/ /\ tokens'[<<j, escrows'[j].mint>>] # NoAccount
                              /\ tokens'[<<j, escrows'[j].mint>>] >= escrows'[j].amount
    PROVE  VaultsAreFunded'
<1>1. SUFFICES ASSUME NEW j \in Keys, escrows'[j] # NoEscrow
               PROVE  /\ tokens'[<<j, escrows'[j].mint>>] # NoAccount
                      /\ tokens'[<<j, escrows'[j].mint>>] >= escrows'[j].amount
  BY DEF VaultsAreFunded, Open, Exists, Vault
<1>2. CASE escrows'[j] = escrows[j] /\ Kept(j)
  <2>1. PICK e : e = escrows[j]
    OBVIOUS
  <2>2. e \in EscrowAccounts /\ e.mint \in Mints /\ e.amount \in Nat
    BY <1>1, <1>2, <2>1 DEF IInv, TypeOK, EscrowAccounts
  <2>3. tokens[<<j, e.mint>>] # NoAccount /\ tokens[<<j, e.mint>>] >= e.amount
    BY <1>1, <1>2, <2>1 DEF IInv, VaultsAreFunded, Open, Exists, Vault
  <2>4. tokens'[<<j, e.mint>>] # NoAccount /\ tokens'[<<j, e.mint>>] >= tokens[<<j, e.mint>>]
    BY <1>2, <2>2, <2>3 DEF Kept
  <2>5. tokens[<<j, e.mint>>] \in Nat /\ tokens'[<<j, e.mint>>] \in Nat
    BY <2>2, <2>3, <2>4, AtaLemma DEF IInv, TypeOK
  <2>6. QED
    BY <1>2, <2>1, <2>2, <2>3, <2>4, <2>5
<1>3. QED
  BY <1>1, <1>2

\* Token accounts outside of some are kept when nothing else changed.
LEMMA KeptLemma ==
    ASSUME TypeOK, NEW j \in Keys, \A m \in Mints : tokens'[<<j, m>>] = tokens[<<j, m>>]
    PROVE  Kept(j)
<1>1. \A m \in Mints : tokens[<<j, m>>] \in Nat \cup {NoAccount}
  BY AtaLemma DEF TypeOK
<1>2. QED
  BY <1>1 DEF Kept

LEMMA OpensPreserves == ASSUME IInv, NEW k \in Keys, NEW e \in EscrowAccounts, Opens(k, e) PROVE IInv'
<1>1. /\ escrows' = [escrows EXCEPT ![k] = e] /\ now' = now /\ tokens' \in Tokens
      /\ tokens'[<<k, e.mint>>] = e.amount
      /\ \A a \in Atas \ {<<k, e.mint>>, <<e.buyer, e.mint>>} : tokens'[a] = tokens[a]
  BY DEF Opens
<1>2. escrows'[k] = e /\ \A j \in Keys \ {k} : escrows'[j] = escrows[j]
  BY <1>1 DEF IInv, TypeOK
<1>3. TypeOK'
  BY <1>1 DEF IInv, TypeOK, Tokens
<1>4. e.buyer \in Wallets /\ e.amount \in Nat
  BY DEF EscrowAccounts
<1>5. ASSUME NEW j \in Keys \ {k} PROVE Kept(j)
  <2>1. \A m \in Mints : <<j, m>> \in Atas \ {<<k, e.mint>>, <<e.buyer, e.mint>>}
    BY <1>4, AtaLemma
  <2>2. QED
    BY <1>1, <2>1, KeptLemma DEF IInv
<1>6. tokens'[<<k, e.mint>>] # NoAccount /\ tokens'[<<k, e.mint>>] >= e.amount
  BY <1>1, <1>4, SplAssumption
<1>7. KeyedByItsBuyer'
  BY <1>2 DEF IInv, KeyedByItsBuyer, Open, Opens
<1>8. QED
  BY <1>2, <1>3, <1>5, <1>6, <1>7, FundedStays DEF IInv

LEMMA SettlesPreserves == ASSUME IInv, NEW k \in Keys, NEW w, Settles(k, w) PROVE IInv'
<1>1. PICK e : e = escrows[k]
  OBVIOUS
<1>2. /\ w \in Wallets
      /\ escrows' = [escrows EXCEPT ![k] = NoEscrow] /\ now' = now /\ tokens' \in Tokens
      /\ \A a \in Atas \ {<<k, e.mint>>, <<w, e.mint>>} : tokens'[a] = tokens[a]
  BY <1>1 DEF Settles
<1>3. escrows'[k] = NoEscrow /\ \A j \in Keys \ {k} : escrows'[j] = escrows[j]
  BY <1>2 DEF IInv, TypeOK
<1>4. TypeOK'
  BY <1>2 DEF IInv, TypeOK, Tokens
<1>5. ASSUME NEW j \in Keys \ {k} PROVE Kept(j)
  <2>1. \A m \in Mints : <<j, m>> \in Atas \ {<<k, e.mint>>, <<w, e.mint>>}
    BY <1>2, AtaLemma
  <2>2. QED
    BY <1>2, <2>1, KeptLemma DEF IInv
<1>6. KeyedByItsBuyer'
  BY <1>3 DEF IInv, KeyedByItsBuyer, Open
<1>7. QED
  BY <1>3, <1>4, <1>5, <1>6, FundedStays DEF IInv

LEMMA TradesPreserves == ASSUME IInv, Trades PROVE IInv'
<1>1. TypeOK'
  BY DEF Trades, IInv, TypeOK, Tokens
<1>2. KeyedByItsBuyer'
  BY DEF Trades, IInv, KeyedByItsBuyer, Open
<1>3. QED
  BY <1>1, <1>2, FundedStays DEF Trades, IInv

LEMMA NextPreserves == IInv /\ [Next]_vars => IInv'
<1>1. SUFFICES ASSUME IInv, [Next]_vars PROVE IInv'
  OBVIOUS
<1>2. CASE Tick \/ UNCHANGED vars
  <2>1. UNCHANGED <<tokens, escrows>> /\ TypeOK'
    BY <1>1, <1>2, SplAssumption DEF Tick, vars, IInv, TypeOK
  <2>2. QED
    BY <1>1, <2>1 DEF IInv, VaultsAreFunded, KeyedByItsBuyer, Open, Exists, Vault
<1>3. QED
  BY <1>1, <1>2, Steps, OpensPreserves, SettlesPreserves, TradesPreserves DEF IInv

THEOREM Invariance == Spec => []IInv
  BY InitHolds, NextPreserves, PTL DEF Spec

\* The clock, the token accounts and the escrow accounts keep their types.
THEOREM TypeCorrect == Spec => []TypeOK
<1>1. IInv => TypeOK
  BY DEF IInv
<1>2. QED
  BY <1>1, Invariance, PTL

\* Every open escrow has its vault, with at least the amount in it.
THEOREM DepositsAreThere == Spec => []VaultsAreFunded
<1>1. IInv => VaultsAreFunded
  BY DEF IInv
<1>2. QED
  BY <1>1, Invariance, PTL

\* The amount can be paid out of a vault that holds just that to an ATA that
\* exists, and the vault is empty after it.
LEMMA SettleableLemma ==
    ASSUME NEW k \in Keys, escrows[k] \in EscrowAccounts, NEW w \in Wallets, NEW t \in Tokens,
           t[<<k, escrows[k].mint>>] = escrows[k].amount,
           t[<<w, escrows[k].mint>>] # NoAccount
    PROVE  Settleable(k, t, <<k, escrows[k].mint>>, <<w, escrows[k].mint>>)
<1>1. PICK e, vault, to : e = escrows[k] /\ vault = <<k, e.mint>> /\ to = <<w, e.mint>>
  OBVIOUS
<1>2. e.mint \in Mints /\ e.amount \in Nat
  BY <1>1 DEF EscrowAccounts
<1>3. vault \in Atas /\ to \in Atas /\ vault # to
  BY <1>1, <1>2, AtaLemma
<1>4. CanTransfer(t, vault, to, e.amount)
  BY <1>1, <1>2, SplAssumption DEF CanTransfer
<1>5. Transferred(t, vault, to, e.amount)[vault] = t[vault] - e.amount
  BY <1>2, <1>3, <1>4, TransferredLemma
<1>6. t[vault] - e.amount = 0
  BY <1>1, <1>2
<1> QED
  BY <1>1, <1>4, <1>5, <1>6 DEF Settleable, CanClose

LEMMA ExactVaultsSettle == IInv => SettleableWhenExact
<1> SUFFICES ASSUME IInv, NEW k \in Open, tokens[Vault(k)] = escrows[k].amount
             PROVE  LET e == escrows[k] IN
                    /\ ReleasableSpl(e.buyer, e.seller, e.mint, k)
                    /\ now >= e.deadline /\ Exists(<<e.buyer, e.mint>>) => RefundableSpl(e.buyer, e.mint, k)
  BY DEF IInv, SettleableWhenExact
<1>1. PICK e : e = escrows[k]
  OBVIOUS
<1>2. /\ k \in Keys /\ e \in EscrowAccounts /\ e # NoEscrow /\ k = <<e.buyer, e.reference>>
      /\ tokens \in Tokens /\ tokens[<<k, e.mint>>] = e.amount
  BY <1>1 DEF IInv, TypeOK, Open, KeyedByItsBuyer, Tokens, Vault
<1>3. e.buyer \in Wallets /\ e.seller \in Wallets /\ e.mint \in Mints
  BY <1>2 DEF EscrowAccounts
<1>4. PICK t, to : to = <<e.seller, e.mint>> /\ t = Create(tokens, to)
  OBVIOUS
<1>5. to \in Atas /\ <<k, e.mint>> \in Atas /\ to # <<k, e.mint>>
  BY <1>2, <1>3, <1>4, AtaLemma
<1>6. t \in Tokens /\ t[<<k, e.mint>>] = e.amount /\ t[to] # NoAccount
  BY <1>2, <1>4, <1>5, CreateLemma, SplAssumption
<1>7. Settleable(k, t, <<k, e.mint>>, to)
  BY <1>1, <1>2, <1>3, <1>4, <1>6, SettleableLemma
<1>8. ReleasableSpl(e.buyer, e.seller, e.mint, k)
  BY <1>1, <1>2, <1>4, <1>7 DEF ReleasableSpl, HasOneMint, WithSellerAta
<1>9. ASSUME now >= e.deadline, Exists(<<e.buyer, e.mint>>) PROVE RefundableSpl(e.buyer, e.mint, k)
  <2>1. Settleable(k, tokens, <<k, e.mint>>, <<e.buyer, e.mint>>)
    BY <1>1, <1>2, <1>3, <1>9, SettleableLemma DEF Exists
  <2> QED
    BY <1>1, <1>2, <1>9, <2>1 DEF RefundableSpl, HasOneMint
<1> QED
  BY <1>1, <1>8, <1>9

\* An escrow whose vault holds just the amount can be released by its buyer,
\* and from the deadline on be refunded to a buyer that kept its ATA.
THEOREM ExactEscrowsSettle == Spec => []SettleableWhenExact
  BY Invariance, ExactVaultsSettle, PTL

-----------------------------------------------------------------------------
\* A settlement closes the vault, and all it held is with a party to the deal.
THEOREM NothingIsLeftBehind == Spec => VaultsAreEmptiedInFull
<1> DEFINE Emptied == \A k \in Open : escrows'[k] = NoEscrow =>
          LET vault == Vault(k)
              e == escrows[k]
          IN
          /\ tokens'[vault] = NoAccount
          /\ \E w \in {e.buyer, e.seller} :
                LET ata == <<w, e.mint>> IN
                Balance(tokens', ata) = Balance(tokens, ata) + tokens[vault]
<1>1. ASSUME IInv, NEW k \in Open, escrows'[k] = NoEscrow, NEW w \in {escrows[k].buyer, escrows[k].seller},
             Settles(k, w)
      PROVE  /\ tokens'[Vault(k)] = NoAccount
             /\ Balance(tokens', <<w, escrows[k].mint>>) = Balance(tokens, <<w, escrows[k].mint>>) + tokens[Vault(k)]
  <2>1. PICK e, to : e = escrows[k] /\ to = <<w, e.mint>>
    OBVIOUS
  <2>2. /\ e \in EscrowAccounts /\ w \in Wallets
        /\ tokens[<<k, e.mint>>] = e.amount /\ tokens'[<<k, e.mint>>] = NoAccount
        /\ tokens'[to] = Balance(tokens, to) + e.amount
    BY <1>1, <2>1 DEF Settles
  <2>3. e.amount \in Nat /\ to \in Atas
    BY <2>1, <2>2, AtaLemma DEF EscrowAccounts
  <2>4. Balance(tokens, to) \in Nat
    BY <1>1, <2>3 DEF IInv, TypeOK, Balance
  <2>5. tokens'[to] # NoAccount
    BY <2>2, <2>3, <2>4, SplAssumption
  <2>6. QED
    BY <2>1, <2>2, <2>5 DEF Vault, Balance
<1>2. IInv /\ [Next]_vars => [Emptied]_vars
  <2>1. SUFFICES ASSUME IInv, [Next]_vars, NEW k \in Open, escrows'[k] = NoEscrow
                 PROVE  /\ tokens'[Vault(k)] = NoAccount
                        /\ \E w \in {escrows[k].buyer, escrows[k].seller} :
                              Balance(tokens', <<w, escrows[k].mint>>)
                                  = Balance(tokens, <<w, escrows[k].mint>>) + tokens[Vault(k)]
    OBVIOUS
  <2>2. k \in Keys /\ escrows[k] # NoEscrow /\ escrows'[k] # escrows[k]
    BY <2>1 DEF Open
  <2>3. ASSUME NEW j \in Keys, NEW e \in EscrowAccounts, Opens(j, e) PROVE FALSE
    <3>1. escrows' = [escrows EXCEPT ![j] = e] /\ e # NoEscrow
      BY <2>3, SplAssumption DEF Opens
    <3>2. QED
      BY <2>1, <2>2, <3>1 DEF IInv, TypeOK
  <2>4. ASSUME NEW j \in Keys, NEW w, Settles(j, w) PROVE j = k
    <3>1. escrows' = [escrows EXCEPT ![j] = NoEscrow]
      BY <2>4 DEF Settles
    <3>2. QED
      BY <2>2, <3>1 DEF IInv, TypeOK
  <2>5. ~Trades /\ ~Tick /\ ~UNCHANGED vars
    BY <2>2 DEF Trades, Tick, vars
  <2>6. Settles(k, escrows[k].seller) \/ Settles(k, escrows[k].buyer)
    BY <2>1, <2>3, <2>4, <2>5, Steps DEF IInv
  <2>7. QED
    BY <1>1, <2>1, <2>6
<1>3. QED
  BY <1>2, Invariance, PTL DEF Spec, VaultsAreEmptiedInFull

-----------------------------------------------------------------------------
(* Refinement of Settlement.                                               *)

LEMMA DealLemma ==
    /\ DealOf(NoEscrow) = NoEscrow
    /\ \A e \in EscrowAccounts :
         /\ DealOf(e) \in Deals /\ DealOf(e) # NoEscrow
         /\ DealOf(e).buyer = <<e.buyer, e.mint>> /\ DealOf(e).seller = <<e.seller, e.mint>>
         /\ DealOf(e).amount = e.amount /\ DealOf(e).deadline = e.deadline
  BY SplAssumption DEF DealOf, Deals, EscrowAccounts

LEMMA BalanceLemma == TypeOK => \A a \in WalletAtas : Balance(tokens, a) \in Nat
  BY AtaLemma DEF TypeOK, Balance

LEMMA InitPromise == Init => Promise!Init
<1>1. SUFFICES ASSUME Init PROVE Promise!Init
  OBVIOUS
<1>2. TypeOK
  BY <1>1, InitHolds DEF IInv
<1>3. now \in Nat
  BY <1>1 DEF Init
<1>4. [k \in Keys |-> DealOf(escrows[k])] = [k \in Keys |-> NoEscrow]
  BY <1>1, DealLemma DEF Init
<1>5. [a \in Wallets \X Mints |-> Balance(tokens, a)] \in [Wallets \X Mints -> Nat]
  BY <1>2, BalanceLemma DEF WalletAtas
<1>6. QED
  BY <1>3, <1>4, <1>5 DEF Promise!Init

\* Opening an escrow funds a deal out of its buyer's ATA.
LEMMA OpensPromise ==
    ASSUME TypeOK, NEW k \in Keys, NEW e \in EscrowAccounts, Opens(k, e)
    PROVE  Promise!Fund(k)
<1> DEFINE deals == [j \in Keys |-> DealOf(escrows[j])]
           dealsAfter == [j \in Keys |-> DealOf(escrows'[j])]
           purse == [a \in Wallets \X Mints |-> Balance(tokens, a)]
           purseAfter == [a \in Wallets \X Mints |-> Balance(tokens', a)]
<1>1. PICK from : from = <<e.buyer, e.mint>>
  OBVIOUS
<1>2. /\ escrows[k] = NoEscrow /\ e.deadline > now /\ escrows' = [escrows EXCEPT ![k] = e] /\ now' = now
      /\ tokens[from] \in Nat /\ tokens[from] >= e.amount /\ tokens'[from] = tokens[from] - e.amount
      /\ \A a \in Atas \ {<<k, e.mint>>, from} : tokens'[a] = tokens[a]
  BY <1>1 DEF Opens
<1>3. from \in WalletAtas /\ e.amount \in Nat /\ \A a \in WalletAtas : a \in Atas /\ a # <<k, e.mint>>
  BY <1>1, AtaLemma DEF EscrowAccounts, WalletAtas
<1>4. tokens'[from] \in Nat
  BY <1>2, <1>3
<1>5. /\ Balance(tokens', from) = Balance(tokens, from) - e.amount
      /\ \A a \in WalletAtas \ {from} : Balance(tokens', a) = Balance(tokens, a)
  BY <1>2, <1>3, <1>4, SplAssumption DEF Balance
<1>6. deals[k] = NoEscrow
  BY <1>2, DealLemma
<1>7. dealsAfter[k] = DealOf(e) /\ dealsAfter = [deals EXCEPT ![k] = dealsAfter[k]]
  BY <1>2 DEF TypeOK
<1>8. dealsAfter[k] \in Promise!Deals /\ dealsAfter[k].buyer = from
      /\ dealsAfter[k].amount = e.amount /\ dealsAfter[k].deadline = e.deadline
  BY <1>1, <1>7, DealLemma DEF Promise!Deals, Deals
<1>9. Balance(tokens, from) \in Nat
  BY <1>3, BalanceLemma
<1>10. /\ purseAfter[from] =< purse[from] - e.amount
       /\ \A a \in WalletAtas \ {from} : purseAfter[a] = purse[a]
  BY <1>3, <1>5, <1>9 DEF WalletAtas
<1>11. QED
  BY <1>2, <1>6, <1>7, <1>8, <1>10 DEF Promise!Fund, Promise!OthersKeepTheirs, WalletAtas

\* Settling an escrow moves its amount to the ATA of w and no other.
LEMMA SettlesPurse ==
    ASSUME TypeOK, NEW k \in Keys, NEW w, Settles(k, w)
    PROVE  LET e == escrows[k]
               to == <<w, e.mint>>
           IN
           /\ e \in EscrowAccounts /\ e # NoEscrow /\ e.amount \in Nat /\ to \in WalletAtas
           /\ Balance(tokens, to) \in Nat /\ Balance(tokens', to) = Balance(tokens, to) + e.amount
           /\ \A a \in WalletAtas \ {to} : Balance(tokens', a) = Balance(tokens, a)
           /\ [j \in Keys |-> DealOf(escrows'[j])] = [[j \in Keys |-> DealOf(escrows[j])] EXCEPT ![k] = NoEscrow]
           /\ now' = now
<1>1. PICK e, to : e = escrows[k] /\ to = <<w, e.mint>>
  OBVIOUS
<1>2. /\ e \in EscrowAccounts /\ w \in Wallets
      /\ escrows' = [escrows EXCEPT ![k] = NoEscrow] /\ now' = now
      /\ tokens'[to] = Balance(tokens, to) + e.amount
      /\ \A a \in Atas \ {<<k, e.mint>>, to} : tokens'[a] = tokens[a]
  BY <1>1 DEF Settles
<1>3. to \in WalletAtas /\ e.amount \in Nat /\ e # NoEscrow
      /\ \A a \in WalletAtas : a \in Atas /\ a # <<k, e.mint>>
  BY <1>1, <1>2, AtaLemma, SplAssumption DEF EscrowAccounts, WalletAtas
<1>4. Balance(tokens, to) \in Nat
  BY <1>3, BalanceLemma
<1>5. tokens'[to] \in Nat
  BY <1>2, <1>3, <1>4
<1>6. /\ Balance(tokens', to) = Balance(tokens, to) + e.amount
      /\ \A a \in WalletAtas \ {to} : Balance(tokens', a) = Balance(tokens, a)
  BY <1>2, <1>3, <1>5, SplAssumption DEF Balance
<1>7. [j \in Keys |-> DealOf(escrows'[j])] = [[j \in Keys |-> DealOf(escrows[j])] EXCEPT ![k] = NoEscrow]
  BY <1>2, DealLemma DEF TypeOK
<1>8. QED
  BY <1>1, <1>2, <1>3, <1>4, <1>6, <1>7

LEMMA ReleasePromise ==
    ASSUME TypeOK, NEW k \in Keys, Settles(k, escrows[k].seller)
    PROVE  Promise!Pay(k)
<1> DEFINE deals == [j \in Keys |-> DealOf(escrows[j])]
           dealsAfter == [j \in Keys |-> DealOf(escrows'[j])]
           purse == [a \in Wallets \X Mints |-> Balance(tokens, a)]
           purseAfter == [a \in Wallets \X Mints |-> Balance(tokens', a)]
<1>1. PICK e, to, from : e = escrows[k] /\ to = <<e.seller, e.mint>> /\ from = <<e.buyer, e.mint>>
  OBVIOUS
<1>2. /\ e \in EscrowAccounts /\ e # NoEscrow /\ e.amount \in Nat /\ to \in WalletAtas
      /\ Balance(tokens, to) \in Nat /\ Balance(tokens', to) = Balance(tokens, to) + e.amount
      /\ \A a \in WalletAtas \ {to} : Balance(tokens', a) = Balance(tokens, a)
      /\ dealsAfter = [deals EXCEPT ![k] = NoEscrow] /\ now' = now
  BY <1>1, SettlesPurse
<1>3. from \in WalletAtas
  BY <1>1, <1>2 DEF EscrowAccounts, WalletAtas
<1>4. Balance(tokens, from) \in Nat
  BY <1>3, BalanceLemma
<1>5. deals[k] # NoEscrow /\ deals[k].buyer = from /\ deals[k].seller = to /\ deals[k].amount = e.amount
  BY <1>1, <1>2, DealLemma
<1>6. /\ purseAfter[to] = purse[to] + e.amount
      /\ from # to => purseAfter[from] >= purse[from]
      /\ from = to => purseAfter[from] >= purse[from] + e.amount
      /\ \A a \in WalletAtas \ {from, to} : purseAfter[a] = purse[a]
  BY <1>2, <1>3, <1>4 DEF WalletAtas
<1> HIDE DEF deals, dealsAfter, purse, purseAfter
<1>7. QED
  BY <1>2, <1>5, <1>6
  DEF Promise!Pay, Promise!OthersKeepTheirs, WalletAtas, deals, dealsAfter, purse, purseAfter

LEMMA RefundPromise ==
    ASSUME TypeOK, NEW k \in Keys, Settles(k, escrows[k].buyer), now >= escrows[k].deadline
    PROVE  Promise!Return(k)
<1> DEFINE deals == [j \in Keys |-> DealOf(escrows[j])]
           dealsAfter == [j \in Keys |-> DealOf(escrows'[j])]
           purse == [a \in Wallets \X Mints |-> Balance(tokens, a)]
           purseAfter == [a \in Wallets \X Mints |-> Balance(tokens', a)]
<1>1. PICK e, to : e = escrows[k] /\ to = <<e.buyer, e.mint>>
  OBVIOUS
<1>2. /\ e \in EscrowAccounts /\ e # NoEscrow /\ e.amount \in Nat /\ to \in WalletAtas
      /\ Balance(tokens, to) \in Nat /\ Balance(tokens', to) = Balance(tokens, to) + e.amount
      /\ \A a \in WalletAtas \ {to} : Balance(tokens', a) = Balance(tokens, a)
      /\ dealsAfter = [deals EXCEPT ![k] = NoEscrow] /\ now' = now
  BY <1>1, SettlesPurse
<1>3. deals[k] # NoEscrow /\ deals[k].buyer = to /\ deals[k].amount = e.amount /\ now >= deals[k].deadline
  BY <1>1, <1>2, DealLemma
<1>4. /\ purseAfter[to] >= purse[to] + e.amount
      /\ \A a \in WalletAtas \ {to} : purseAfter[a] = purse[a]
  BY <1>2 DEF WalletAtas
<1> HIDE DEF deals, dealsAfter, purse, purseAfter
<1>5. QED
  BY <1>2, <1>3, <1>4
  DEF Promise!Return, Promise!OthersKeepTheirs, WalletAtas, deals, dealsAfter, purse, purseAfter

LEMMA TradesPromise == ASSUME TypeOK, Trades PROVE Promise!Elsewhere
<1>1. TypeOK'
  BY DEF Trades, TypeOK, Tokens
<1>2. \A a \in WalletAtas : Balance(tokens', a) \in Nat
  BY <1>1, AtaLemma DEF TypeOK, Balance
<1>3. QED
  BY <1>2 DEF Trades, Promise!Elsewhere, WalletAtas

\* The SPL escrow implements Settlement, between ATAs of the deal's mint.
THEOREM Refinement == Spec => KeepsPromise
<1>1. IInv /\ [Next]_vars => [Promise!Next]_(Promise!vars)
  <2>1. SUFFICES ASSUME IInv, [Next]_vars PROVE [Promise!Next]_(Promise!vars)
    OBVIOUS
  <2>2. CASE Tick
    <3>1. now' > now /\ UNCHANGED <<tokens, escrows>>
      BY <2>1, <2>2 DEF Tick, IInv, TypeOK
    <3>2. QED
      BY <3>1 DEF Promise!Next, Promise!TimePasses
  <2>3. CASE UNCHANGED vars
    BY <2>3 DEF vars, Promise!vars
  <2>4. QED
    BY <2>1, <2>2, <2>3, Steps, OpensPromise, ReleasePromise, RefundPromise, TradesPromise
    DEF IInv, Promise!Next
<1>2. QED
  BY <1>1, InitPromise, Invariance, PTL DEF Spec, KeepsPromise, Promise!Spec
=============================================================================
