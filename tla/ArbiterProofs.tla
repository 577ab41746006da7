--------------------------- MODULE ArbiterProofs ---------------------------
(***************************************************************************)
(* For any parties, references, amounts, deadlines and rents: only the     *)
(* arbiter ends an arbitrated order, it can do so only by paying the       *)
(* seller the exact amount or by giving a party everything, and one of the *)
(* two is always open to it.                                               *)
(***************************************************************************)
EXTENDS Arbiter, TLAPS

Wallets == Parties \cup Vaults
Keys == Wallets \X Refs
Addresses == Wallets \cup Keys
Balances == [Addresses -> Nat]

Ends(ref) == IsOpen(ref) /\ ~IsOpen(ref)'

\* The order stays as it is, and its vault loses nothing.
LeftAlone(ref) == ~Ends(ref) /\ lamports'[VaultOf[ref]] >= lamports[VaultOf[ref]]

\* Everything the order and its vault hold.
All(ref) == lamports[VaultOf[ref]] + lamports[Key(ref)]

PaysTheSeller(ref) ==
    LET e == escrows[Key(ref)] IN
    /\ e.seller \in Parties /\ IsOpen(ref)
    /\ lamports'[e.seller] = lamports[e.seller] + e.amount
    /\ lamports'[VaultOf[ref]] = All(ref) - e.amount
    /\ lamports'[VaultOf[ref]] >= lamports[VaultOf[ref]]

GivesAll(ref) ==
    /\ IsOpen(ref) /\ ~IsOpen(ref)' /\ now >= escrows[Key(ref)].deadline
    /\ lamports'[VaultOf[ref]] = 0
    /\ \E p \in Parties : lamports'[p] = lamports[p] + All(ref)

-----------------------------------------------------------------------------
(* Addresses and balances.                                                 *)

LEMMA SameNames == Esc!Keys = Keys /\ Esc!Addresses = Addresses
  BY DEF Esc!Keys, Esc!Addresses, Keys, Addresses, Wallets

\* Parties, vaults and escrow accounts all have addresses of their own.
LEMMA AddressLemma ==
    /\ \A w \in Wallets : w \in Addresses /\ w \notin Keys
    /\ \A k \in Keys : k \in Addresses /\ k \notin Wallets
    /\ \A ref \in Refs : VaultOf[ref] \in Wallets \ Parties /\ Key(ref) \in Keys
    /\ \A w \in Wallets, ref \in Refs : <<w, ref>> \in Keys
    /\ \A p \in Parties, r, ref \in Refs : <<p, r>> # Key(ref)
    /\ \A r, ref \in Refs : Key(r) = Key(ref) => r = ref
  BY VaultAssumption DEF Addresses, Wallets, Keys, Vaults, Key

LEMMA MoveLemma ==
    ASSUME NEW l \in Balances, NEW from \in Addresses, NEW to \in Addresses, from # to,
           NEW x \in Nat, l[from] >= x
    PROVE  LET m == Esc!Move(l, from, to, x) IN
           /\ m \in Balances /\ m[from] = l[from] - x /\ m[to] = l[to] + x
           /\ \A a \in Addresses \ {from, to} : m[a] = l[a]
  BY DEF Esc!Move, Balances

\* Closing empties an escrow's address into a wallet.
LEMMA ClosedLemma ==
    ASSUME NEW l \in Balances, NEW k \in Keys, NEW w \in Wallets
    PROVE  LET m == Esc!Closed(l, k, w) IN
           /\ m \in Balances /\ m[k] = 0 /\ m[w] = l[w] + l[k]
           /\ \A a \in Addresses \ {k, w} : m[a] = l[a]
<1>1. k \in Addresses /\ w \in Addresses /\ k # w
  BY AddressLemma
<1>2. l[k] \in Nat /\ l[k] >= l[k] /\ l[k] - l[k] = 0
  BY <1>1 DEF Balances
<1>3. PICK x \in Nat : x = l[k]
  BY <1>2
<1>4. LET m == Esc!Move(l, k, w, x) IN
      /\ m \in Balances /\ m[k] = l[k] - x /\ m[w] = l[w] + x
      /\ \A a \in Addresses \ {k, w} : m[a] = l[a]
  BY <1>1, <1>2, <1>3, MoveLemma
<1>5. QED
  BY <1>2, <1>3, <1>4 DEF Esc!Closed

\* A release pays the seller and leaves the rest to another wallet, the buyer.
LEMMA ReleasedLemma ==
    ASSUME NEW l \in Balances, NEW k \in Keys, NEW e, e.seller \in Wallets, e.buyer \in Wallets,
           e.amount \in Nat, l[k] >= e.amount
    PROVE  LET m == Esc!Released(l, k, e, e.seller) IN
           /\ m \in Balances
           /\ e.seller # e.buyer => /\ m[e.seller] = l[e.seller] + e.amount
                                    /\ m[e.buyer] = l[e.buyer] + (l[k] - e.amount)
           /\ \A a \in Addresses \ {k, e.seller, e.buyer} : m[a] = l[a]
<1>1. k \in Addresses /\ e.seller \in Addresses /\ e.buyer \in Addresses /\ k # e.seller /\ k # e.buyer
  BY AddressLemma
<1>2. PICK paid : paid = Esc!Move(l, k, e.seller, e.amount)
  OBVIOUS
<1>3. /\ paid \in Balances /\ paid[k] = l[k] - e.amount /\ paid[e.seller] = l[e.seller] + e.amount
      /\ \A a \in Addresses \ {k, e.seller} : paid[a] = l[a]
  BY <1>1, <1>2, MoveLemma
<1>4. LET m == Esc!Closed(paid, k, e.buyer) IN
      /\ m \in Balances /\ m[e.buyer] = paid[e.buyer] + paid[k]
      /\ \A a \in Addresses \ {k, e.buyer} : m[a] = paid[a]
  BY <1>3, ClosedLemma
<1>5. QED
  BY <1>1, <1>2, <1>3, <1>4 DEF Esc!Released

\* A deposit takes from the wallet that opens no more than rent and amount.
LEMMA DepositedLemma ==
    ASSUME NEW l \in Balances, NEW w \in Wallets, NEW r \in Refs, NEW amount \in Nat,
           l[w] >= Esc!DepositCost(l, <<w, r>>, amount)
    PROVE  LET m == Esc!Deposited(l, <<w, r>>, amount) IN
           /\ m \in Balances /\ m[w] >= l[w] - (amount + Rent)
           /\ \A a \in Addresses \ {<<w, r>>, w} : m[a] = l[a]
<1>1. PICK k \in Keys : k = <<w, r>> /\ k[1] = w
  BY AddressLemma
<1>2. k \in Addresses /\ w \in Addresses /\ k # w
  BY AddressLemma
<1>3. PICK cost : cost = Esc!DepositCost(l, k, amount)
  OBVIOUS
<1>4. cost \in Nat /\ cost =< amount + Rent /\ l[w] >= cost
  BY <1>1, <1>2, <1>3, ArbiterAssumption DEF Esc!DepositCost, Esc!TopUp, Balances
<1>5. LET m == Esc!Move(l, w, k, cost) IN
      /\ m \in Balances /\ m[w] = l[w] - cost /\ \A a \in Addresses \ {w, k} : m[a] = l[a]
  BY <1>2, <1>4, MoveLemma
<1>6. Esc!Deposited(l, k, amount) = Esc!Move(l, w, k, cost)
  BY <1>1, <1>3 DEF Esc!Deposited
<1>7. l[w] \in Nat
  BY <1>2 DEF Balances
<1>8. QED
  BY <1>1, <1>4, <1>5, <1>6, <1>7, ArbiterAssumption

-----------------------------------------------------------------------------
\* What the types say of the parts an instruction reads.
LEMMA Typed ==
    ASSUME TypeOK
    PROVE  /\ now \in Nat /\ lamports \in Balances
           /\ escrows \in [Keys -> Esc!EscrowAccounts \cup {NoEscrow}]
           /\ \A k \in Keys : escrows[k] # NoEscrow =>
                 /\ escrows[k] \in Esc!EscrowAccounts
                 /\ escrows[k].seller \in Wallets /\ escrows[k].buyer \in Wallets
                 /\ escrows[k].amount \in Nat
  BY SameNames DEF TypeOK, Esc!TypeOK, Esc!EscrowAccounts, Balances, Wallets

LEMMA InitTypes == Init => TypeOK
<1>1. SUFFICES ASSUME Init PROVE TypeOK
  OBVIOUS
<1>2. \A w \in Wallets : (IF w \in Parties THEN InitialLamports[w] ELSE 0) \in Nat
  BY ArbiterAssumption
<1>3. lamports \in Balances
  BY <1>1, <1>2, SameNames DEF Init, Esc!Init, Balances, Wallets
<1>4. QED
  BY <1>1, <1>3, SameNames DEF Init, Esc!Init, TypeOK, Esc!TypeOK, Balances

\* The escrow of one key is set, and the balances stay balances.
LEMMA SetEscrow ==
    ASSUME TypeOK, NEW k \in Keys, NEW e \in Esc!EscrowAccounts \cup {NoEscrow},
           escrows' = [escrows EXCEPT ![k] = e], lamports' \in Balances, UNCHANGED <<now, config>>,
           signer' \in Parties
    PROVE  /\ TypeOK'
           /\ escrows'[k] = e /\ \A j \in Keys \ {k} : escrows'[j] = escrows[j]
  BY SameNames, Typed DEF TypeOK, Esc!TypeOK, Balances

LEMMA OpenOrderStep ==
    ASSUME TypeOK, NEW payer \in Parties, NEW seller \in Parties, NEW r \in Refs,
           NEW amount \in Amounts, NEW deadline \in Deadlines,
           OpenOrder(payer, seller, r, amount, deadline)
    PROVE  TypeOK' /\ \A ref \in Refs : LeftAlone(ref)
<1>1. PICK vault : vault = VaultOf[r]
  OBVIOUS
<1>2. PICK k : k = Key(r) /\ k = <<vault, r>>
  BY <1>1 DEF Key
<1>3. PICK e : e = [buyer |-> vault, seller |-> seller, amount |-> amount, reference |-> r, deadline |-> deadline]
  OBVIOUS
<1>4. PICK before : before = Esc!Move(lamports, payer, vault, Fund(amount))
  OBVIOUS
<1>5. /\ lamports[payer] >= Fund(amount) /\ Esc!CanInitialize(before, k, amount, deadline)
      /\ lamports' = Esc!Deposited(before, k, amount)
      /\ escrows' = [escrows EXCEPT ![k] = e] /\ signer' = payer /\ UNCHANGED <<now, config>>
  BY <1>1, <1>2, <1>3, <1>4 DEF OpenOrder
<1>6. vault \in Wallets \ Parties /\ payer \in Wallets /\ k \in Keys /\ vault \in Addresses /\ payer \in Addresses
  BY <1>1, <1>2, AddressLemma DEF Wallets
<1>7. amount \in Nat /\ deadline \in Int /\ Fund(amount) \in Nat /\ Fund(amount) = amount + Rent
  BY ArbiterAssumption DEF Fund
<1>8. /\ before \in Balances /\ before[vault] = lamports[vault] + (amount + Rent)
      /\ \A a \in Addresses \ {payer, vault} : before[a] = lamports[a]
  BY <1>4, <1>5, <1>6, <1>7, Typed, MoveLemma
<1>9. amount > 0 /\ escrows[k] = NoEscrow /\ before[vault] >= Esc!DepositCost(before, k, amount)
  BY <1>2, <1>5 DEF Esc!CanInitialize, Esc!ValidTerms, Esc!Vacant
<1>10. /\ lamports' \in Balances /\ lamports'[vault] >= before[vault] - (amount + Rent)
       /\ \A a \in Addresses \ {k, vault} : lamports'[a] = before[a]
  BY <1>2, <1>5, <1>6, <1>7, <1>8, <1>9, DepositedLemma
<1>11. e \in Esc!EscrowAccounts
  BY <1>3, <1>6, <1>7, <1>9 DEF Esc!EscrowAccounts, Wallets
<1>12. TypeOK' /\ escrows'[k] = e /\ \A j \in Keys \ {k} : escrows'[j] = escrows[j]
  BY <1>5, <1>6, <1>10, <1>11, SetEscrow
<1>13. ASSUME NEW ref \in Refs PROVE LeftAlone(ref)
  <2>1. Key(ref) \in Keys /\ VaultOf[ref] \in Wallets \ Parties /\ VaultOf[ref] \in Addresses /\ VaultOf[ref] \notin Keys
    BY AddressLemma
  <2>2. ~Ends(ref)
    BY <1>2, <1>9, <1>12, <2>1 DEF Ends, IsOpen, Key
  <2>3. lamports[VaultOf[ref]] \in Nat /\ lamports[vault] \in Nat /\ lamports'[vault] \in Nat
    BY <1>6, <1>10, <2>1, Typed DEF Balances
  <2>4. CASE VaultOf[ref] = vault
    <3>1. lamports'[vault] >= lamports[vault]
      BY <1>7, <1>8, <1>10, <2>3, ArbiterAssumption
    <3>2. QED
      BY <2>2, <2>4, <3>1 DEF LeftAlone
  <2>5. CASE VaultOf[ref] # vault
    <3>1. lamports'[VaultOf[ref]] = lamports[VaultOf[ref]]
      BY <1>6, <1>8, <1>10, <2>1, <2>5
    <3>2. QED
      BY <2>2, <2>3, <3>1 DEF LeftAlone
  <2>6. QED
    BY <2>4, <2>5
<1>14. QED
  BY <1>12, <1>13

\* The escrow program's release, called by the arbiter program or directly.
LEMMA ReleaseStep ==
    ASSUME TypeOK, NEW w \in Wallets, NEW seller \in Parties, NEW k \in Keys,
           Esc!Release(w, seller, k), UNCHANGED config, signer' \in Parties
    PROVE  /\ TypeOK' /\ k[1] = w
           /\ escrows[k] # NoEscrow /\ escrows'[k] = NoEscrow /\ escrows[k].seller = seller
           /\ \A j \in Keys \ {k} : escrows'[j] = escrows[j]
           /\ lamports[k] >= escrows[k].amount
           /\ w # seller => /\ lamports'[seller] = lamports[seller] + escrows[k].amount
                            /\ lamports'[w] = lamports[w] + (lamports[k] - escrows[k].amount)
           /\ \A a \in Addresses \ {k, w, seller} : lamports'[a] = lamports[a]
<1>1. PICK e : e = escrows[k]
  OBVIOUS
<1>2. /\ e # NoEscrow /\ k = <<w, e.reference>> /\ e.buyer = w /\ e.seller = seller /\ lamports[k] >= e.amount
      /\ lamports' = Esc!Released(lamports, k, e, e.seller) /\ escrows' = [escrows EXCEPT ![k] = NoEscrow] /\ now' = now
  BY <1>1 DEF Esc!Release, Esc!Releasable, Esc!CanRelease, Esc!HasOneSeller
<1>3. e.seller \in Wallets /\ e.buyer \in Wallets /\ e.amount \in Nat /\ lamports \in Balances
  BY <1>1, <1>2, Typed
<1>4. /\ lamports' \in Balances
      /\ e.seller # e.buyer => /\ lamports'[e.seller] = lamports[e.seller] + e.amount
                               /\ lamports'[e.buyer] = lamports[e.buyer] + (lamports[k] - e.amount)
      /\ \A a \in Addresses \ {k, e.seller, e.buyer} : lamports'[a] = lamports[a]
  BY <1>2, <1>3, ReleasedLemma
<1>5. TypeOK' /\ escrows'[k] = NoEscrow /\ \A j \in Keys \ {k} : escrows'[j] = escrows[j]
  BY <1>2, <1>4, SetEscrow
<1>6. QED
  BY <1>1, <1>2, <1>4, <1>5

LEMMA ArbitrateReleaseStep ==
    ASSUME TypeOK, NEW arbiter \in Parties, NEW seller \in Parties, NEW r \in Refs,
           ArbitrateRelease(arbiter, seller, r)
    PROVE  TypeOK' /\ PaysTheSeller(r) /\ \A ref \in Refs \ {r} : LeftAlone(ref)
<1>1. PICK vault, k : vault = VaultOf[r] /\ k = Key(r)
  OBVIOUS
<1>2. vault \in Wallets \ Parties /\ vault # seller /\ vault \in Addresses /\ k \in Keys /\ k \in Addresses
  BY <1>1, AddressLemma
<1>3. Esc!Release(vault, seller, k) /\ signer' \in Parties /\ UNCHANGED config
  BY <1>1 DEF ArbitrateRelease
<1>4. /\ TypeOK'
      /\ escrows[k] # NoEscrow /\ escrows'[k] = NoEscrow /\ escrows[k].seller = seller
      /\ \A j \in Keys \ {k} : escrows'[j] = escrows[j]
      /\ lamports[k] >= escrows[k].amount
      /\ lamports'[seller] = lamports[seller] + escrows[k].amount
      /\ lamports'[vault] = lamports[vault] + (lamports[k] - escrows[k].amount)
      /\ \A a \in Addresses \ {k, vault, seller} : lamports'[a] = lamports[a]
  BY <1>2, <1>3, ReleaseStep
<1>5. lamports[vault] \in Nat /\ lamports[k] \in Nat /\ escrows[k].amount \in Nat
  BY <1>2, <1>4, Typed DEF Balances
<1>6. PaysTheSeller(r)
  BY <1>1, <1>4, <1>5 DEF PaysTheSeller, IsOpen, All
<1>7. ASSUME NEW ref \in Refs \ {r} PROVE LeftAlone(ref)
  <2>1. /\ Key(ref) \in Keys \ {k} /\ VaultOf[ref] # vault
        /\ VaultOf[ref] \in Addresses \ {k, vault, seller}
    BY <1>1, <1>2, AddressLemma, VaultAssumption
  <2>2. lamports[VaultOf[ref]] \in Nat
    BY <2>1, Typed DEF Balances
  <2>3. QED
    BY <1>4, <2>1, <2>2 DEF LeftAlone, Ends, IsOpen, Key
<1>8. QED
  BY <1>4, <1>6, <1>7

LEMMA ArbitrateRefundStep ==
    ASSUME TypeOK, NEW arbiter \in Parties, NEW payer \in Parties, NEW r \in Refs,
           ArbitrateRefund(arbiter, payer, r)
    PROVE  TypeOK' /\ GivesAll(r) /\ \A ref \in Refs \ {r} : LeftAlone(ref)
<1>1. PICK vault, k, e : vault = VaultOf[r] /\ k = Key(r) /\ e = escrows[k]
  OBVIOUS
<1>2. vault \in Wallets \ Parties /\ vault # payer /\ vault \in Addresses /\ k \in Keys /\ k \in Addresses
      /\ payer \in Addresses /\ k # vault /\ k # payer
  BY <1>1, AddressLemma DEF Wallets
<1>3. PICK m : m = Esc!Refunded(lamports, k, e)
  OBVIOUS
<1>4. /\ e # NoEscrow /\ e.buyer = vault /\ now >= e.deadline
      /\ lamports' = Esc!Move(m, vault, payer, m[vault]) /\ escrows' = [escrows EXCEPT ![k] = NoEscrow]
      /\ signer' \in Parties /\ UNCHANGED <<now, config>>
  BY <1>1, <1>3 DEF ArbitrateRefund, MayRefund, GivenBack, Esc!CanRefund, Esc!DeadlineReached, Swept
<1>5. /\ m \in Balances /\ m[vault] = lamports[vault] + lamports[k]
      /\ \A a \in Addresses \ {k, vault} : m[a] = lamports[a]
  BY <1>2, <1>3, <1>4, ClosedLemma, Typed DEF Esc!Refunded
<1>6. m[vault] \in Nat /\ m[vault] >= m[vault] /\ m[vault] - m[vault] = 0
  BY <1>2, <1>5 DEF Balances
<1>7. PICK x \in Nat : x = m[vault]
  BY <1>6
<1>8. /\ lamports' \in Balances /\ lamports'[vault] = 0 /\ lamports'[payer] = m[payer] + x
      /\ \A a \in Addresses \ {vault, payer} : lamports'[a] = m[a]
  BY <1>2, <1>4, <1>5, <1>6, <1>7, MoveLemma
<1>9. TypeOK' /\ escrows'[k] = NoEscrow /\ \A j \in Keys \ {k} : escrows'[j] = escrows[j]
  BY <1>2, <1>4, <1>8, SetEscrow
<1>10. lamports'[payer] = lamports[payer] + All(r)
  BY <1>1, <1>2, <1>5, <1>7, <1>8 DEF All
<1>11. GivesAll(r)
  BY <1>1, <1>4, <1>8, <1>9, <1>10 DEF GivesAll, IsOpen, Key
<1>12. ASSUME NEW ref \in Refs \ {r} PROVE LeftAlone(ref)
  <2>1. /\ Key(ref) \in Keys \ {k} /\ VaultOf[ref] \in Addresses \ {k, vault, payer}
    BY <1>1, <1>2, AddressLemma, VaultAssumption
  <2>2. lamports[VaultOf[ref]] \in Nat /\ lamports'[VaultOf[ref]] = lamports[VaultOf[ref]]
    BY <1>5, <1>8, <2>1, Typed DEF Balances
  <2>3. QED
    BY <1>9, <2>1, <2>2 DEF LeftAlone, Ends, IsOpen, Key
<1>13. QED
  BY <1>9, <1>11, <1>12

\* A party that calls the escrow program reaches no vault's escrow.
LEMMA DirectlyStep ==
    ASSUME TypeOK, NEW p \in Parties, Directly(p)
    PROVE  TypeOK' /\ \A ref \in Refs : LeftAlone(ref)
<1>1. PICK k \in Keys : (\E seller \in Parties : Esc!Release(p, seller, k)) \/ Esc!Refund(p, k)
  BY SameNames DEF Directly
<1>2. signer' \in Parties /\ UNCHANGED config /\ p \in Wallets
  BY DEF Directly, Wallets
<1>3. /\ TypeOK' /\ k[1] = p
      /\ \A j \in Keys \ {k} : escrows'[j] = escrows[j]
      /\ \A a \in Addresses : a \notin Parties \cup {k} => lamports'[a] = lamports[a]
  <2>1. ASSUME NEW seller \in Parties, Esc!Release(p, seller, k)
        PROVE  /\ TypeOK' /\ k[1] = p
               /\ \A j \in Keys \ {k} : escrows'[j] = escrows[j]
               /\ \A a \in Addresses : a \notin Parties \cup {k} => lamports'[a] = lamports[a]
    BY <1>2, <2>1, ReleaseStep
  <2>2. CASE Esc!Refund(p, k)
    <3>1. PICK e : e = escrows[k]
      OBVIOUS
    <3>2. /\ e # NoEscrow /\ k = <<p, e.reference>> /\ e.buyer = p
          /\ lamports' = Esc!Closed(lamports, k, p) /\ escrows' = [escrows EXCEPT ![k] = NoEscrow] /\ now' = now
      BY <2>2, <3>1 DEF Esc!Refund, Esc!Refundable, Esc!CanRefund, Esc!Refunded
    <3>3. lamports' \in Balances /\ \A a \in Addresses \ {k, p} : lamports'[a] = lamports[a]
      <4>1. lamports \in Balances /\ p \in Wallets
        BY <1>2, Typed
      <4>2. LET m == Esc!Closed(lamports, k, p) IN m \in Balances /\ \A a \in Addresses \ {k, p} : m[a] = lamports[a]
        BY <4>1, ClosedLemma
      <4>3. QED
        BY <3>2, <4>2
    <3>4. UNCHANGED <<now, config>> /\ escrows' = [escrows EXCEPT ![k] = NoEscrow] /\ lamports' \in Balances
      BY <1>2, <3>2, <3>3
    <3>5. TypeOK' /\ \A j \in Keys \ {k} : escrows'[j] = escrows[j]
      BY <1>2, <3>4, SetEscrow
    <3>6. QED
      BY <3>2, <3>3, <3>5
  <2>3. QED
    BY <1>1, <2>1, <2>2
<1>4. ASSUME NEW ref \in Refs PROVE LeftAlone(ref)
  <2>1. Key(ref) \in Keys \ {k} /\ VaultOf[ref] \in Addresses /\ VaultOf[ref] \notin Parties \cup {k}
    BY <1>3, AddressLemma DEF Key
  <2>2. lamports[VaultOf[ref]] \in Nat
    BY <2>1, Typed DEF Balances
  <2>3. QED
    BY <1>3, <2>1, <2>2 DEF LeftAlone, Ends, IsOpen, Key
<1>5. QED
  BY <1>3, <1>4

LEMMA OnTheirOwnStep ==
    ASSUME TypeOK, NEW p \in Parties, OnTheirOwn(p)
    PROVE  TypeOK' /\ \A ref \in Refs : LeftAlone(ref)
<1>1. p \in Wallets /\ p \in Addresses /\ signer' \in Parties /\ UNCHANGED config
  BY AddressLemma DEF OnTheirOwn, Wallets
<1>2. ASSUME NEW seller \in Parties, NEW r \in Refs, NEW amount \in Amounts, NEW deadline \in Deadlines,
             Esc!Initialize(p, seller, r, amount, deadline)
      PROVE  TypeOK' /\ \A ref \in Refs : LeftAlone(ref)
  <2>1. PICK k \in Keys : k = <<p, r>>
    BY <1>1, AddressLemma
  <2>2. PICK e : e = [buyer |-> p, seller |-> seller, amount |-> amount, reference |-> r, deadline |-> deadline]
    OBVIOUS
  <2>3. /\ Esc!CanInitialize(lamports, k, amount, deadline) /\ lamports' = Esc!Deposited(lamports, k, amount)
        /\ escrows' = [escrows EXCEPT ![k] = e] /\ now' = now
    BY <1>2, <2>1, <2>2 DEF Esc!Initialize
  <2>4. amount \in Nat /\ amount > 0 /\ deadline \in Int /\ lamports[p] >= Esc!DepositCost(lamports, k, amount)
    BY <2>1, <2>3, ArbiterAssumption DEF Esc!CanInitialize, Esc!ValidTerms
  <2>5. e \in Esc!EscrowAccounts
    BY <1>1, <2>2, <2>4 DEF Esc!EscrowAccounts, Wallets
  <2>6. lamports' \in Balances /\ \A a \in Addresses \ {k, p} : lamports'[a] = lamports[a]
    BY <1>1, <2>1, <2>3, <2>4, DepositedLemma, Typed
  <2>7. TypeOK' /\ \A j \in Keys \ {k} : escrows'[j] = escrows[j]
    BY <1>1, <2>3, <2>5, <2>6, SetEscrow
  <2>8. ASSUME NEW ref \in Refs PROVE LeftAlone(ref)
    <3>1. Key(ref) \in Keys \ {k} /\ VaultOf[ref] \in Addresses \ {k, p}
      BY <2>1, AddressLemma
    <3>2. lamports[VaultOf[ref]] \in Nat
      BY <3>1, Typed DEF Balances
    <3>3. QED
      BY <2>6, <2>7, <3>1, <3>2 DEF LeftAlone, Ends, IsOpen, Key
  <2>9. QED
    BY <2>7, <2>8
<1>3. ASSUME NEW to \in Addresses, NEW x \in Gifts, Esc!SystemTransfer(p, to, x)
      PROVE  TypeOK' /\ \A ref \in Refs : LeftAlone(ref)
  <2>1. p # to /\ lamports[p] >= x /\ lamports' = Esc!Move(lamports, p, to, x) /\ UNCHANGED <<now, escrows>> /\ x \in Nat
    BY <1>3, ArbiterAssumption DEF Esc!SystemTransfer
  <2>2. /\ lamports' \in Balances /\ lamports'[to] = lamports[to] + x
        /\ \A a \in Addresses \ {p, to} : lamports'[a] = lamports[a]
    BY <1>1, <1>3, <2>1, MoveLemma, Typed
  <2>3. TypeOK'
    BY <1>1, <2>1, <2>2, SameNames DEF TypeOK, Esc!TypeOK, Balances
  <2>4. ASSUME NEW ref \in Refs PROVE LeftAlone(ref)
    <3>1. VaultOf[ref] \in Addresses \ {p}
      BY AddressLemma
    <3>2. lamports[VaultOf[ref]] \in Nat
      BY <3>1, Typed DEF Balances
    <3>3. lamports'[VaultOf[ref]] >= lamports[VaultOf[ref]]
      <4>1. CASE VaultOf[ref] = to
        BY <2>1, <2>2, <3>2, <4>1
      <4>2. CASE VaultOf[ref] # to
        <5>1. lamports'[VaultOf[ref]] = lamports[VaultOf[ref]]
          BY <2>2, <3>1, <4>2
        <5>2. QED
          BY <3>2, <5>1
      <4>3. QED
        BY <4>1, <4>2
    <3>4. QED
      BY <2>1, <3>3 DEF LeftAlone, Ends, IsOpen, Key
  <2>5. QED
    BY <2>3, <2>4
<1>4. QED
  BY <1>2, <1>3, SameNames DEF OnTheirOwn

\* The clock and the configuration.
LEMMA QuietStep ==
    ASSUME TypeOK, UNCHANGED <<lamports, escrows>>, now' \in Nat, config' \in Parties \cup {Nobody},
           signer' \in Parties \cup {Nobody}
    PROVE  TypeOK' /\ \A ref \in Refs : LeftAlone(ref)
<1>1. TypeOK'
  BY DEF TypeOK, Esc!TypeOK
<1>2. ASSUME NEW ref \in Refs PROVE LeftAlone(ref)
  <2>1. VaultOf[ref] \in Addresses
    BY AddressLemma
  <2>2. lamports[VaultOf[ref]] \in Nat
    BY <2>1, Typed DEF Balances
  <2>3. QED
    BY <2>2 DEF LeftAlone, Ends, IsOpen, Key
<1>3. QED
  BY <1>1, <1>2

-----------------------------------------------------------------------------
\* Every step leaves an order alone or is the arbiter's, and then it pays the
\* seller or gives all.
LEMMA Step ==
    ASSUME TypeOK, [Next]_vars
    PROVE  TypeOK' /\ \A ref \in Refs :
               \/ LeftAlone(ref)
               \/ /\ signer' = config /\ config' = config
                  /\ PaysTheSeller(ref) \/ GivesAll(ref)
<1>1. CASE UNCHANGED vars
  BY <1>1, QuietStep DEF vars, TypeOK, Esc!TypeOK
<1>2. CASE Tick
  BY <1>2, QuietStep DEF Tick, Esc!Tick, TypeOK, Esc!TypeOK
<1>3. ASSUME NEW admin \in Parties, NEW arbiter \in Parties, InitConfig(admin, arbiter)
      PROVE  TypeOK' /\ \A ref \in Refs : LeftAlone(ref)
  BY <1>3, QuietStep DEF InitConfig, TypeOK, Esc!TypeOK
<1>4. ASSUME NEW payer \in Parties, NEW seller \in Parties, NEW r \in Refs,
             NEW amount \in Amounts, NEW deadline \in Deadlines, OpenOrder(payer, seller, r, amount, deadline)
      PROVE  TypeOK' /\ \A ref \in Refs : LeftAlone(ref)
  BY <1>4, OpenOrderStep
<1>5. ASSUME NEW arbiter \in Parties, NEW p \in Parties, NEW r \in Refs,
             ArbitrateRelease(arbiter, p, r) \/ ArbitrateRefund(arbiter, p, r)
      PROVE  TypeOK' /\ \A ref \in Refs :
                 \/ LeftAlone(ref)
                 \/ /\ signer' = config /\ config' = config
                    /\ PaysTheSeller(ref) \/ GivesAll(ref)
  <2>1. signer' = config /\ config' = config
    BY <1>5 DEF ArbitrateRelease, ArbitrateRefund, MayRelease, MayRefund, IsArbiter
  <2>2. TypeOK' /\ (PaysTheSeller(r) \/ GivesAll(r)) /\ \A ref \in Refs \ {r} : LeftAlone(ref)
    BY <1>5, ArbitrateReleaseStep, ArbitrateRefundStep
  <2>3. QED
    BY <2>1, <2>2
<1>6. ASSUME NEW p \in Parties, Directly(p) \/ OnTheirOwn(p)
      PROVE  TypeOK' /\ \A ref \in Refs : LeftAlone(ref)
  BY <1>6, DirectlyStep, OnTheirOwnStep
<1>7. QED
  BY <1>1, <1>2, <1>3, <1>4, <1>5, <1>6 DEF Next

\* The balances, the escrow accounts and the configuration keep their types.
THEOREM TypeCorrect == Spec => []TypeOK
<1>1. TypeOK /\ [Next]_vars => TypeOK'
  BY Step
<1>2. QED
  BY <1>1, InitTypes, PTL DEF Spec

\* Only the arbiter ends an arbitrated order.
THEOREM NobodyElseSettles == Spec => OnlyTheArbiterSettles
<1>1. TypeOK /\ [Next]_vars =>
          [\A ref \in Refs : IsOpen(ref) /\ ~IsOpen(ref)' => signer' = config /\ config' = config]_vars
  BY Step DEF LeftAlone, Ends
<1>2. QED
  BY <1>1, TypeCorrect, PTL DEF Spec, OnlyTheArbiterSettles

\* The arbiter ends an order only by paying its seller the exact amount or,
\* from the deadline on, by giving one party all that its vault and its escrow
\* hold, and nothing leaves a vault otherwise.
THEOREM NothingIsSkimmed == Spec => OrdersAreSettledInFull
<1> DEFINE InFull ==
      \A ref \in Refs :
          LET e == escrows[Key(ref)]
              vault == VaultOf[ref]
              all == lamports[vault] + lamports[Key(ref)]
              ends == IsOpen(ref) /\ ~IsOpen(ref)'
          IN
          /\ lamports'[vault] < lamports[vault] => ends
          /\ ends =>
              \/ /\ lamports'[e.seller] = lamports[e.seller] + e.amount
                 /\ lamports'[vault] = all - e.amount
              \/ /\ now >= e.deadline
                 /\ lamports'[vault] = 0
                 /\ \E p \in Parties : lamports'[p] = lamports[p] + all
<1>1. TypeOK /\ [Next]_vars => [InFull]_vars
  <2>1. SUFFICES ASSUME TypeOK, [Next]_vars PROVE InFull
    OBVIOUS
  <2>2. SUFFICES ASSUME NEW ref \in Refs
        PROVE  /\ lamports'[VaultOf[ref]] < lamports[VaultOf[ref]] => Ends(ref)
               /\ Ends(ref) =>
                   \/ /\ lamports'[escrows[Key(ref)].seller] = lamports[escrows[Key(ref)].seller] + escrows[Key(ref)].amount
                      /\ lamports'[VaultOf[ref]] = All(ref) - escrows[Key(ref)].amount
                   \/ /\ now >= escrows[Key(ref)].deadline
                      /\ lamports'[VaultOf[ref]] = 0
                      /\ \E p \in Parties : lamports'[p] = lamports[p] + All(ref)
    BY DEF Ends, All
  <2>3. VaultOf[ref] \in Addresses
    BY AddressLemma
  <2>4. TypeOK'
    BY <2>1, Step
  <2>5. lamports[VaultOf[ref]] \in Nat /\ lamports'[VaultOf[ref]] \in Nat
    BY <2>1, <2>3, <2>4, Typed, SameNames DEF Balances, TypeOK, Esc!TypeOK
  <2>6. LeftAlone(ref) \/ PaysTheSeller(ref) \/ GivesAll(ref)
    BY <2>1, Step
  <2>7. QED
    BY <2>5, <2>6 DEF LeftAlone, PaysTheSeller, GivesAll, Ends
<1>2. QED
  BY <1>1, TypeCorrect, PTL DEF Spec, OrdersAreSettledInFull

-----------------------------------------------------------------------------
(* What is proved of the escrow program holds of the one the arbiter calls:  *)
(* a step of a party is a step of that program, and an instruction of the    *)
(* arbiter program opens or closes one of its escrows.                       *)

Prog == INSTANCE EscrowProofs WITH
    Wallets <- Parties \cup Vaults,
    InitialLamports <- [w \in Parties \cup Vaults |->
                           IF w \in Parties THEN InitialLamports[w] ELSE 0]

EscrowInv == Prog!IInv /\ Prog!Supply /\ Prog!Rents

LEMMA ProgAssumed ==
    /\ Prog!KeysAreNotWallets /\ Prog!RentAssumption /\ Prog!InputAssumption
    /\ Prog!InitialAssumption /\ Prog!FiniteAssumption /\ Prog!SupplyAssumption
    /\ Prog!NoEscrowAssumption
<1>1. Prog!KeysAreNotWallets
  BY EscrowAssumption DEF EscrowAssumption, Esc!KeysAreNotWallets, Prog!KeysAreNotWallets, Esc!Keys, Prog!Keys
<1>2. Prog!RentAssumption /\ Prog!InputAssumption
  BY EscrowAssumption DEF Esc!RentAssumption, Prog!RentAssumption, Esc!InputAssumption, Prog!InputAssumption
<1>3. Prog!InitialAssumption
  BY EscrowAssumption DEF Esc!InitialAssumption, Prog!InitialAssumption
<1>6. Prog!FiniteAssumption
  BY EscrowAssumption DEF Esc!FiniteAssumption, Prog!FiniteAssumption, Esc!IsFiniteSet, Prog!IsFiniteSet
<1>4. Prog!SupplyAssumption <=> Esc!SupplyAssumption
  BY DEF Esc!SupplyAssumption, Prog!SupplyAssumption, Esc!FoldFunction, Prog!FoldFunction,
     Esc!FoldFunctionOnSet, Prog!FoldFunctionOnSet, Esc!MapThenFoldSet, Prog!MapThenFoldSet
<1>5. Prog!NoEscrowAssumption
  BY EscrowAssumption DEF Esc!NoEscrowAssumption, Prog!NoEscrowAssumption,
     Esc!EscrowAccounts, Prog!EscrowAccounts, Esc!Deals, Prog!Deals
<1> QED
  BY <1>1, <1>2, <1>3, <1>4, <1>5, <1>6, EscrowAssumption

\* The two instances of the program are the same.
LEMMA SameBalances ==
    /\ Prog!Keys = Keys /\ Prog!Addresses = Addresses /\ Prog!EscrowAccounts = Esc!EscrowAccounts
    /\ Prog!TypeOK <=> Esc!TypeOK
    /\ \A l : Prog!RentExempt(l) <=> Esc!RentExempt(l)
    /\ \A l, from, to, x : Prog!Move(l, from, to, x) = Esc!Move(l, from, to, x)
    /\ \A l, k, amount : Prog!DepositCost(l, k, amount) = Esc!DepositCost(l, k, amount)
    /\ \A l, k, amount : Prog!Deposited(l, k, amount) = Esc!Deposited(l, k, amount)
    /\ \A l, k, w : Prog!Closed(l, k, w) = Esc!Closed(l, k, w)
<1>1. Prog!Keys = Keys /\ Prog!Addresses = Addresses /\ Prog!EscrowAccounts = Esc!EscrowAccounts
  BY DEF Keys, Addresses, Wallets, Prog!Keys, Prog!Addresses, Esc!EscrowAccounts, Prog!EscrowAccounts
<1>2. Prog!TypeOK <=> Esc!TypeOK
  BY <1>1, SameNames DEF Prog!TypeOK, Esc!TypeOK
<1>3. ASSUME NEW l PROVE Prog!RentExempt(l) <=> Esc!RentExempt(l)
  BY <1>1, SameNames DEF Prog!RentExempt, Esc!RentExempt
<1>4. ASSUME NEW l, NEW from, NEW to, NEW x PROVE Prog!Move(l, from, to, x) = Esc!Move(l, from, to, x)
  BY DEF Prog!Move, Esc!Move
<1>5. ASSUME NEW l, NEW k, NEW amount PROVE Prog!DepositCost(l, k, amount) = Esc!DepositCost(l, k, amount)
  BY DEF Prog!DepositCost, Esc!DepositCost, Prog!TopUp, Esc!TopUp
<1>6. ASSUME NEW l, NEW k, NEW amount PROVE Prog!Deposited(l, k, amount) = Esc!Deposited(l, k, amount)
  BY <1>4, <1>5 DEF Prog!Deposited, Esc!Deposited
<1>7. ASSUME NEW l, NEW k, NEW w PROVE Prog!Closed(l, k, w) = Esc!Closed(l, k, w)
  BY <1>4 DEF Prog!Closed, Esc!Closed
<1> QED
  BY <1>1, <1>2, <1>3, <1>4, <1>5, <1>6, <1>7

LEMMA SameProgram ==
    /\ \A b, s, k : Prog!Releasable(b, s, k) <=> Esc!Releasable(b, s, k)
    /\ \A b, s, r, a, d : Prog!Initialize(b, s, r, a, d) <=> Esc!Initialize(b, s, r, a, d)
    /\ \A b, s, k : Prog!Release(b, s, k) <=> Esc!Release(b, s, k)
    /\ \A b, k : Prog!Refundable(b, k) <=> Esc!Refundable(b, k)
    /\ \A b, k : Prog!Refund(b, k) <=> Esc!Refund(b, k)
    /\ \A from, to, x : Prog!SystemTransfer(from, to, x) <=> Esc!SystemTransfer(from, to, x)
    /\ Prog!Tick <=> Esc!Tick
<1> USE DEF Keys, Addresses, Wallets, Esc!Keys, Prog!Keys, Esc!Addresses, Prog!Addresses,
            Esc!RentExempt, Prog!RentExempt, Esc!Move, Prog!Move, Esc!Closed, Prog!Closed
<1>1. ASSUME NEW b, NEW s, NEW k PROVE Prog!Releasable(b, s, k) <=> Esc!Releasable(b, s, k)
  BY DEF Prog!Releasable, Esc!Releasable, Prog!CanRelease, Esc!CanRelease,
         Prog!HasOneSeller, Esc!HasOneSeller, Prog!Released, Esc!Released
<1>2. ASSUME NEW b, NEW s, NEW r, NEW a, NEW d
      PROVE  Prog!Initialize(b, s, r, a, d) <=> Esc!Initialize(b, s, r, a, d)
  BY DEF Prog!Initialize, Esc!Initialize, Prog!CanInitialize, Esc!CanInitialize,
         Prog!ValidTerms, Esc!ValidTerms, Prog!Vacant, Esc!Vacant, Prog!DepositCost, Esc!DepositCost,
         Prog!TopUp, Esc!TopUp, Prog!Deposited, Esc!Deposited
<1>3. ASSUME NEW b, NEW s, NEW k PROVE Prog!Release(b, s, k) <=> Esc!Release(b, s, k)
  BY DEF Prog!Release, Esc!Release, Prog!Releasable, Esc!Releasable, Prog!CanRelease, Esc!CanRelease,
         Prog!HasOneSeller, Esc!HasOneSeller, Prog!Released, Esc!Released
<1>4. ASSUME NEW b, NEW k PROVE Prog!Refund(b, k) <=> Esc!Refund(b, k)
  BY DEF Prog!Refund, Esc!Refund, Prog!Refundable, Esc!Refundable, Prog!CanRefund, Esc!CanRefund,
         Prog!DeadlineReached, Esc!DeadlineReached, Prog!Refunded, Esc!Refunded
<1>5. ASSUME NEW from, NEW to, NEW x
      PROVE  Prog!SystemTransfer(from, to, x) <=> Esc!SystemTransfer(from, to, x)
  BY DEF Prog!SystemTransfer, Esc!SystemTransfer
<1>6. Prog!Tick <=> Esc!Tick
  BY DEF Prog!Tick, Esc!Tick
<1>7. ASSUME NEW b, NEW k PROVE Prog!Refundable(b, k) <=> Esc!Refundable(b, k)
  BY DEF Prog!Refundable, Esc!Refundable, Prog!CanRefund, Esc!CanRefund,
         Prog!DeadlineReached, Esc!DeadlineReached, Prog!Refunded, Esc!Refunded
<1> QED
  BY <1>1, <1>2, <1>3, <1>4, <1>5, <1>6, <1>7, Zenon

LEMMA InitEscrowInv == Init => EscrowInv
<1>1. Init => Prog!Init
  BY SameBalances, SameNames DEF Init, Esc!Init, Prog!Init, Esc!Keys, Prog!Keys, Wallets, Keys
<1>2. Prog!Init => Prog!Rents
  BY DEF Prog!Init, Prog!Rents, Prog!Open
<1> QED
  BY <1>1, <1>2, ProgAssumed, Prog!InitIInv, Prog!InitTotal DEF EscrowInv, Prog!Supply

\* What the parties do themselves, and the clock.
LEMMA ProgramStep ==
    ASSUME EscrowInv, [Prog!Next]_<<now, lamports, escrows>>
    PROVE  EscrowInv'
<1>1. [Prog!Next]_Prog!vars
  BY DEF Prog!vars
<1>2. Prog!IInv' /\ Prog!Rents'
  BY <1>1, ProgAssumed, Prog!NextIInv, Prog!NextKeepsRents DEF EscrowInv
<1>3. Prog!Supply'
  BY <1>1, ProgAssumed, Prog!NextKeepsTotal DEF EscrowInv, Prog!Supply
<1> QED
  BY <1>2, <1>3 DEF EscrowInv

LEMMA PartyStep ==
    ASSUME EscrowInv, [Next]_vars,
           ~\E payer, seller \in Parties, ref \in Refs, amount \in Amounts, deadline \in Deadlines :
               OpenOrder(payer, seller, ref, amount, deadline),
           ~\E arbiter, p \in Parties, ref \in Refs : ArbitrateRefund(arbiter, p, ref)
    PROVE  EscrowInv'
<1>1. CASE UNCHANGED <<now, lamports, escrows>>
  BY <1>1, ProgramStep
<1>2. CASE Tick
  BY <1>2, ProgramStep, SameProgram DEF Tick, Prog!Next
<1>3. ASSUME NEW w \in Wallets, NEW seller \in Wallets, NEW k \in Keys, Esc!Release(w, seller, k)
      PROVE  EscrowInv'
  <2>1. Prog!Release(w, seller, k)
    BY <1>3, SameProgram
  <2>2. Prog!Next
    BY <2>1, SameBalances DEF Prog!Next, Wallets
  <2> QED
    BY <2>2, ProgramStep
<1>4. ASSUME NEW p \in Parties, Directly(p) PROVE EscrowInv'
  <2>1. CASE \E k \in Esc!Keys, seller \in Parties : Esc!Release(p, seller, k)
    BY <1>3, <2>1, SameNames DEF Wallets
  <2>2. CASE \E k \in Esc!Keys : Esc!Refund(p, k)
    <3>1. PICK k \in Keys : Prog!Refund(p, k)
      BY <2>2, SameNames, SameProgram
    <3>2. Prog!Next
      BY <3>1, SameBalances DEF Prog!Next
    <3> QED
      BY <3>2, ProgramStep
  <2> QED
    BY <1>4, <2>1, <2>2 DEF Directly
<1>5. ASSUME NEW p \in Parties, OnTheirOwn(p) PROVE EscrowInv'
  <2>1. \/ \E seller \in Parties, ref \in Refs, amount \in Amounts, deadline \in Deadlines :
             Prog!Initialize(p, seller, ref, amount, deadline)
        \/ \E to \in Addresses, x \in Gifts : Prog!SystemTransfer(p, to, x)
    BY <1>5, SameNames, SameProgram DEF OnTheirOwn
  <2>2. Prog!Next
    BY <2>1, SameBalances DEF Prog!Next
  <2> QED
    BY <2>2, ProgramStep
<1>6. ASSUME NEW arbiter \in Parties, NEW p \in Parties, NEW ref \in Refs, ArbitrateRelease(arbiter, p, ref)
      PROVE  EscrowInv'
  <2>1. VaultOf[ref] \in Wallets /\ Key(ref) \in Keys /\ p \in Wallets
    BY AddressLemma DEF Wallets
  <2> QED
    BY <1>3, <1>6, <2>1 DEF ArbitrateRelease
<1> QED
  BY <1>1, <1>2, <1>4, <1>5, <1>6 DEF Next, vars, InitConfig

\* Moves, deposits and closings keep the total.
Held(l) == Prog!Total(l, Prog!Addresses)

LEMMA MoveKeeps ==
    ASSUME NEW l \in Balances, NEW from \in Addresses, NEW to \in Addresses, NEW x \in Nat, l[from] >= x
    PROVE  Held(Esc!Move(l, from, to, x)) = Held(l)
<1>1. l \in [Prog!Addresses -> Nat] /\ from \in Prog!Addresses /\ to \in Prog!Addresses
  BY SameBalances DEF Balances
<1>2. Prog!Total(Prog!Move(l, from, to, x), Prog!Addresses) = Prog!Total(l, Prog!Addresses)
  BY <1>1, ProgAssumed, Prog!MoveKeepsTotal
<1>3. Prog!Move(l, from, to, x) = Esc!Move(l, from, to, x)
  BY SameBalances
<1> QED
  BY <1>2, <1>3, Zenon DEF Held

LEMMA DepositKeeps ==
    ASSUME NEW l \in Balances, NEW k \in Keys, NEW amount \in Nat, l[k[1]] >= Esc!DepositCost(l, k, amount)
    PROVE  Held(Esc!Deposited(l, k, amount)) = Held(l)
<1>1. l \in [Prog!Addresses -> Nat] /\ k \in Prog!Keys
  BY SameBalances DEF Balances
<1>2. Prog!DepositCost(l, k, amount) = Esc!DepositCost(l, k, amount)
  BY SameBalances
<1>3. Prog!Total(Prog!Deposited(l, k, amount), Prog!Addresses) = Prog!Total(l, Prog!Addresses)
  BY <1>1, <1>2, ProgAssumed, Prog!DepositKeepsTotal
<1>4. Prog!Deposited(l, k, amount) = Esc!Deposited(l, k, amount)
  BY SameBalances
<1> QED
  BY <1>3, <1>4, Zenon DEF Held

LEMMA CloseKeeps ==
    ASSUME NEW l \in Balances, NEW k \in Keys, NEW w \in Wallets
    PROVE  Held(Esc!Closed(l, k, w)) = Held(l)
<1>1. l \in [Prog!Addresses -> Nat] /\ k \in Prog!Keys
  BY SameBalances DEF Balances
<1>2. Prog!Total(Prog!Closed(l, k, w), Prog!Addresses) = Prog!Total(l, Prog!Addresses)
  BY <1>1, ProgAssumed, Prog!CloseKeepsTotal DEF Wallets
<1>3. Prog!Closed(l, k, w) = Esc!Closed(l, k, w)
  BY SameBalances
<1> QED
  BY <1>2, <1>3, Zenon DEF Held

\* An order is an escrow of its vault, opened with what the payer put there.
LEMMA OpenOrderKeeps ==
    ASSUME EscrowInv, TypeOK, NEW payer \in Parties, NEW seller \in Parties, NEW r \in Refs,
           NEW amount \in Amounts, NEW deadline \in Deadlines,
           OpenOrder(payer, seller, r, amount, deadline)
    PROVE  EscrowInv'
<1>1. PICK vault, k, e, before :
          /\ vault = VaultOf[r] /\ k = <<vault, r>> /\ k = Key(r)
          /\ e = [buyer |-> vault, seller |-> seller, amount |-> amount, reference |-> r, deadline |-> deadline]
          /\ before = Esc!Move(lamports, payer, vault, Fund(amount))
  BY DEF Key
<1>2. /\ lamports[payer] >= Fund(amount) /\ Esc!CanInitialize(before, k, amount, deadline)
      /\ lamports' = Esc!Deposited(before, k, amount) /\ Esc!RentExempt(lamports')
      /\ escrows' = [escrows EXCEPT ![k] = e] /\ now' = now
  BY <1>1 DEF OpenOrder
<1>3. /\ vault \in Wallets \ Parties /\ payer \in Wallets /\ k \in Keys /\ k \in Addresses
      /\ vault \in Addresses /\ payer \in Addresses /\ k # vault /\ k # payer
  BY <1>1, AddressLemma DEF Wallets
<1>4. amount \in Nat /\ deadline \in Int /\ Fund(amount) \in Nat
  BY ArbiterAssumption DEF Fund
<1>5. /\ before \in Balances /\ \A a \in Addresses \ {payer, vault} : before[a] = lamports[a]
  BY <1>1, <1>2, <1>3, <1>4, Typed, MoveLemma
<1>6. amount > 0 /\ before[vault] >= Esc!DepositCost(before, k, amount)
  BY <1>1, <1>2 DEF Esc!CanInitialize, Esc!ValidTerms
<1>7. PICK cost \in Nat : cost = Esc!DepositCost(before, k, amount) /\ before[k] + cost >= amount + Rent
  BY <1>3, <1>4, <1>5, ArbiterAssumption DEF Esc!DepositCost, Esc!TopUp, Balances
<1>8. lamports' = Esc!Move(before, vault, k, cost)
  BY <1>1, <1>2, <1>7 DEF Esc!Deposited
<1>9. /\ lamports' \in Balances /\ lamports'[k] = before[k] + cost
      /\ \A a \in Addresses \ {vault, k} : lamports'[a] = before[a]
  BY <1>3, <1>5, <1>6, <1>7, <1>8, MoveLemma
<1>10. Prog!IInv'
  <2>1. e \in Esc!EscrowAccounts /\ k = <<e.buyer, e.reference>> /\ e.amount = amount
    BY <1>1, <1>3, <1>4, <1>6 DEF Esc!EscrowAccounts, Wallets
  <2>2. lamports'[k] >= e.amount + Rent
    BY <1>7, <1>9, <2>1
  <2>3. \A a \in Keys \ {k} : lamports'[a] = lamports[a]
    <3>1. \A a \in Keys \ {k} : a \in Addresses \ {payer, vault, k}
      BY <1>3, AddressLemma
    <3> QED
      BY <1>5, <1>9, <3>1
  <2>4. lamports' \in [Prog!Addresses -> Nat]
    BY <1>9, SameBalances DEF Balances
  <2> QED
    BY <1>2, <1>3, <2>1, <2>2, <2>3, <2>4, ProgAssumed, SameBalances, Prog!OpeningKeepsIInv DEF EscrowInv
<1>11. Prog!Supply'
  <2>1. Held(before) = Held(lamports)
    BY <1>1, <1>2, <1>3, <1>4, Typed, MoveKeeps
  <2>2. k[1] = vault
    BY <1>1
  <2>3. Held(Esc!Deposited(before, k, amount)) = Held(before)
    BY <1>3, <1>4, <1>5, <1>6, <2>2, DepositKeeps
  <2>4. Held(lamports') = Held(lamports)
    BY <1>2, <2>1, <2>3
  <2> QED
    BY <2>4 DEF EscrowInv, Prog!Supply, Held
<1>12. Prog!Rents'
  BY <1>2, SameBalances DEF Prog!Rents, Prog!RentExempt, Esc!RentExempt
<1> QED
  BY <1>10, <1>11, <1>12 DEF EscrowInv

LEMMA ArbitrateRefundKeeps ==
    ASSUME EscrowInv, TypeOK, NEW arbiter \in Parties, NEW payer \in Parties, NEW r \in Refs,
           ArbitrateRefund(arbiter, payer, r)
    PROVE  EscrowInv'
<1>1. PICK vault, k, e, m : /\ vault = VaultOf[r] /\ k = Key(r) /\ e = escrows[k]
                            /\ m = Esc!Refunded(lamports, k, e)
  OBVIOUS
<1>2. /\ vault \in Wallets \ Parties /\ vault # payer /\ vault \in Addresses /\ k \in Keys /\ k \in Addresses
      /\ payer \in Addresses /\ k # vault /\ k # payer
  BY <1>1, AddressLemma DEF Wallets
<1>3. /\ e # NoEscrow /\ e.buyer = vault /\ Esc!RentExempt(lamports')
      /\ lamports' = Esc!Move(m, vault, payer, m[vault]) /\ escrows' = [escrows EXCEPT ![k] = NoEscrow]
      /\ now' = now
  BY <1>1 DEF ArbitrateRefund, MayRefund, GivenBack, Esc!CanRefund, Swept
<1>4. /\ m = Esc!Closed(lamports, k, vault) /\ m \in Balances
      /\ \A a \in Addresses \ {k, vault} : m[a] = lamports[a]
  BY <1>1, <1>2, <1>3, ClosedLemma, Typed DEF Esc!Refunded
<1>5. PICK x \in Nat : x = m[vault] /\ m[vault] >= x
  BY <1>2, <1>4 DEF Balances
<1>6. lamports' \in Balances /\ \A a \in Addresses \ {vault, payer} : lamports'[a] = m[a]
  BY <1>2, <1>3, <1>4, <1>5, MoveLemma
<1>7. Prog!IInv'
  <2>1. \A a \in Keys \ {k} : lamports'[a] = lamports[a]
    <3>1. \A a \in Keys \ {k} : a \in Addresses \ {payer, vault, k}
      BY <1>2, AddressLemma DEF Wallets
    <3> QED
      BY <1>4, <1>6, <3>1
  <2>2. lamports' \in [Prog!Addresses -> Nat] /\ escrows[k] # NoEscrow
    BY <1>1, <1>3, <1>6, SameBalances DEF Balances
  <2> QED
    BY <1>2, <1>3, <2>1, <2>2, ProgAssumed, SameBalances, Prog!ClosingKeepsIInv DEF EscrowInv
<1>8. Prog!Supply'
  <2>1. Held(m) = Held(lamports)
    BY <1>2, <1>4, Typed, CloseKeeps
  <2>2. Held(Esc!Move(m, vault, payer, x)) = Held(m)
    BY <1>2, <1>4, <1>5, MoveKeeps
  <2>3. Held(lamports') = Held(lamports)
    BY <1>3, <1>5, <2>1, <2>2
  <2> QED
    BY <2>3 DEF EscrowInv, Prog!Supply, Held
<1>9. Prog!Rents'
  BY <1>3, SameBalances DEF Prog!Rents, Prog!RentExempt, Esc!RentExempt
<1> QED
  BY <1>7, <1>8, <1>9 DEF EscrowInv

LEMMA NextEscrowInv == EscrowInv /\ TypeOK /\ [Next]_vars => EscrowInv'
  BY PartyStep, OpenOrderKeeps, ArbitrateRefundKeeps

\* What the arbiter gives back leaves the vault and the escrow empty, and what
\* the payer receives is no less than the escrow's rent.
LEMMA GivingBackIsRentExempt ==
    ASSUME EscrowInv, TypeOK, NEW payer \in Parties, NEW r \in Refs, IsOpen(r),
           escrows[Key(r)].buyer = VaultOf[r]
    PROVE  Esc!RentExempt(GivenBack(payer, r))
<1>1. PICK vault, k, e, m : /\ vault = VaultOf[r] /\ k = Key(r) /\ e = escrows[k]
                            /\ m = Esc!Refunded(lamports, k, e)
  OBVIOUS
<1>2. /\ vault \in Wallets \ Parties /\ vault # payer /\ vault \in Addresses /\ k \in Keys /\ k \in Addresses
      /\ payer \in Addresses /\ k # vault /\ k # payer
  BY <1>1, AddressLemma DEF Wallets
<1>3. e # NoEscrow /\ e.buyer = vault /\ e.amount \in Nat /\ lamports \in Balances
  BY <1>1, <1>2, Typed DEF IsOpen
<1>4. /\ m \in Balances /\ m[k] = 0 /\ m[vault] = lamports[vault] + lamports[k]
      /\ \A a \in Addresses \ {k, vault} : m[a] = lamports[a]
  BY <1>1, <1>2, <1>3, ClosedLemma DEF Esc!Refunded
<1>5. PICK x \in Nat : x = m[vault] /\ m[vault] >= x
  BY <1>2, <1>4 DEF Balances
<1>6. PICK g : g = GivenBack(payer, r)
  OBVIOUS
<1>7. g = Esc!Move(m, vault, payer, x)
  BY <1>1, <1>5, <1>6 DEF GivenBack, Swept
<1>8. /\ g \in Balances /\ g[vault] = m[vault] - x /\ g[payer] = m[payer] + x
      /\ \A a \in Addresses \ {vault, payer} : g[a] = m[a]
  BY <1>2, <1>4, <1>5, <1>7, MoveLemma
<1>9. lamports[k] >= e.amount + Rent /\ \A a \in Addresses : lamports[a] = 0 \/ lamports[a] >= MinBalance
  <2>1. k \in Prog!Open
    BY <1>1, <1>2, <1>3, SameBalances DEF Prog!Open
  <2> QED
    BY <1>1, <2>1, SameBalances DEF EscrowInv, Prog!IInv, Prog!Solvency, Prog!Rents, Prog!RentExempt
<1>10. Rent \in Nat /\ MinBalance \in Nat /\ MinBalance =< Rent
  BY ProgAssumed DEF Prog!RentAssumption
<1>11. lamports[vault] \in Nat /\ lamports[k] \in Nat /\ m[payer] \in Nat
  BY <1>2, <1>3, <1>4 DEF Balances
<1>12. g[vault] = 0
  BY <1>5, <1>8
<1>13. g[payer] >= MinBalance
  BY <1>3, <1>4, <1>5, <1>8, <1>9, <1>10, <1>11
<1>14. \A a \in Addresses \ {vault, payer} : g[a] = 0 \/ g[a] >= MinBalance
  BY <1>2, <1>4, <1>8, <1>9
<1> QED
  BY <1>6, <1>12, <1>13, <1>14, SameNames DEF Esc!RentExempt

LEMMA OrdersAreInReach == EscrowInv /\ TypeOK => ArbiterCanSettle
<1> SUFFICES ASSUME EscrowInv, TypeOK, config # Nobody, NEW r \in Refs, IsOpen(r)
             PROVE  LET e == escrows[Key(r)] IN
                    /\ lamports[e.seller] + e.amount >= MinBalance => MayRelease(config, e.seller, r)
                    /\ now >= e.deadline => \A payer \in Parties : MayRefund(config, payer, r)
  BY DEF ArbiterCanSettle
<1>1. PICK k, e : k = Key(r) /\ e = escrows[k] /\ k \in Prog!Open
  BY AddressLemma, SameBalances DEF IsOpen, Prog!Open
<1>2. e.buyer = VaultOf[r]
  <2>1. k = <<e.buyer, e.reference>>
    BY <1>1 DEF EscrowInv, Prog!IInv, Prog!KeyedByItsBuyer
  <2> QED
    BY <1>1, <2>1 DEF Key
<1>3. Prog!NeverLocked
  BY ProgAssumed, Prog!SettlementsExecute DEF EscrowInv
<1>4. /\ lamports[e.seller] + e.amount >= MinBalance => Esc!Releasable(VaultOf[r], e.seller, k)
      /\ now >= e.deadline => Esc!Refundable(VaultOf[r], k)
  BY <1>1, <1>2, <1>3, SameProgram DEF Prog!NeverLocked
<1>5. IsArbiter(config)
  BY DEF IsArbiter
<1>6. \A payer \in Parties : Esc!RentExempt(GivenBack(payer, r))
  BY <1>1, <1>2, GivingBackIsRentExempt
<1> QED
  BY <1>1, <1>4, <1>5, <1>6 DEF MayRelease, MayRefund, Esc!Refundable

\* No order outlives the arbiter's reach: what a release or, from the deadline
\* on, a refund to any party needs is always there.
THEOREM OrdersStayInReach == Spec => []ArbiterCanSettle
  BY TypeCorrect, InitEscrowInv, NextEscrowInv, OrdersAreInReach, PTL DEF Spec

=============================================================================
