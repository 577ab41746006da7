---------------------------- MODULE SignerProofs ----------------------------
(***************************************************************************)
(* For any number of requests in flight, references, wallets and restarts: *)
(* the signer loses sight of an open escrow only with a confirmation or    *)
(* with its memory, and overshoots its cap by no more than its overlapping *)
(* requests.                                                               *)
(***************************************************************************)
EXTENDS Signer, FiniteSetTheorems, TLAPS

\* What the argument needs of the state's types.
Types == /\ now \in Int
         /\ escrows \in [Chain!Keys -> Chain!EscrowAccounts \cup {NoEscrow}]
         /\ orders \in [Refs -> Orders \cup {NoOrder}]
         /\ handlers \in [Handlers -> Transactions \cup {Idle}]
         /\ orphans \subseteq Transactions

Busy(h) == handlers[h] # Idle
Deposits(h) == Busy(h) /\ handlers[h].op = "deposit"

\* A reference is deposited for once, so while its deposit is in flight it has
\* no order, and without an order nobody settles it.
DepositsAreAlone ==
    \A h \in Handlers : Deposits(h) =>
        /\ orders[handlers[h].reference] = NoOrder
        /\ \A g \in Handlers \ {h} : Busy(g) => handlers[g].reference # handlers[h].reference

\* Whatever the signer works on or remembers was asked for.
OnlyAskedFor ==
    /\ \A h \in Handlers : Busy(h) => handlers[h].reference \in asked
    /\ \A ref \in Refs : orders[ref] # NoOrder => ref \in asked

\* A settlement that landed has closed the escrow for good, unless a lost
\* deposit opens it again.
SettledIsSettled ==
    \A h \in Handlers : Busy(h) /\ ~Deposits(h) /\ handlers[h].landed =>
        handlers[h].reference \in lost \/ ~Funded(handlers[h].reference)

OrphansAreLost == \A tx \in orphans : tx.op = "deposit" => tx.reference \in lost

\* A handler has funded ref and is about to record it.
AboutToRecord(ref) ==
    \E h \in Handlers : Deposits(h) /\ handlers[h].landed /\ handlers[h].reference = ref

Reachable == \A ref \in Refs : Funded(ref) /\ ref \notin lost => orders[ref] # NoOrder \/ AboutToRecord(ref)

IInv == Types /\ DepositsAreAlone /\ OnlyAskedFor /\ SettledIsSettled /\ OrphansAreLost /\ Reachable

-----------------------------------------------------------------------------
\* References have addresses of their own.
LEMMA KeyLemma ==
    /\ \A ref \in Refs : Key(ref) \in Chain!Keys
    /\ \A r1, r2 \in Refs : Key(r1) = Key(r2) => r1 = r2
  BY SignerAssumption DEF Key, Chain!Keys

\* What a transaction does to the escrows: it opens or closes the one of its
\* reference and leaves the others alone.
LEMMA ExecutesLemma ==
    ASSUME Types, NEW tx \in Transactions, Executes(tx)
    PROVE  /\ now' = now
           /\ escrows' \in [Chain!Keys -> Chain!EscrowAccounts \cup {NoEscrow}]
           /\ \A ref \in Refs \ {tx.reference} : Funded(ref)' <=> Funded(ref)
           /\ tx.op # "deposit" => ~Funded(tx.reference)'
<1>1. PICK k : k = Key(tx.reference)
  OBVIOUS
<1>2. tx.reference \in Refs /\ tx.seller \in Wallets /\ tx.deadline \in Int /\ tx.amount \in Nat
      /\ tx.op \in {"deposit", "release", "refund"} /\ k \in Chain!Keys
  BY <1>1, KeyLemma DEF Transactions
<1>3. PICK e \in Chain!EscrowAccounts \cup {NoEscrow} :
          escrows' = [escrows EXCEPT ![k] = e] /\ now' = now /\ (tx.op # "deposit" => e = NoEscrow)
  <2>1. CASE tx.op = "deposit"
    <3>1. Chain!Initialize(Buyer, tx.seller, tx.reference, tx.amount, tx.deadline)
      BY <2>1 DEF Executes
    <3>2. PICK e : e = [buyer |-> Buyer, seller |-> tx.seller, amount |-> tx.amount,
                        reference |-> tx.reference, deadline |-> tx.deadline]
      OBVIOUS
    <3>3. escrows' = [escrows EXCEPT ![k] = e] /\ now' = now /\ tx.amount > 0
      BY <3>1, <3>2, <1>1 DEF Chain!Initialize, Chain!CanInitialize, Chain!ValidTerms, Key
    <3>4. e \in Chain!EscrowAccounts
      BY <1>2, <3>2, <3>3, SignerAssumption DEF Chain!EscrowAccounts
    <3>5. QED
      BY <2>1, <3>3, <3>4
  <2>2. CASE tx.op # "deposit"
    <3>1. escrows' = [escrows EXCEPT ![k] = NoEscrow] /\ now' = now
      BY <2>2, <1>1 DEF Executes, Chain!Release, Chain!Refund
    <3>2. QED
      BY <3>1
  <2>3. QED
    BY <2>1, <2>2
<1>4. escrows \in [Chain!Keys -> Chain!EscrowAccounts \cup {NoEscrow}]
  BY DEF Types
<1>5. escrows' \in [Chain!Keys -> Chain!EscrowAccounts \cup {NoEscrow}] /\ escrows'[k] = e
      /\ \A j \in Chain!Keys \ {k} : escrows'[j] = escrows[j]
  BY <1>2, <1>3, <1>4
<1>6. \A ref \in Refs \ {tx.reference} : Key(ref) # k /\ Key(ref) \in Chain!Keys
  BY <1>1, <1>2, KeyLemma
<1>7. \A ref \in Refs \ {tx.reference} : Funded(ref)' <=> Funded(ref)
  BY <1>5, <1>6 DEF Funded, Key
<1>8. tx.op # "deposit" => ~Funded(tx.reference)'
  BY <1>1, <1>3, <1>5 DEF Funded, Key
<1>9. QED
  BY <1>3, <1>5, <1>7, <1>8

LEMMA InitHolds == Init => IInv
<1>1. SUFFICES ASSUME Init PROVE IInv
  OBVIOUS
<1>2. \A h \in Handlers : ~Busy(h)
  BY <1>1 DEF Init, Busy
<1>3. \A ref \in Refs : ~Funded(ref)
  BY <1>1, KeyLemma DEF Init, Chain!Init, Funded
<1>4. Types
  BY <1>1 DEF Init, Chain!Init, Types
<1>5. QED
  BY <1>1, <1>2, <1>3, <1>4
  DEF IInv, DepositsAreAlone, OnlyAskedFor, SettledIsSettled, OrphansAreLost, Reachable, Init, Deposits

-----------------------------------------------------------------------------
(* Requests.                                                               *)

\* A handler that was free takes a request up.
LEMMA SendPreserves ==
    ASSUME IInv, NEW h \in Handlers, NEW tx \in Transactions,
           handlers[h] = Idle, handlers' = [handlers EXCEPT ![h] = tx], ~tx.landed,
           UNCHANGED <<now, escrows, orders, orphans, lost>>,
           asked \subseteq asked', tx.reference \in asked',
           tx.op = "deposit" => tx.reference \notin asked /\ orders[tx.reference] = NoOrder,
           tx.op # "deposit" => orders[tx.reference] # NoOrder
    PROVE  IInv'
<1>1. handlers'[h] = tx /\ \A g \in Handlers \ {h} : handlers'[g] = handlers[g]
  BY DEF IInv, Types
<1>2. /\ Busy(h)' /\ ~Busy(h) /\ (Deposits(h)' <=> tx.op = "deposit")
      /\ \A g \in Handlers \ {h} : (Busy(g)' <=> Busy(g)) /\ (Deposits(g)' <=> Deposits(g))
  BY <1>1, SignerAssumption DEF Busy, Deposits
<1>3. \A ref : Funded(ref)' <=> Funded(ref)
  BY DEF Funded, Key
<1>4. Types'
  BY DEF IInv, Types
<1>5. DepositsAreAlone'
  <2>1. SUFFICES ASSUME NEW d \in Handlers, Deposits(d)'
                 PROVE  /\ orders'[handlers'[d].reference] = NoOrder
                        /\ \A g \in Handlers \ {d} : Busy(g)' => handlers'[g].reference # handlers'[d].reference
    BY DEF DepositsAreAlone
  <2>2. CASE d = h
    BY <1>1, <1>2, <2>1, <2>2 DEF IInv, OnlyAskedFor
  <2>3. CASE d # h
    <3>1. orders[handlers[d].reference] = NoOrder
          /\ \A g \in Handlers \ {d} : Busy(g) => handlers[g].reference # handlers[d].reference
      BY <1>2, <2>1, <2>3 DEF IInv, DepositsAreAlone
    <3>2. handlers[d].reference \in asked
      BY <1>2, <2>1, <2>3 DEF IInv, OnlyAskedFor, Deposits
    <3>3. handlers[d].reference # tx.reference
      BY <3>1, <3>2
    <3>4. QED
      BY <1>1, <1>2, <2>3, <3>1, <3>3
  <2>4. QED
    BY <2>2, <2>3
<1>6. OnlyAskedFor'
  BY <1>1, <1>2 DEF IInv, OnlyAskedFor
<1>7. SettledIsSettled'
  BY <1>1, <1>2, <1>3 DEF IInv, SettledIsSettled
<1>8. OrphansAreLost'
  BY DEF IInv, OrphansAreLost
<1>9. Reachable'
  <2>1. \A ref \in Refs : AboutToRecord(ref) => AboutToRecord(ref)'
    BY <1>1, <1>2 DEF AboutToRecord, Deposits
  <2>2. QED
    BY <1>3, <2>1 DEF IInv, Reachable
<1>10. QED
  BY <1>4, <1>5, <1>6, <1>7, <1>8, <1>9 DEF IInv

LEMMA RequestPreserves ==
    ASSUME IInv, NEW h \in Handlers, NEW ref \in Refs,
           \/ \E seller \in Wallets :
                 \/ \E amountSol \in AskedAmounts, secs \in AskedSecs : Deposit(h, ref, seller, amountSol, secs)
                 \/ Release(h, ref, seller)
           \/ Refund(h, ref)
    PROVE  IInv'
<1>1. ASSUME NEW seller \in Wallets, NEW amountSol \in AskedAmounts, NEW secs \in AskedSecs,
             Deposit(h, ref, seller, amountSol, secs)
      PROVE  IInv'
  <2>1. PICK tx : tx = [op |-> "deposit", reference |-> ref, seller |-> seller, amount |-> amountSol,
                        deadline |-> now + secs, landed |-> FALSE]
    OBVIOUS
  <2>2. tx \in Transactions
    <3>1. amountSol \in Nat /\ now + secs \in Int
      BY <1>1, SignerAssumption DEF IInv, Types, Deposit, MayDeposit
    <3>2. QED
      BY <2>1, <3>1 DEF Transactions
  <2>3. /\ handlers[h] = Idle /\ handlers' = [handlers EXCEPT ![h] = tx]
        /\ UNCHANGED <<now, escrows, orders, orphans, lost>> /\ asked' = asked \cup {ref}
        /\ ref \notin asked /\ orders[ref] = NoOrder
    BY <1>1, <2>1 DEF Deposit, Send, MayDeposit, chain
  <2>4. ~tx.landed /\ tx.op = "deposit" /\ tx.reference = ref
    BY <2>1
  <2>5. QED
    BY <2>2, <2>3, <2>4, SendPreserves
<1>2. ASSUME NEW seller \in Wallets, Release(h, ref, seller) \/ Refund(h, ref)
      PROVE  IInv'
  <2>1. PICK op \in {"release", "refund"}, w \in Wallets : orders[ref] # NoOrder /\ Send(h, op, ref, w, 0, 0) /\ UNCHANGED history
    BY <1>2, SignerAssumption DEF Release, Refund
  <2>2. PICK tx : tx = [op |-> op, reference |-> ref, seller |-> w, amount |-> 0, deadline |-> 0, landed |-> FALSE]
    OBVIOUS
  <2>3. tx \in Transactions /\ ~tx.landed /\ tx.op # "deposit" /\ tx.reference = ref
    BY <2>2 DEF Transactions
  <2>4. /\ handlers[h] = Idle /\ handlers' = [handlers EXCEPT ![h] = tx]
        /\ UNCHANGED <<now, escrows, orders, orphans, lost, asked>>
    BY <2>1, <2>2 DEF Send, chain, history
  <2>5. ref \in asked
    BY <2>1 DEF IInv, OnlyAskedFor
  <2>6. QED
    BY <2>1, <2>3, <2>4, <2>5, SendPreserves
<1>3. QED
  BY <1>1, <1>2, SignerAssumption

-----------------------------------------------------------------------------
(* The cluster.                                                            *)

LEMMA LandPreserves == ASSUME IInv, NEW h \in Handlers, Land(h) PROVE IInv'
<1>1. PICK tx : tx = handlers[h]
  OBVIOUS
<1>2. tx \in Transactions /\ Busy(h) /\ Executes(tx) /\ ~tx.landed
  BY <1>1 DEF Land, IInv, Types, Busy
<1>3. PICK done : done = [tx EXCEPT !.landed = TRUE]
  OBVIOUS
<1>4. done \in Transactions /\ done.reference = tx.reference /\ done.op = tx.op /\ done.landed
  BY <1>2, <1>3 DEF Transactions
<1>5. handlers' = [handlers EXCEPT ![h] = done] /\ UNCHANGED <<orders, orphans, asked, lost>>
  BY <1>1, <1>3 DEF Land
<1>6. handlers'[h] = done /\ \A g \in Handlers \ {h} : handlers'[g] = handlers[g]
  BY <1>5 DEF IInv, Types
<1>7. \A g \in Handlers : /\ handlers'[g].reference = handlers[g].reference
                          /\ (Busy(g)' <=> Busy(g)) /\ (Deposits(g)' <=> Deposits(g))
  BY <1>1, <1>2, <1>4, <1>6, SignerAssumption DEF Busy, Deposits
<1>8. /\ now' = now
      /\ escrows' \in [Chain!Keys -> Chain!EscrowAccounts \cup {NoEscrow}]
      /\ \A ref \in Refs \ {tx.reference} : Funded(ref)' <=> Funded(ref)
      /\ tx.op # "deposit" => ~Funded(tx.reference)'
  BY <1>2, ExecutesLemma DEF IInv
<1>9. Types'
  BY <1>4, <1>5, <1>8 DEF IInv, Types
<1>10. DepositsAreAlone' /\ OnlyAskedFor' /\ OrphansAreLost'
  <2>1. DepositsAreAlone'
    BY <1>5, <1>7 DEF IInv, DepositsAreAlone
  <2>2. OnlyAskedFor' /\ OrphansAreLost'
    BY <1>5, <1>7 DEF IInv, OnlyAskedFor, OrphansAreLost
  <2>3. QED
    BY <2>1, <2>2
<1>11. SettledIsSettled'
  <2>1. ASSUME NEW g \in Handlers, NEW ref \in Refs, ref = handlers[g].reference,
               Busy(g), ~Deposits(g), handlers'[g].landed
        PROVE  ref \in lost' \/ ~Funded(ref)'
    <3>1. CASE g = h
      BY <1>1, <1>2, <1>8, <2>1, <3>1 DEF Deposits
    <3>2. CASE g # h /\ ref # tx.reference
      BY <1>5, <1>6, <1>8, <2>1, <3>2 DEF IInv, SettledIsSettled
    <3>3. CASE g # h /\ ref = tx.reference
      <4>1. ~Deposits(h)
        BY <1>1, <2>1, <3>3 DEF IInv, DepositsAreAlone
      <4>2. QED
        BY <1>1, <1>2, <1>8, <3>3, <4>1 DEF Deposits
    <3>4. QED
      BY <3>1, <3>2, <3>3
  <2>2. \A g \in Handlers : Busy(g) => handlers[g].reference \in Refs
    BY DEF IInv, Types, Busy, Transactions
  <2>3. \A g \in Handlers : Busy(g) /\ ~Deposits(g) /\ handlers'[g].landed =>
            handlers[g].reference \in lost' \/ escrows'[Key(handlers[g].reference)] = NoEscrow
    BY <2>1, <2>2 DEF Funded, Key
  <2>4. QED
    BY <1>7, <2>3 DEF SettledIsSettled, Funded, Key
<1>12. Reachable'
  <2>1. SUFFICES ASSUME NEW ref \in Refs, Funded(ref)', ref \notin lost'
                 PROVE  orders'[ref] # NoOrder \/ AboutToRecord(ref)'
    BY DEF Reachable
  <2>2. CASE ref # tx.reference
    <3>1. orders[ref] # NoOrder \/ AboutToRecord(ref)
      BY <1>5, <1>8, <2>1, <2>2 DEF IInv, Reachable
    <3>2. AboutToRecord(ref) => AboutToRecord(ref)'
      BY <1>4, <1>6, <1>7 DEF AboutToRecord
    <3>3. QED
      BY <1>5, <3>1, <3>2
  <2>3. CASE ref = tx.reference
    <3>1. Deposits(h)
      BY <1>1, <1>2, <1>8, <2>1, <2>3 DEF Deposits
    <3>2. AboutToRecord(ref)'
      BY <1>4, <1>6, <1>7, <2>3, <3>1 DEF AboutToRecord
    <3>3. QED
      BY <3>2
  <2>4. QED
    BY <2>2, <2>3
<1>13. QED
  BY <1>9, <1>10, <1>11, <1>12 DEF IInv

LEMMA LandOrphanPreserves == ASSUME IInv, NEW tx \in orphans, LandOrphan(tx) PROVE IInv'
<1>1. tx \in Transactions /\ Executes(tx) /\ (tx.op = "deposit" => tx.reference \in lost)
  BY DEF LandOrphan, IInv, Types, OrphansAreLost
<1>2. orphans' = orphans \ {tx} /\ UNCHANGED <<orders, handlers, asked, lost>>
  BY DEF LandOrphan, server
<1>3. /\ now' = now
      /\ escrows' \in [Chain!Keys -> Chain!EscrowAccounts \cup {NoEscrow}]
      /\ \A ref \in Refs \ {tx.reference} : Funded(ref)' <=> Funded(ref)
      /\ tx.op # "deposit" => ~Funded(tx.reference)'
  BY <1>1, ExecutesLemma DEF IInv
<1>4. \A ref \in Refs : Funded(ref)' => Funded(ref) \/ ref \in lost
  BY <1>1, <1>3
<1>5. \A h \in Handlers : (Busy(h)' <=> Busy(h)) /\ (Deposits(h)' <=> Deposits(h))
  BY <1>2 DEF Busy, Deposits
<1>6. \A h \in Handlers : Busy(h) => handlers[h].reference \in Refs
  BY DEF IInv, Types, Busy, Transactions
<1>7. Types'
  BY <1>2, <1>3 DEF IInv, Types
<1>8. DepositsAreAlone' /\ OnlyAskedFor' /\ OrphansAreLost'
  BY <1>2, <1>5 DEF IInv, DepositsAreAlone, OnlyAskedFor, OrphansAreLost
<1>9. SettledIsSettled'
  BY <1>2, <1>4, <1>5, <1>6 DEF IInv, SettledIsSettled, Funded, Key
<1>10. Reachable'
  BY <1>2, <1>4, <1>5 DEF IInv, Reachable, AboutToRecord
<1>11. QED
  BY <1>7, <1>8, <1>9, <1>10 DEF IInv

\* The clock, and what was sent and never executes.
LEMMA QuietPreserves ==
    ASSUME IInv, now' \in Int, orphans' \subseteq orphans, UNCHANGED <<escrows, server, asked, lost>>
    PROVE  IInv'
<1>1. UNCHANGED <<orders, handlers>>
  BY DEF server
<1>2. \A h \in Handlers : (Busy(h)' <=> Busy(h)) /\ (Deposits(h)' <=> Deposits(h))
  BY <1>1 DEF Busy, Deposits
<1>3. \A ref : Funded(ref)' <=> Funded(ref)
  BY DEF Funded, Key
<1>4. Types'
  BY <1>1 DEF IInv, Types
<1>5. DepositsAreAlone' /\ OnlyAskedFor' /\ OrphansAreLost'
  BY <1>1, <1>2 DEF IInv, DepositsAreAlone, OnlyAskedFor, OrphansAreLost
<1>6. SettledIsSettled' /\ Reachable'
  BY <1>1, <1>2, <1>3 DEF IInv, SettledIsSettled, Reachable, AboutToRecord
<1>7. QED
  BY <1>4, <1>5, <1>6 DEF IInv

-----------------------------------------------------------------------------
(* The handler resumes.                                                    *)

\* A handler becomes free: with what it knew recorded, lost, or of no use.
LEMMA FreePreserves ==
    ASSUME IInv, NEW h \in Handlers, Busy(h), handlers' = [handlers EXCEPT ![h] = Idle],
           UNCHANGED <<now, escrows, asked>>, lost \subseteq lost',
           orders' \in [Refs -> Orders \cup {NoOrder}], orphans' \subseteq Transactions, OrphansAreLost',
           \A ref \in Refs \ {handlers[h].reference} : orders'[ref] = orders[ref],
           orders'[handlers[h].reference] # NoOrder =>
               Deposits(h) \/ orders[handlers[h].reference] # NoOrder,
           Funded(handlers[h].reference) =>
               \/ handlers[h].reference \in lost' \/ orders'[handlers[h].reference] # NoOrder
               \/ ~handlers[h].landed /\ orders' = orders
               \/ ~Deposits(h) /\ orders' = orders
    PROVE  IInv'
<1>1. ~Busy(h)' /\ \A g \in Handlers \ {h} : handlers'[g] = handlers[g]
  BY DEF IInv, Types, Busy
<1>2. ~Deposits(h)' /\ \A g \in Handlers \ {h} : (Busy(g)' <=> Busy(g)) /\ (Deposits(g)' <=> Deposits(g))
  BY <1>1 DEF Busy, Deposits
<1>3. \A ref : Funded(ref)' <=> Funded(ref)
  BY DEF Funded, Key
<1>4. \A g \in Handlers : Busy(g) => handlers[g].reference \in Refs
  BY DEF IInv, Types, Busy, Transactions
<1>5. Types'
  BY DEF IInv, Types
<1>6. DepositsAreAlone'
  <2>1. SUFFICES ASSUME NEW d \in Handlers, Deposits(d)'
                 PROVE  /\ orders'[handlers'[d].reference] = NoOrder
                        /\ \A g \in Handlers \ {d} : Busy(g)' => handlers'[g].reference # handlers'[d].reference
    BY DEF DepositsAreAlone
  <2>2. d # h /\ Deposits(d) /\ handlers'[d] = handlers[d]
    BY <1>1, <1>2, <2>1
  <2>3. orders[handlers[d].reference] = NoOrder
        /\ \A g \in Handlers \ {d} : Busy(g) => handlers[g].reference # handlers[d].reference
    BY <2>2 DEF IInv, DepositsAreAlone
  <2>4. handlers[h].reference # handlers[d].reference /\ handlers[d].reference \in Refs
    BY <2>2, <2>3, <1>4 DEF Deposits
  <2>5. QED
    BY <1>1, <1>2, <2>2, <2>3, <2>4
<1>7. OnlyAskedFor'
  BY <1>1, <1>2, <1>4 DEF IInv, OnlyAskedFor, Deposits
<1>8. SettledIsSettled'
  BY <1>1, <1>2, <1>3 DEF IInv, SettledIsSettled
<1>9. Reachable'
  <2>1. SUFFICES ASSUME NEW ref \in Refs, Funded(ref), ref \notin lost'
                 PROVE  orders'[ref] # NoOrder \/ AboutToRecord(ref)'
    BY <1>3 DEF Reachable
  <2>2. orders[ref] # NoOrder \/ AboutToRecord(ref)
    BY <2>1 DEF IInv, Reachable
  <2>3. ASSUME NEW g \in Handlers, g # h, Deposits(g), handlers[g].landed, handlers[g].reference = ref
        PROVE  AboutToRecord(ref)'
    BY <2>3, <1>1, <1>2 DEF AboutToRecord
  <2>4. CASE ref # handlers[h].reference
    BY <2>2, <2>3, <2>4 DEF AboutToRecord
  <2>5. CASE ref = handlers[h].reference
    BY <2>1, <2>2, <2>3, <2>5 DEF AboutToRecord
  <2>6. QED
    BY <2>4, <2>5
<1>10. QED
  BY <1>5, <1>6, <1>7, <1>8, <1>9 DEF IInv

LEMMA ConfirmPreserves == ASSUME IInv, NEW h \in Handlers, Confirm(h) PROVE IInv'
<1>1. PICK tx : tx = handlers[h]
  OBVIOUS
<1>2. PICK memory : memory = Remembered(tx)
  OBVIOUS
<1>3. Busy(h) /\ tx.landed /\ tx \in Transactions
  BY <1>1 DEF Confirm, IInv, Types, Busy
<1>4. /\ orders' = [orders EXCEPT ![tx.reference] = memory] /\ handlers' = [handlers EXCEPT ![h] = Idle]
      /\ UNCHANGED <<now, escrows, asked, lost, orphans>>
  BY <1>1, <1>2 DEF Confirm, chain, history
<1>5. memory \in Orders \cup {NoOrder} /\ (memory # NoOrder <=> tx.op = "deposit") /\ tx.reference \in Refs
  BY <1>2, <1>3, SignerAssumption DEF Remembered, Orders, Transactions
<1>6. orders' \in [Refs -> Orders \cup {NoOrder}] /\ orders'[tx.reference] = memory
      /\ \A ref \in Refs \ {tx.reference} : orders'[ref] = orders[ref]
  BY <1>4, <1>5 DEF IInv, Types
<1>7. OrphansAreLost' /\ orphans' \subseteq Transactions
  BY <1>4 DEF IInv, Types, OrphansAreLost
<1>8. Deposits(h) <=> tx.op = "deposit"
  BY <1>1, <1>3 DEF Deposits
<1>9. Funded(tx.reference) => tx.reference \in lost' \/ orders'[tx.reference] # NoOrder
  BY <1>1, <1>3, <1>4, <1>5, <1>6, <1>8 DEF IInv, SettledIsSettled
<1>10. QED
  BY <1>1, <1>3, <1>4, <1>5, <1>6, <1>7, <1>8, <1>9, FreePreserves

LEMMA FailPreserves == ASSUME IInv, NEW h \in Handlers, Fail(h) PROVE IInv'
<1>1. /\ Busy(h) /\ ~handlers[h].landed /\ handlers' = [handlers EXCEPT ![h] = Idle]
      /\ UNCHANGED <<now, escrows, orders, orphans, asked, lost>>
  BY DEF Fail, Busy, chain, history
<1>2. OrphansAreLost' /\ orphans' \subseteq Transactions /\ orders' \in [Refs -> Orders \cup {NoOrder}]
  BY <1>1 DEF IInv, Types, OrphansAreLost
<1>3. QED
  BY <1>1, <1>2, FreePreserves

LEMMA LoseConfirmationPreserves == ASSUME IInv, NEW h \in Handlers, LoseConfirmation(h) PROVE IInv'
<1>1. PICK tx : tx = handlers[h]
  OBVIOUS
<1>2. /\ Busy(h) /\ tx \in Transactions /\ handlers' = [handlers EXCEPT ![h] = Idle]
      /\ orphans' \subseteq orphans \cup {tx}
      /\ lost' = IF tx.op = "deposit" THEN lost \cup {tx.reference} ELSE lost
      /\ UNCHANGED <<now, escrows, orders, asked>>
  BY <1>1 DEF LoseConfirmation, IInv, Types, Busy, chain
<1>3. OrphansAreLost' /\ orphans' \subseteq Transactions /\ orders' \in [Refs -> Orders \cup {NoOrder}]
  BY <1>2 DEF IInv, Types, OrphansAreLost
<1>4. lost \subseteq lost' /\ (Deposits(h) => tx.reference \in lost')
  BY <1>1, <1>2 DEF Deposits
<1>5. QED
  BY <1>1, <1>2, <1>3, <1>4, FreePreserves

\* All the process knew is lost.
LEMMA RestartPreserves == ASSUME IInv, Restart PROVE IInv'
<1>1. PICK busy : busy = {handlers[h] : h \in Handlers} \ {Idle}
  OBVIOUS
<1>2. /\ orders' = [r \in Refs |-> NoOrder] /\ handlers' = [h \in Handlers |-> Idle]
      /\ orphans' = orphans \cup {tx \in busy : ~tx.landed}
      /\ lost' = lost \cup {tx.reference : tx \in {t \in busy : t.op = "deposit"}}
                      \cup {r \in Refs : orders[r] # NoOrder}
      /\ UNCHANGED <<now, escrows, asked>>
  BY <1>1 DEF Restart, chain
<1>3. busy \subseteq Transactions
  BY <1>1 DEF IInv, Types
<1>4. \A h \in Handlers : ~Busy(h)' /\ ~Deposits(h)'
  BY <1>2 DEF Busy, Deposits
<1>5. Types'
  BY <1>2, <1>3 DEF IInv, Types
<1>6. DepositsAreAlone' /\ OnlyAskedFor' /\ SettledIsSettled'
  BY <1>2, <1>4 DEF DepositsAreAlone, OnlyAskedFor, SettledIsSettled
<1>7. OrphansAreLost'
  BY <1>2 DEF IInv, OrphansAreLost
<1>8. Reachable'
  <2>1. SUFFICES ASSUME NEW ref \in Refs, Funded(ref), ref \notin lost' PROVE FALSE
    BY <1>2 DEF Reachable, Funded, Key
  <2>2. AboutToRecord(ref)
    BY <1>2, <2>1 DEF IInv, Reachable
  <2>3. PICK h \in Handlers : Deposits(h) /\ handlers[h].reference = ref
    BY <2>2 DEF AboutToRecord
  <2>4. handlers[h] \in busy /\ handlers[h].op = "deposit"
    BY <1>1, <2>3 DEF Deposits, Busy
  <2>5. QED
    BY <1>2, <2>1, <2>3, <2>4
<1>9. QED
  BY <1>5, <1>6, <1>7, <1>8 DEF IInv

-----------------------------------------------------------------------------
LEMMA NextPreserves == IInv /\ [Next]_vars => IInv'
<1>1. SUFFICES ASSUME IInv, [Next]_vars PROVE IInv'
  OBVIOUS
<1>2. CASE UNCHANGED vars
  BY <1>1, <1>2, QuietPreserves DEF vars, chain, history, IInv, Types
<1>3. CASE Tick
  <2>1. now' \in Int /\ UNCHANGED <<escrows, server, orphans, asked, lost>>
    BY <1>1, <1>3 DEF Tick, Chain!Tick, history, IInv, Types
  <2>2. QED
    BY <1>1, <2>1, QuietPreserves
<1>4. CASE Restart
  BY <1>1, <1>4, RestartPreserves
<1>5. ASSUME NEW tx \in orphans, LandOrphan(tx) \/ DropOrphan(tx) PROVE IInv'
  <2>1. CASE DropOrphan(tx)
    BY <1>1, <2>1, QuietPreserves DEF DropOrphan, chain, history, IInv, Types
  <2>2. QED
    BY <1>1, <1>5, <2>1, LandOrphanPreserves
<1>6. ASSUME NEW h \in Handlers, Land(h) \/ Confirm(h) \/ Fail(h) \/ LoseConfirmation(h) PROVE IInv'
  BY <1>1, <1>6, LandPreserves, ConfirmPreserves, FailPreserves, LoseConfirmationPreserves
<1>7. ASSUME NEW h \in Handlers, NEW ref \in Refs,
             \/ \E seller \in Wallets :
                   \/ \E amountSol \in AskedAmounts, secs \in AskedSecs : Deposit(h, ref, seller, amountSol, secs)
                   \/ Release(h, ref, seller)
             \/ Refund(h, ref)
      PROVE  IInv'
  BY <1>1, <1>7, RequestPreserves
<1>8. QED
  BY <1>1, <1>2, <1>3, <1>4, <1>5, <1>6, <1>7 DEF Next

\* Money is out of the signer's reach only by a lost confirmation or a
\* restart, however many requests are in flight.
THEOREM NothingElseStrands == Spec => []StrandedOnlyByLoss
<1>1. IInv => StrandedOnlyByLoss
  BY DEF IInv, Reachable, AboutToRecord, StrandedOnlyByLoss, InFlight, Deposits, Busy
<1>2. QED
  BY <1>1, InitHolds, NextPreserves, PTL DEF Spec

-----------------------------------------------------------------------------
(* What is proved of the escrow program holds of the signer's cluster: what  *)
(* a transaction of the signer does is a step of that program.               *)

Prog == INSTANCE EscrowProofs WITH Amounts <- Nat, Deadlines <- Int, Gifts <- {}

LEMMA ProgAssumed ==
    /\ Prog!KeysAreNotWallets /\ Prog!RentAssumption /\ Prog!InputAssumption
    /\ Prog!InitialAssumption /\ Prog!FiniteAssumption /\ Prog!SupplyAssumption
    /\ Prog!NoEscrowAssumption
<1>1. Prog!KeysAreNotWallets
  BY ChainAssumption DEF ChainAssumption, Chain!KeysAreNotWallets, Prog!KeysAreNotWallets, Chain!Keys, Prog!Keys
<1>2. Prog!RentAssumption
  BY ChainAssumption DEF Chain!RentAssumption, Prog!RentAssumption
<1>3. Prog!InputAssumption
  BY ChainAssumption DEF Chain!InputAssumption, Prog!InputAssumption
<1>4. Prog!InitialAssumption
  BY ChainAssumption DEF Chain!InitialAssumption, Prog!InitialAssumption
<1>5. Prog!FiniteAssumption
  BY ChainAssumption DEF Chain!FiniteAssumption, Prog!FiniteAssumption, Chain!IsFiniteSet, Prog!IsFiniteSet
<1>6. Prog!SupplyAssumption <=> Chain!SupplyAssumption
  BY DEF Chain!SupplyAssumption, Prog!SupplyAssumption, Chain!FoldFunction, Prog!FoldFunction,
     Chain!FoldFunctionOnSet, Prog!FoldFunctionOnSet, Chain!MapThenFoldSet, Prog!MapThenFoldSet
<1>7. Prog!NoEscrowAssumption
  BY ChainAssumption DEF Chain!NoEscrowAssumption, Prog!NoEscrowAssumption,
     Chain!EscrowAccounts, Prog!EscrowAccounts, Chain!Deals, Prog!Deals
<1> QED
  BY <1>1, <1>2, <1>3, <1>4, <1>5, <1>6, <1>7, ChainAssumption

LEMMA SameProgram ==
    /\ Prog!Keys = Chain!Keys
    /\ Prog!TypeOK <=> Chain!TypeOK
    /\ Prog!Init <=> Chain!Init
    /\ \A b, s, r, a, d : Prog!Initialize(b, s, r, a, d) <=> Chain!Initialize(b, s, r, a, d)
    /\ \A b, s, k : Prog!Release(b, s, k) <=> Chain!Release(b, s, k)
    /\ \A b, k : Prog!Refund(b, k) <=> Chain!Refund(b, k)
    /\ Prog!Tick <=> Chain!Tick
<1> USE DEF Chain!Keys, Prog!Keys, Chain!Addresses, Prog!Addresses,
            Chain!RentExempt, Prog!RentExempt, Chain!Move, Prog!Move, Chain!Closed, Prog!Closed
<1>1. Prog!Keys = Chain!Keys
  OBVIOUS
<1>2. Prog!TypeOK <=> Chain!TypeOK
  BY DEF Prog!TypeOK, Chain!TypeOK, Prog!EscrowAccounts, Chain!EscrowAccounts
<1>3. Prog!Init <=> Chain!Init
  BY DEF Prog!Init, Chain!Init
<1>4. ASSUME NEW b, NEW s, NEW r, NEW a, NEW d
      PROVE  Prog!Initialize(b, s, r, a, d) <=> Chain!Initialize(b, s, r, a, d)
  BY DEF Prog!Initialize, Chain!Initialize, Prog!CanInitialize, Chain!CanInitialize,
         Prog!ValidTerms, Chain!ValidTerms, Prog!Vacant, Chain!Vacant, Prog!DepositCost, Chain!DepositCost,
         Prog!TopUp, Chain!TopUp, Prog!Deposited, Chain!Deposited
<1>5. ASSUME NEW b, NEW s, NEW k PROVE Prog!Release(b, s, k) <=> Chain!Release(b, s, k)
  BY DEF Prog!Release, Chain!Release, Prog!Releasable, Chain!Releasable, Prog!CanRelease, Chain!CanRelease,
         Prog!HasOneSeller, Chain!HasOneSeller, Prog!Released, Chain!Released
<1>6. ASSUME NEW b, NEW k PROVE Prog!Refund(b, k) <=> Chain!Refund(b, k)
  BY DEF Prog!Refund, Chain!Refund, Prog!Refundable, Chain!Refundable, Prog!CanRefund, Chain!CanRefund,
         Prog!DeadlineReached, Chain!DeadlineReached, Prog!Refunded, Chain!Refunded
<1>7. Prog!Tick <=> Chain!Tick
  BY DEF Prog!Tick, Chain!Tick
<1> QED
  BY <1>1, <1>2, <1>3, <1>4, <1>5, <1>6, <1>7, Zenon

LEMMA ExecutesIsAStep ==
    ASSUME NEW tx \in Transactions, Executes(tx)
    PROVE  Prog!Next
<1>1. /\ Buyer \in Wallets /\ tx.seller \in Wallets /\ tx.reference \in Refs /\ tx.amount \in Nat
      /\ tx.deadline \in Int /\ Key(tx.reference) \in Prog!Keys
  BY SignerAssumption, KeyLemma, SameProgram DEF Transactions
<1>2. \/ Prog!Initialize(Buyer, tx.seller, tx.reference, tx.amount, tx.deadline)
      \/ Prog!Release(Buyer, tx.seller, Key(tx.reference))
      \/ Prog!Refund(Buyer, Key(tx.reference))
  BY SameProgram DEF Executes
<1> QED
  BY <1>1, <1>2 DEF Prog!Next

LEMMA ClusterStep == Types /\ Prog!IInv /\ [Next]_vars => Prog!IInv'
<1> SUFFICES ASSUME Types, Prog!IInv, [Next]_vars PROVE Prog!IInv'
  OBVIOUS
<1>1. [Prog!Next]_Prog!vars
  <2>1. CASE UNCHANGED chain
    BY <2>1 DEF chain, Prog!vars
  <2>2. ASSUME NEW h \in Handlers, Land(h) PROVE Prog!Next
    BY <2>2, ExecutesIsAStep DEF Land, Types
  <2>3. ASSUME NEW tx \in orphans, LandOrphan(tx) PROVE Prog!Next
    BY <2>3, ExecutesIsAStep DEF LandOrphan, Types
  <2>4. CASE Tick
    BY <2>4, SameProgram DEF Tick, Prog!Next
  <2> QED
    BY <2>1, <2>2, <2>3, <2>4
    DEF Next, vars, Deposit, Release, Refund, Send, Confirm, Fail, LoseConfirmation, DropOrphan, Restart
<1> QED
  BY <1>1, ProgAssumed, Prog!NextIInv

LEMMA InitCluster == Init => Prog!IInv
  BY ProgAssumed, SameProgram, Prog!InitIInv DEF Init

-----------------------------------------------------------------------------
(* What the signer counts.                                                   *)

\* What a transaction adds to the count when it is confirmed, and what it has
\* cost already.
Adds(tx) == IF tx # Idle /\ tx.op = "deposit" THEN tx.amount ELSE 0
Cost(tx) == IF tx # Idle /\ tx.op = "deposit" /\ tx.landed THEN tx.amount ELSE 0

Coming == Prog!Total([h \in Handlers |-> Adds(handlers[h])], Handlers)
Spent == Prog!Total([h \in Handlers |-> Cost(handlers[h])], Handlers)

AllSeen == lost = {} /\ restarts = 0

\* The check before the await is passed with less than a cap counted, so what
\* is counted and what is coming never exceed one cap per handler, nor, one
\* deposit at a time, one cap.  What is counted was funded, and as long as
\* every confirmation is seen the count leaves nothing out.
CInv == /\ depositedSol \in Nat /\ funded \in Nat /\ restarts \in Nat
        /\ \A h \in Handlers : Deposits(h) => handlers[h].amount =< MAX_SOL
        /\ depositedSol + Coming =< Cardinality(Handlers) * MAX_SOL
        /\ depositedSol + Spent =< funded
        /\ AllSeen => funded = depositedSol + Spent
        /\ AllSeen /\ ~overlapped => depositedSol + Coming =< MAX_SOL

\* Finite sets are the same there.
LEMMA SameSets ==
    /\ \A s : Prog!IsFiniteSet(s) <=> IsFiniteSet(s)
    /\ \A s : Prog!Cardinality(s) = Cardinality(s)
  BY DEF Prog!IsFiniteSet, IsFiniteSet, Prog!Cardinality, Cardinality

LEMMA AmountsAreNat ==
    \A tx \in Transactions \cup {Idle} : Adds(tx) \in Nat /\ Cost(tx) \in Nat /\ Cost(tx) =< Adds(tx)
  BY DEF Adds, Cost, Transactions

LEMMA Counts ==
    ASSUME Types
    PROVE  /\ Coming \in Nat /\ Spent \in Nat /\ Spent =< Coming
           /\ IsFiniteSet(Handlers) /\ Cardinality(Handlers) * MAX_SOL \in Nat
<1>1. \A h \in Handlers : Adds(handlers[h]) \in Nat /\ Cost(handlers[h]) \in Nat /\ Cost(handlers[h]) =< Adds(handlers[h])
  BY AmountsAreNat DEF Types
<1>2. IsFiniteSet(Handlers) /\ Cardinality(Handlers) \in Nat /\ MAX_SOL \in Nat
  BY SignerAssumption, FS_CardinalityType
<1>3. Coming \in Nat /\ Spent \in Nat
  BY <1>1, <1>2, ProgAssumed, SameSets, Prog!TotalType DEF Coming, Spent
<1>4. Spent =< Coming
  BY <1>1, <1>2, ProgAssumed, SameSets, Prog!TotalBelow DEF Coming, Spent
<1> QED
  BY <1>2, <1>3, <1>4

\* One handler takes up, or lets go, one transaction.
LEMMA OneChanges ==
    ASSUME Types, NEW h \in Handlers, NEW tx \in Transactions \cup {Idle},
           handlers' = [handlers EXCEPT ![h] = tx]
    PROVE  /\ Coming' \in Nat /\ Spent' \in Nat
           /\ Coming' + Adds(handlers[h]) = Coming + Adds(tx)
           /\ Spent' + Cost(handlers[h]) = Spent + Cost(tx)
<1> DEFINE a == [g \in Handlers |-> Adds(handlers[g])]
           b == [g \in Handlers |-> Adds(handlers'[g])]
           c == [g \in Handlers |-> Cost(handlers[g])]
           d == [g \in Handlers |-> Cost(handlers'[g])]
<1>1. handlers'[h] = tx /\ \A g \in Handlers \ {h} : handlers'[g] = handlers[g]
  BY DEF Types
<1>2. \A g \in Handlers : handlers[g] \in Transactions \cup {Idle} /\ handlers'[g] \in Transactions \cup {Idle}
  BY <1>1 DEF Types
<1>3. \A g \in Handlers : a[g] \in Nat /\ b[g] \in Nat /\ c[g] \in Nat /\ d[g] \in Nat
  BY <1>2, AmountsAreNat
<1>4. \A g \in Handlers \ {h} : b[g] = a[g] /\ d[g] = c[g]
  BY <1>1
<1>5. a[h] = Adds(handlers[h]) /\ b[h] = Adds(tx) /\ c[h] = Cost(handlers[h]) /\ d[h] = Cost(tx)
  BY <1>1
<1>6. /\ Coming = Prog!Total(a, Handlers) /\ Coming' = Prog!Total(b, Handlers)
      /\ Spent = Prog!Total(c, Handlers) /\ Spent' = Prog!Total(d, Handlers)
  BY DEF Coming, Spent
<1> HIDE DEF a, b, c, d
<1>7. IsFiniteSet(Handlers)
  BY SignerAssumption
<1>8. Prog!Total(b, Handlers) \in Nat /\ Prog!Total(d, Handlers) \in Nat
  BY <1>3, <1>7, ProgAssumed, SameSets, Prog!TotalType
<1>9. IsFiniteSet(Handlers \ {h})
  BY <1>7, FS_Subset
<1>10. /\ Prog!Total(a, Handlers) = a[h] + Prog!Total(a, Handlers \ {h})
       /\ Prog!Total(b, Handlers) = b[h] + Prog!Total(b, Handlers \ {h})
       /\ Prog!Total(c, Handlers) = c[h] + Prog!Total(c, Handlers \ {h})
       /\ Prog!Total(d, Handlers) = d[h] + Prog!Total(d, Handlers \ {h})
  BY <1>3, <1>7, ProgAssumed, SameSets, Prog!TotalOut
<1>11. /\ Prog!Total(b, Handlers \ {h}) = Prog!Total(a, Handlers \ {h})
       /\ Prog!Total(d, Handlers \ {h}) = Prog!Total(c, Handlers \ {h})
  BY <1>4, <1>9, ProgAssumed, SameSets, Prog!TotalSame
<1>12. Prog!Total(a, Handlers \ {h}) \in Nat /\ Prog!Total(c, Handlers \ {h}) \in Nat
  BY <1>3, <1>9, ProgAssumed, SameSets, Prog!TotalType
<1>13. a[h] \in Nat /\ b[h] \in Nat /\ c[h] \in Nat /\ d[h] \in Nat
  BY <1>3
<1> QED
  BY <1>5, <1>6, <1>8, <1>10, <1>11, <1>12, <1>13

\* A free handler leaves room for one more cap, and one alone counts nothing.
LEMMA RoomForOne ==
    ASSUME Types, CInv, NEW h \in Handlers, handlers[h] = Idle
    PROVE  /\ Coming + MAX_SOL =< Cardinality(Handlers) * MAX_SOL
           /\ InFlight("deposit") = {} => Coming = 0
<1> DEFINE a == [g \in Handlers |-> Adds(handlers[g])]
<1>1. \A g \in Handlers : a[g] \in Nat /\ a[g] =< MAX_SOL
  <2> SUFFICES ASSUME NEW g \in Handlers PROVE a[g] \in Nat /\ a[g] =< MAX_SOL
    OBVIOUS
  <2>1. Adds(handlers[g]) \in Nat
    BY AmountsAreNat DEF Types
  <2>2. Adds(handlers[g]) =< MAX_SOL
    BY SignerAssumption DEF CInv, Adds, Deposits, Busy
  <2> QED BY <2>1, <2>2
<1>2. a[h] = 0
  BY DEF Adds
<1>3. Coming = Prog!Total(a, Handlers)
  BY DEF Coming
<1>4. InFlight("deposit") = {} => \A g \in Handlers : a[g] = 0
  BY DEF InFlight, Adds
<1> HIDE DEF a
<1>5. IsFiniteSet(Handlers) /\ IsFiniteSet(Handlers \ {h}) /\ MAX_SOL \in Nat
  BY SignerAssumption, FS_Subset
<1>6. PICK n \in Nat : n = Cardinality(Handlers \ {h}) /\ Cardinality(Handlers) = n + 1
  BY <1>5, FS_RemoveElement, FS_CardinalityType
<1>7. Prog!Total(a, Handlers) = a[h] + Prog!Total(a, Handlers \ {h})
  BY <1>1, <1>5, ProgAssumed, SameSets, Prog!TotalOut
<1>8. Prog!Total(a, Handlers \ {h}) =< n * MAX_SOL /\ Prog!Total(a, Handlers \ {h}) \in Nat
  BY <1>1, <1>5, <1>6, ProgAssumed, SameSets, Prog!TotalAtMost, Prog!TotalType
<1>9. (n + 1) * MAX_SOL = n * MAX_SOL + MAX_SOL /\ n * MAX_SOL \in Nat
  BY <1>5, <1>6
<1>10. Coming + MAX_SOL =< Cardinality(Handlers) * MAX_SOL
  <2>1. Coming = Prog!Total(a, Handlers \ {h})
    BY <1>2, <1>3, <1>7, <1>8
  <2>2. Cardinality(Handlers) * MAX_SOL = n * MAX_SOL + MAX_SOL
    BY <1>6, <1>9, Zenon
  <2>3. PICK p \in Nat : p = n * MAX_SOL
    BY <1>9
  <2> QED
    BY <1>5, <1>8, <2>1, <2>2, <2>3
<1>11. ASSUME InFlight("deposit") = {} PROVE Coming = 0
  <2>1. \A g \in Handlers \ {} : a[g] = 0
    BY <1>4, <1>11
  <2>2. Prog!Total(a, Handlers) = Prog!Total(a, {})
    BY <1>1, <1>5, <2>1, ProgAssumed, SameSets, Prog!TotalWithoutZeros
  <2>3. Prog!Total(a, {}) = 0
    BY ProgAssumed, SameSets, Prog!TotalOfNone
  <2> QED BY <1>3, <2>2, <2>3
<1> QED BY <1>10, <1>11

LEMMA InitCounts == Init => CInv
<1> SUFFICES ASSUME Init PROVE CInv
  OBVIOUS
<1>1. Types
  BY InitHolds DEF IInv
<1>2. \A h \in Handlers : Adds(handlers[h]) = 0 /\ Cost(handlers[h]) = 0 /\ ~Deposits(h)
  BY DEF Init, Adds, Cost, Deposits, Busy
<1>3. Coming = 0 /\ Spent = 0
  <2> DEFINE a == [g \in Handlers |-> Adds(handlers[g])]
             c == [g \in Handlers |-> Cost(handlers[g])]
  <2>1. \A g \in Handlers : a[g] = 0 /\ c[g] = 0
    BY <1>2
  <2>2. Coming = Prog!Total(a, Handlers) /\ Spent = Prog!Total(c, Handlers)
    BY DEF Coming, Spent
  <2> HIDE DEF a, c
  <2>3. IsFiniteSet(Handlers)
    BY SignerAssumption
  <2>4. Prog!Total(a, Handlers) = Prog!Total(a, {}) /\ Prog!Total(c, Handlers) = Prog!Total(c, {})
    BY <2>1, <2>3, ProgAssumed, SameSets, Prog!TotalWithoutZeros
  <2>5. Prog!Total(a, {}) = 0 /\ Prog!Total(c, {}) = 0
    BY ProgAssumed, Prog!TotalOfNone
  <2> QED
    BY <2>2, <2>4, <2>5
<1>4. Cardinality(Handlers) * MAX_SOL \in Nat /\ MAX_SOL \in Nat
  BY <1>1, Counts, SignerAssumption
<1>5. depositedSol = 0 /\ funded = 0 /\ restarts = 0
  BY DEF Init
<1> QED
  BY <1>2, <1>3, <1>4, <1>5 DEF CInv

\* The amounts in flight stay within the cap when one handler changes.
LEMMA AmountsStay ==
    ASSUME Types, CInv, NEW h \in Handlers, NEW tx \in Transactions \cup {Idle},
           handlers' = [handlers EXCEPT ![h] = tx],
           tx # Idle /\ tx.op = "deposit" => tx.amount =< MAX_SOL
    PROVE  \A g \in Handlers : Deposits(g)' => handlers'[g].amount =< MAX_SOL
<1>1. handlers'[h] = tx /\ \A g \in Handlers \ {h} : handlers'[g] = handlers[g]
  BY DEF Types
<1> QED
  BY <1>1 DEF CInv, Deposits, Busy

LEMMA DepositCounts ==
    ASSUME Types, CInv, NEW h \in Handlers, NEW ref \in Refs, NEW seller \in Wallets,
           NEW amountSol \in AskedAmounts, NEW secs \in AskedSecs,
           Deposit(h, ref, seller, amountSol, secs)
    PROVE  CInv'
<1>1. PICK tx : tx = [op |-> "deposit", reference |-> ref, seller |-> seller, amount |-> amountSol,
                      deadline |-> now + secs, landed |-> FALSE]
  OBVIOUS
<1>2. amountSol \in Nat /\ depositedSol + amountSol =< MAX_SOL /\ handlers[h] = Idle
  BY SignerAssumption DEF Deposit, MayDeposit, WithinCap, Send
<1>3. tx \in Transactions
  <2>1. now + secs \in Int
    BY SignerAssumption DEF Types
  <2> QED
    BY <1>1, <1>2, <2>1 DEF Transactions
<1>4. /\ handlers' = [handlers EXCEPT ![h] = tx] /\ UNCHANGED <<depositedSol, funded, restarts, lost>>
      /\ overlapped' = (overlapped \/ InFlight("deposit") # {} \/ lost # {})
  BY <1>1 DEF Deposit, Send
<1>5. Adds(handlers[h]) = 0 /\ Cost(handlers[h]) = 0
  BY <1>2 DEF Adds, Cost
<1>6. Adds(tx) = amountSol /\ Cost(tx) = 0 /\ (tx.op = "deposit" => tx.amount = amountSol)
  BY <1>1, <1>3, SignerAssumption DEF Adds, Cost
<1>7. Coming \in Nat /\ Spent \in Nat /\ Cardinality(Handlers) * MAX_SOL \in Nat /\ MAX_SOL \in Nat
  BY Counts, SignerAssumption
<1>8. Coming' = Coming + amountSol /\ Spent' = Spent
  <2>1. /\ Coming' \in Nat /\ Spent' \in Nat
        /\ Coming' + Adds(handlers[h]) = Coming + Adds(tx)
        /\ Spent' + Cost(handlers[h]) = Spent + Cost(tx)
    BY <1>3, <1>4, OneChanges
  <2> QED
    BY <1>5, <1>6, <1>7, <2>1
<1>9. /\ Coming + MAX_SOL =< Cardinality(Handlers) * MAX_SOL
      /\ InFlight("deposit") = {} => Coming = 0
  BY <1>2, RoomForOne
<1>10. depositedSol \in Nat /\ funded \in Nat /\ restarts \in Nat
  BY DEF CInv
<1>11. amountSol =< MAX_SOL
  BY <1>2, <1>7, <1>10
<1>12. \A g \in Handlers : Deposits(g)' => handlers'[g].amount =< MAX_SOL
  BY <1>3, <1>4, <1>6, <1>11, AmountsStay
<1>13. depositedSol' + Coming' =< Cardinality(Handlers) * MAX_SOL
  BY <1>2, <1>4, <1>7, <1>8, <1>9, <1>10
<1>14. AllSeen' /\ ~overlapped' => depositedSol' + Coming' =< MAX_SOL
  <2>1. ASSUME Coming = 0 PROVE depositedSol' + Coming' =< MAX_SOL
    BY <1>2, <1>4, <1>8, <1>10, <2>1
  <2>2. ~overlapped' => InFlight("deposit") = {}
    BY <1>4, Zenon
  <2> QED
    BY <1>9, <2>1, <2>2, Zenon
<1>15. depositedSol' + Spent' =< funded' /\ (AllSeen' => funded' = depositedSol' + Spent')
  BY <1>4, <1>8 DEF CInv, AllSeen
<1> QED
  BY <1>4, <1>10, <1>12, <1>13, <1>14, <1>15 DEF CInv

\* One share of a total changes: from an inequality of the shares to one of the
\* totals.
LEMMA Shift ==
    \A d, e, a, b, c, t \in Nat : t + a = c + b /\ e + b =< d + a => e + t =< d + c
  OBVIOUS

Shifts(d, e, a, b) ==
    \A c, t, f, g \in Nat :
       t + a = c + b =>
       /\ (e + b) + f =< (d + a) + g /\ d + c =< f => e + t =< g
       /\ (e + b) + f = (d + a) + g /\ f = d + c => g = e + t

LEMMA ShiftAgainst == \A d, e, a, b \in Nat : Shifts(d, e, a, b)
  BY DEF Shifts

LEMMA Shares ==
    ASSUME NEW h, NEW tx, Types, CInv,
           Adds(handlers[h]) \in Nat, Cost(handlers[h]) \in Nat, Adds(tx) \in Nat, Cost(tx) \in Nat,
           depositedSol' \in Nat, funded' \in Nat, Coming' \in Nat, Spent' \in Nat,
           Coming' + Adds(handlers[h]) = Coming + Adds(tx),
           Spent' + Cost(handlers[h]) = Spent + Cost(tx),
           depositedSol' + Adds(tx) =< depositedSol + Adds(handlers[h]),
           (depositedSol' + Cost(tx)) + funded =< (depositedSol + Cost(handlers[h])) + funded'
    PROVE  /\ depositedSol' + Coming' =< depositedSol + Coming
           /\ depositedSol' + Spent' =< funded'
           /\ /\ AllSeen
              /\ (depositedSol' + Cost(tx)) + funded = (depositedSol + Cost(handlers[h])) + funded'
              => funded' = depositedSol' + Spent'
<1>1. Coming \in Nat /\ Spent \in Nat
  BY Counts
<1>2. /\ depositedSol \in Nat /\ funded \in Nat /\ depositedSol + Spent =< funded
      /\ AllSeen => funded = depositedSol + Spent
  BY DEF CInv
<1>3. depositedSol' + Coming' =< depositedSol + Coming
  <2>1. \A c, t \in Nat : t + Adds(handlers[h]) = c + Adds(tx) => depositedSol' + t =< depositedSol + c
    BY <1>2, Shift, Zenon
  <2> QED
    BY <1>1, <2>1, Zenon
<1>4. Shifts(depositedSol, depositedSol', Cost(handlers[h]), Cost(tx))
  BY <1>2, ShiftAgainst, Zenon
<1>5. /\ depositedSol' + Spent' =< funded'
      /\ /\ (depositedSol' + Cost(tx)) + funded = (depositedSol + Cost(handlers[h])) + funded'
         /\ funded = depositedSol + Spent
         => funded' = depositedSol' + Spent'
  BY <1>1, <1>2, <1>4, Zenon DEF Shifts
<1> QED BY <1>2, <1>3, <1>5, Zenon

\* One handler changes and neither what is counted nor what is coming grows.
LEMMA NoMoreCounts ==
    ASSUME Types, CInv, NEW h \in Handlers, NEW tx \in Transactions \cup {Idle},
           handlers' = [handlers EXCEPT ![h] = tx],
           tx # Idle /\ tx.op = "deposit" => tx.amount =< MAX_SOL,
           depositedSol' \in Nat, funded' \in Nat, restarts' = restarts,
           AllSeen' => AllSeen, overlapped' = overlapped,
           depositedSol' + Adds(tx) =< depositedSol + Adds(handlers[h]),
           (depositedSol' + Cost(tx)) + funded =< (depositedSol + Cost(handlers[h])) + funded',
           AllSeen' => (depositedSol' + Cost(tx)) + funded = (depositedSol + Cost(handlers[h])) + funded'
    PROVE  CInv'
<1>1. /\ Coming' \in Nat /\ Spent' \in Nat
      /\ Coming' + Adds(handlers[h]) = Coming + Adds(tx)
      /\ Spent' + Cost(handlers[h]) = Spent + Cost(tx)
  BY OneChanges
<1>2. /\ Coming \in Nat /\ Spent \in Nat
      /\ Adds(handlers[h]) \in Nat /\ Cost(handlers[h]) \in Nat /\ Adds(tx) \in Nat /\ Cost(tx) \in Nat
  BY Counts, AmountsAreNat DEF Types
<1>3. /\ depositedSol \in Nat /\ restarts' \in Nat
      /\ depositedSol + Coming =< Cardinality(Handlers) * MAX_SOL
      /\ AllSeen /\ ~overlapped => depositedSol + Coming =< MAX_SOL
  BY DEF CInv
<1>4. Cardinality(Handlers) * MAX_SOL \in Nat /\ MAX_SOL \in Nat
  BY Counts, SignerAssumption
<1>5. /\ depositedSol' + Coming' =< depositedSol + Coming
      /\ depositedSol' + Spent' =< funded'
      /\ AllSeen' => funded' = depositedSol' + Spent'
  BY <1>1, <1>2, Shares, Zenon
<1>6. \A g \in Handlers : Deposits(g)' => handlers'[g].amount =< MAX_SOL
  BY AmountsStay
<1>7. \A x, y \in Nat : x + y \in Nat
  OBVIOUS
<1>8. \A x, y, z \in Nat : x =< y /\ y =< z => x =< z
  OBVIOUS
<1>9. /\ depositedSol' + Coming' =< Cardinality(Handlers) * MAX_SOL
      /\ AllSeen' /\ ~overlapped' => depositedSol' + Coming' =< MAX_SOL
  BY <1>1, <1>2, <1>3, <1>4, <1>5, <1>7, <1>8, Zenon
<1> QED
  BY <1>3, <1>5, <1>6, <1>9 DEF CInv

\* No handler changes.
LEMMA SameCounts ==
    ASSUME Types, CInv, UNCHANGED <<handlers, depositedSol, restarts, overlapped>>,
           funded' \in Nat, funded' >= funded, AllSeen' => AllSeen /\ funded' = funded
    PROVE  CInv'
<1>1. Coming' = Coming /\ Spent' = Spent /\ \A h : Deposits(h)' <=> Deposits(h)
  BY DEF Coming, Spent, Deposits, Busy
<1>2. Coming \in Nat /\ Spent \in Nat
  BY Counts
<1>3. depositedSol \in Nat /\ funded \in Nat /\ restarts \in Nat
  BY DEF CInv
<1>4. /\ depositedSol' + Spent' =< funded'
      /\ AllSeen' => funded' = depositedSol' + Spent'
  BY <1>1, <1>2, <1>3 DEF CInv
<1> QED
  BY <1>1, <1>3, <1>4 DEF CInv

LEMMA AskCounts ==
    ASSUME Types, CInv, NEW h \in Handlers, NEW ref \in Refs, NEW seller \in Wallets,
           Release(h, ref, seller) \/ Refund(h, ref)
    PROVE  CInv'
<1>1. PICK op \in {"release", "refund"}, w \in Wallets : Send(h, op, ref, w, 0, 0) /\ UNCHANGED history
  BY SignerAssumption DEF Release, Refund
<1>2. PICK tx : tx = [op |-> op, reference |-> ref, seller |-> w, amount |-> 0, deadline |-> 0, landed |-> FALSE]
  OBVIOUS
<1>3. tx \in Transactions /\ Adds(tx) = 0 /\ Cost(tx) = 0 /\ tx.op # "deposit"
  BY <1>2 DEF Transactions, Adds, Cost
<1>4. /\ handlers[h] = Idle /\ handlers' = [handlers EXCEPT ![h] = tx]
      /\ UNCHANGED <<depositedSol, funded, restarts, lost, overlapped>>
  BY <1>1, <1>2 DEF Send, history
<1>5. Adds(handlers[h]) = 0 /\ Cost(handlers[h]) = 0
  BY <1>4 DEF Adds, Cost
<1>6. depositedSol \in Nat /\ funded \in Nat
  BY DEF CInv
<1>7. AllSeen' <=> AllSeen
  BY <1>4 DEF AllSeen
<1>8. /\ depositedSol' + Adds(tx) =< depositedSol + Adds(handlers[h])
      /\ (depositedSol' + Cost(tx)) + funded =< (depositedSol + Cost(handlers[h])) + funded'
      /\ (depositedSol' + Cost(tx)) + funded = (depositedSol + Cost(handlers[h])) + funded'
  BY <1>3, <1>4, <1>5, <1>6
<1> QED
  BY <1>3, <1>4, <1>6, <1>7, <1>8, NoMoreCounts

LEMMA LandCounts == ASSUME Types, CInv, NEW h \in Handlers, Land(h) PROVE CInv'
<1>1. PICK tx, done : tx = handlers[h] /\ done = [tx EXCEPT !.landed = TRUE]
  OBVIOUS
<1>2. tx \in Transactions /\ tx # Idle /\ ~tx.landed /\ tx.amount \in Nat
  BY <1>1 DEF Land, Types, Transactions
<1>3. done \in Transactions /\ done.op = tx.op /\ done.amount = tx.amount /\ done.landed /\ done # Idle
  BY <1>1, <1>2, SignerAssumption DEF Transactions
<1>4. /\ handlers' = [handlers EXCEPT ![h] = done]
      /\ UNCHANGED <<depositedSol, restarts, lost, overlapped>>
      /\ funded' = IF tx.op = "deposit" THEN funded + tx.amount ELSE funded
  BY <1>1 DEF Land, Executes
<1>5. Adds(done) = Adds(tx) /\ Cost(tx) = 0 /\ Cost(done) = (IF tx.op = "deposit" THEN tx.amount ELSE 0)
  BY <1>2, <1>3 DEF Adds, Cost
<1>6. depositedSol \in Nat /\ funded \in Nat /\ Adds(tx) \in Nat
  BY <1>2, AmountsAreNat DEF CInv
<1>7. tx.op = "deposit" => tx.amount =< MAX_SOL
  BY <1>1, <1>2 DEF CInv, Deposits, Busy
<1>8. AllSeen' <=> AllSeen
  BY <1>4 DEF AllSeen
<1>9. funded' \in Nat /\ (depositedSol' + Cost(done)) + funded = (depositedSol + Cost(tx)) + funded'
  BY <1>2, <1>4, <1>5, <1>6
<1>10. depositedSol' + Adds(done) =< depositedSol + Adds(tx)
  BY <1>4, <1>5, <1>6
<1>11. (depositedSol' + Cost(done)) + funded =< (depositedSol + Cost(tx)) + funded'
  BY <1>2, <1>4, <1>5, <1>6
<1> QED
  BY <1>1, <1>3, <1>4, <1>6, <1>7, <1>8, <1>9, <1>10, <1>11, NoMoreCounts

LEMMA LandOrphanCounts == ASSUME IInv, CInv, NEW tx \in orphans, LandOrphan(tx) PROVE CInv'
<1>1. tx \in Transactions /\ tx.amount \in Nat /\ (tx.op = "deposit" => tx.reference \in lost)
  BY DEF IInv, Types, OrphansAreLost, Transactions
<1>2. /\ UNCHANGED <<handlers, depositedSol, restarts, lost, overlapped>>
      /\ funded' = IF tx.op = "deposit" THEN funded + tx.amount ELSE funded
  BY DEF LandOrphan, server, Executes
<1>3. funded \in Nat
  BY DEF CInv
<1>4. funded' \in Nat /\ funded' >= funded
  BY <1>1, <1>2, <1>3
<1>5. AllSeen' => AllSeen /\ funded' = funded
  BY <1>1, <1>2 DEF AllSeen
<1> QED
  BY <1>2, <1>4, <1>5, SameCounts DEF IInv

LEMMA ConfirmCounts == ASSUME Types, CInv, NEW h \in Handlers, Confirm(h) PROVE CInv'
<1>1. PICK tx : tx = handlers[h]
  OBVIOUS
<1>2. tx \in Transactions /\ tx # Idle /\ tx.landed /\ tx.amount \in Nat
  BY <1>1 DEF Confirm, Types, Transactions
<1>3. /\ handlers' = [handlers EXCEPT ![h] = Idle]
      /\ UNCHANGED <<funded, restarts, lost, overlapped>>
      /\ depositedSol' = IF tx.op = "deposit" THEN depositedSol + tx.amount ELSE depositedSol
  BY <1>1 DEF Confirm, Counted, history
<1>4. /\ Adds(Idle) = 0 /\ Cost(Idle) = 0 /\ Adds(tx) = Cost(tx)
      /\ Adds(tx) = (IF tx.op = "deposit" THEN tx.amount ELSE 0)
  BY <1>2 DEF Adds, Cost
<1>5. depositedSol \in Nat /\ funded \in Nat
  BY DEF CInv
<1>6. AllSeen' <=> AllSeen
  BY <1>3 DEF AllSeen
<1>7. depositedSol' \in Nat /\ depositedSol' + Adds(Idle) =< depositedSol + Adds(tx)
  BY <1>2, <1>3, <1>4, <1>5
<1>8. (depositedSol' + Cost(Idle)) + funded = (depositedSol + Cost(tx)) + funded'
  BY <1>2, <1>3, <1>4, <1>5
<1>9. (depositedSol' + Cost(Idle)) + funded =< (depositedSol + Cost(tx)) + funded'
  BY <1>2, <1>3, <1>4, <1>5
<1> QED
  BY <1>1, <1>3, <1>5, <1>6, <1>7, <1>8, <1>9, NoMoreCounts

LEMMA GiveUpCounts ==
    ASSUME Types, CInv, NEW h \in Handlers, Fail(h) \/ LoseConfirmation(h)
    PROVE  CInv'
<1>1. PICK tx : tx = handlers[h]
  OBVIOUS
<1>2. tx \in Transactions /\ tx # Idle
  BY <1>1 DEF Fail, LoseConfirmation, Types
<1>3. /\ handlers' = [handlers EXCEPT ![h] = Idle]
      /\ UNCHANGED <<depositedSol, funded, restarts, overlapped>>
      /\ lost \subseteq lost'
      /\ tx.op = "deposit" /\ tx.landed => lost' # {}
  BY <1>1 DEF Fail, LoseConfirmation, history
<1>4. /\ Adds(Idle) = 0 /\ Cost(Idle) = 0
      /\ Adds(tx) \in Nat /\ Cost(tx) \in Nat /\ (lost' = {} => Cost(tx) = 0)
  BY <1>2, <1>3, AmountsAreNat DEF Adds, Cost
<1>5. depositedSol \in Nat /\ funded \in Nat
  BY DEF CInv
<1>6. AllSeen' => AllSeen /\ lost' = {}
  BY <1>3 DEF AllSeen
<1>7. /\ depositedSol' + Adds(Idle) =< depositedSol + Adds(tx)
      /\ (depositedSol' + Cost(Idle)) + funded =< (depositedSol + Cost(tx)) + funded'
  BY <1>3, <1>4, <1>5
<1>8. AllSeen' => (depositedSol' + Cost(Idle)) + funded = (depositedSol + Cost(tx)) + funded'
  BY <1>3, <1>4, <1>5, <1>6
<1> QED
  BY <1>1, <1>3, <1>5, <1>6, <1>7, <1>8, NoMoreCounts

\* A restart counts from nothing.
LEMMA RestartCounts == ASSUME Types, CInv, Restart PROVE CInv'
<1>1. /\ handlers' = [h \in Handlers |-> Idle] /\ depositedSol' = 0 /\ restarts' = restarts + 1
      /\ funded' = funded
  BY DEF Restart
<1>2. \A h \in Handlers : Adds(handlers'[h]) = 0 /\ Cost(handlers'[h]) = 0 /\ ~Deposits(h)'
  BY <1>1 DEF Adds, Cost, Deposits, Busy
<1>3. Coming' = 0 /\ Spent' = 0
  <2> DEFINE a == [g \in Handlers |-> Adds(handlers'[g])]
             c == [g \in Handlers |-> Cost(handlers'[g])]
  <2>1. \A g \in Handlers : a[g] = 0 /\ c[g] = 0
    BY <1>2
  <2>2. Coming' = Prog!Total(a, Handlers) /\ Spent' = Prog!Total(c, Handlers)
    BY DEF Coming, Spent
  <2> HIDE DEF a, c
  <2>3. IsFiniteSet(Handlers)
    BY SignerAssumption
  <2>4. Prog!Total(a, Handlers) = Prog!Total(a, {}) /\ Prog!Total(c, Handlers) = Prog!Total(c, {})
    BY <2>1, <2>3, ProgAssumed, SameSets, Prog!TotalWithoutZeros
  <2>5. Prog!Total(a, {}) = 0 /\ Prog!Total(c, {}) = 0
    BY ProgAssumed, Prog!TotalOfNone
  <2> QED
    BY <2>2, <2>4, <2>5
<1>4. Cardinality(Handlers) * MAX_SOL \in Nat /\ funded \in Nat /\ restarts \in Nat
  BY Counts DEF CInv
<1>5. ~AllSeen'
  BY <1>1, <1>4 DEF AllSeen
<1> QED
  BY <1>1, <1>2, <1>3, <1>4, <1>5 DEF CInv

LEMMA NextCounts == IInv /\ CInv /\ [Next]_vars => CInv'
<1> SUFFICES ASSUME IInv, CInv, [Next]_vars PROVE CInv'
  OBVIOUS
<1>1. Types /\ funded \in Nat /\ funded >= funded
  BY DEF IInv, CInv
<1>2. CASE UNCHANGED <<handlers, depositedSol, restarts, history>>
  BY <1>1, <1>2, SameCounts DEF history, AllSeen
<1>3. CASE Tick \/ UNCHANGED vars \/ \E tx \in orphans : DropOrphan(tx)
  BY <1>2, <1>3 DEF Tick, vars, DropOrphan, server
<1>4. CASE Restart
  BY <1>1, <1>4, RestartCounts
<1>5. ASSUME NEW tx \in orphans, LandOrphan(tx) PROVE CInv'
  BY <1>5, LandOrphanCounts
<1>6. ASSUME NEW h \in Handlers, Land(h) \/ Confirm(h) \/ Fail(h) \/ LoseConfirmation(h) PROVE CInv'
  BY <1>1, <1>6, LandCounts, ConfirmCounts, GiveUpCounts
<1>7. ASSUME NEW h \in Handlers, NEW ref \in Refs,
             \/ \E seller \in Wallets :
                   \/ \E amountSol \in AskedAmounts, secs \in AskedSecs : Deposit(h, ref, seller, amountSol, secs)
                   \/ Release(h, ref, seller)
             \/ Refund(h, ref)
      PROVE  CInv'
  BY <1>1, <1>7, DepositCounts, AskCounts, SignerAssumption
<1> QED
  BY <1>3, <1>4, <1>5, <1>6, <1>7 DEF Next

\* The types of what only the history and the bounds read.
HistoryTypes == restarts \in 0..MaxRestarts /\ asked \subseteq Refs /\ lost \subseteq Refs /\ overlapped \in BOOLEAN

LEMMA NextHistory == Types /\ HistoryTypes /\ [Next]_vars => HistoryTypes'
<1> SUFFICES ASSUME Types, HistoryTypes, [Next]_vars PROVE HistoryTypes'
  OBVIOUS
<1> USE DEF HistoryTypes
<1>1. CASE UNCHANGED <<restarts, asked, lost, overlapped>>
  BY <1>1
<1>2. ASSUME NEW h \in Handlers, NEW ref \in Refs, NEW seller, NEW amountSol, NEW secs,
             Deposit(h, ref, seller, amountSol, secs)
      PROVE  HistoryTypes'
  BY <1>2 DEF Deposit, Send
<1>3. ASSUME NEW h \in Handlers, LoseConfirmation(h) PROVE HistoryTypes'
  BY <1>3 DEF LoseConfirmation, Types, Transactions
<1>4. CASE Restart
  <2>1. restarts' \in 0..MaxRestarts /\ UNCHANGED <<asked, overlapped>>
    BY <1>4, SignerAssumption DEF Restart
  <2>2. \A tx \in {handlers[h] : h \in Handlers} \ {Idle} : tx.reference \in Refs
    BY DEF Types, Transactions
  <2>3. lost' \subseteq Refs
    BY <1>4, <2>2 DEF Restart
  <2> QED
    BY <2>1, <2>3
<1> QED
  BY <1>1, <1>2, <1>3, <1>4
  DEF Next, vars, history, Release, Refund, Send, Land, LandOrphan, DropOrphan, Confirm, Fail, Tick

LEMMA InitHistory == Init => HistoryTypes
<1> SUFFICES ASSUME Init PROVE HistoryTypes
  OBVIOUS
<1>1. 0 \in 0..MaxRestarts
  BY SignerAssumption
<1> QED
  BY <1>1 DEF Init, HistoryTypes

\* However many requests are in flight and however they interleave, the signer
\* counts at most one cap for each, counts nothing that was not funded, and
\* one deposit at a time, with nothing lost, funds no more than its cap.
THEOREM CapOvershootIsBounded == Spec => []OvershootIsBounded
<1>1. IInv /\ CInv /\ HistoryTypes /\ Prog!IInv => OvershootIsBounded
  <2> SUFFICES ASSUME IInv, CInv, HistoryTypes, Prog!IInv PROVE OvershootIsBounded
    OBVIOUS
  <2>1. TypeOK
    BY SameProgram DEF IInv, Types, CInv, HistoryTypes, TypeOK, Prog!IInv
  <2>2. /\ Coming \in Nat /\ Spent \in Nat /\ Spent =< Coming
        /\ Cardinality(Handlers) * MAX_SOL \in Nat /\ MAX_SOL \in Nat
        /\ depositedSol \in Nat /\ funded \in Nat
    BY Counts, SignerAssumption DEF IInv, CInv
  <2>3. depositedSol =< Cardinality(Handlers) * MAX_SOL /\ depositedSol =< funded
    BY <2>2 DEF CInv
  <2>4. ~overlapped /\ lost = {} /\ restarts = 0 => funded =< MAX_SOL
    BY <2>2 DEF CInv, AllSeen
  <2> QED
    BY <2>1, <2>3, <2>4 DEF OvershootIsBounded
<1>2. IInv => Types
  BY DEF IInv
<1> QED
  BY <1>1, <1>2, InitHolds, NextPreserves, InitCounts, NextCounts, InitHistory, NextHistory,
     InitCluster, ClusterStep, PTL DEF Spec
=============================================================================
