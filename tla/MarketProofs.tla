---------------------------- MODULE MarketProofs ----------------------------
(***************************************************************************)
(* For any number of sellers, rounds and references: every variable has    *)
(* its type, the buyer keeps its session within the cap, what it announces *)
(* is what the cluster did, only a patch that passes is paid for, and a    *)
(* seller works only for an order whose escrow is there.                   *)
(***************************************************************************)
EXTENDS Market, TLAPS

Steps == {"idle", "bids", "terms", "funding", "confirm", "delivery", "verdict",
          "releasing", "cooling", "refunding"}
\* Where the buyer awaits an answer of the signer, and where it has terms.
Awaiting == {"funding", "releasing", "refunding"}
Settling == Steps \ {"idle", "bids", "terms"}

request == handlers[handler]

\* What the buyer and the sellers remember is of its type.
Types == /\ pc \in Steps
         /\ round \in 0..MaxRounds /\ (pc # "idle" => round \in Rounds)
         /\ \A b \in bids : b.by \in Sellers
         /\ pc \in Settling => terms.reference \in Refs /\ terms.seller \in Wallets /\ terms.amount \in Nat
         /\ quoted \in [Sellers -> SUBSET Quotes]
         /\ awarded \in [Sellers -> SUBSET AwardedOrders]
         /\ working \in [Sellers -> AwardedOrders \cup {None}]
         /\ delivered \in [Refs -> Payloads \cup {"nothing"}]
         /\ outcome \in [Refs -> {"none", "released", "refunded", "early"}]

Mail == inbox \in [Agents -> Seq(Messages)]

\* The signer's state, as far as the argument needs it.
SignerTypes == /\ now \in Int
               /\ escrows = [k \in Wallets \X Refs |-> escrows[k]]
               /\ \A ref \in Refs : Open(ref) => escrows[<<Buyer, ref>>].deadline \in Int
               /\ handlers \in [Handlers -> Signer!Transactions \cup {Idle}]
               /\ orphans \subseteq Signer!Transactions

\* The signer is at the request the buyer awaits, and at none otherwise.
Requests ==
    /\ pc \notin Awaiting => request = Idle
    /\ pc \in Awaiting => request \in Signer!Transactions /\ request.reference = terms.reference
    /\ pc = "funding" => request.op = "deposit" /\ request.amount = terms.amount
    /\ pc = "releasing" => request.op = "release"
    /\ pc = "refunding" => request.op = "refund"

\* The deposit under way when it has executed.
Landed == IF pc = "funding" /\ request.landed THEN terms.amount ELSE 0

\* The buyer knows what it has funded, and allows no deposit beyond the cap.
Accounts ==
    \/ trouble
    \/ /\ orphans = {}
       /\ spentSol \in Nat /\ funded = spentSol + Landed
       /\ spentSol + (IF pc = "funding" THEN terms.amount ELSE 0) =< SessionCap

Pending(t) == /\ t.op = "deposit"
              /\ \/ t \in orphans
                 \/ pc = "funding" /\ t = request /\ ~request.landed

\* A reference is funded once: a deposit that may yet execute is the only one,
\* and its escrow neither is nor was open.
FundedOnce ==
    /\ \A ref \in Refs : Open(ref) \/ outcome[ref] # "none" => ref \in asked
    /\ \A ref \in Refs : outcome[ref] # "none" => ~Open(ref)
    /\ \A t \in Signer!Transactions : Pending(t) =>
          /\ t.reference \in asked /\ ~Open(t.reference) /\ outcome[t.reference] = "none"
    /\ \A t, u \in orphans : t.op = "deposit" /\ u.op = "deposit" /\ t.reference = u.reference => t = u
    /\ pc = "funding" => \A t \in orphans : t.op = "deposit" => t.reference # request.reference

\* A settlement that has executed has closed its escrow the way it says.
Executed ==
    /\ pc = "releasing" /\ request.landed => outcome[terms.reference] = "released"
    /\ pc = "refunding" /\ request.landed => outcome[terms.reference] = "refunded"

Money == SignerTypes /\ Requests /\ Accounts /\ FundedOnce /\ Executed

IInv == Types /\ Mail /\ Money /\ AnnouncementsAreTrue

-----------------------------------------------------------------------------
(* Mail.                                                                   *)

In(box, a) == {box[a][i] : i \in DOMAIN box[a]}

\* What a message of a type carries.
LEMMA MessageLemma ==
    ASSUME NEW m \in Messages
    PROVE  /\ m.type # "ERROR" => m.round \in Rounds
           /\ m.type \in {"SETTLED", "REFUNDED"} => m.reference \in Refs
           /\ m.type = "BID" => m.by \in Sellers /\ m.price \in Prices
           /\ m.type = "PAYMENT_REQUIRED" => /\ m.amount \in Nat /\ m.reference \in Refs
                                             /\ m.secs = DeadlineSecs /\ m.seller \in Wallets
           /\ m.type = "DELIVERED" => m.payload \in Payloads
           /\ m.type = "VERIFY" => m.payload \in Payloads /\ m.sha \in Payloads
  BY MarketAssumption DEF Messages

LEMMA SentLemma ==
    ASSUME NEW box \in [Agents -> Seq(Messages)], NEW to, NEW m \in Messages
    PROVE  /\ Sent(box, to, m) \in [Agents -> Seq(Messages)]
           /\ \A a \in Agents : In(Sent(box, to, m), a) \subseteq In(box, a) \cup {m}
           /\ \A a \in Agents \ to : In(Sent(box, to, m), a) = In(box, a)
<1>1. Sent(box, to, m) \in [Agents -> Seq(Messages)]
  BY DEF Sent
<1>2. \A a \in Agents : In(Sent(box, to, m), a) \subseteq In(box, a) \cup {m}
  BY DEF Sent, In
<1>3. \A a \in Agents \ to : In(Sent(box, to, m), a) = In(box, a)
  BY DEF Sent, In
<1>4. QED
  BY <1>1, <1>2, <1>3

LEMMA ReadsLemma ==
    ASSUME Mail, NEW a \in Agents, inbox[a] # <<>>
    PROVE  /\ Head(inbox[a]) \in Messages /\ Head(inbox[a]) \in In(inbox, a)
           /\ Reads(a) \in [Agents -> Seq(Messages)]
           /\ \A b \in Agents : In(Reads(a), b) \subseteq In(inbox, b)
<1>1. inbox[a] \in Seq(Messages)
  BY DEF Mail
<1>2. Head(inbox[a]) \in Messages /\ Tail(inbox[a]) \in Seq(Messages)
  BY <1>1
<1>3. Reads(a) \in [Agents -> Seq(Messages)]
  BY <1>2 DEF Reads, Mail
<1>4. \A i \in DOMAIN Tail(inbox[a]) : i + 1 \in DOMAIN inbox[a] /\ Tail(inbox[a])[i] = inbox[a][i + 1]
  BY <1>1
<1>5. In(Reads(a), a) \subseteq In(inbox, a)
  BY <1>4 DEF Reads, In, Mail
<1>6. \A b \in Agents \ {a} : In(Reads(a), b) = In(inbox, b)
  BY DEF Reads, In, Mail
<1>7. 1 \in DOMAIN inbox[a] /\ Head(inbox[a]) = inbox[a][1]
  BY <1>1
<1>8. QED
  BY <1>2, <1>3, <1>5, <1>6, <1>7 DEF In

IsTrue(m) == /\ m.type = "SETTLED" => outcome[m.reference] = "released"
             /\ m.type = "REFUNDED" => outcome[m.reference] = "refunded"

\* Mail is read and a message is sent, which is true if it is an announcement.
LEMMA MailLemma ==
    ASSUME Mail, AnnouncementsAreTrue, NEW box \in [Agents -> Seq(Messages)],
           \A a \in Agents : In(box, a) \subseteq In(inbox, a),
           \/ inbox' = box
           \/ \E to, m : m \in Messages /\ IsTrue(m)' /\ inbox' = Sent(box, to, m),
           \A ref \in Refs : outcome[ref] # "none" => outcome'[ref] = outcome[ref]
    PROVE  Mail' /\ AnnouncementsAreTrue'
<1>1. PICK m : \/ inbox' = box
               \/ m \in Messages /\ IsTrue(m)' /\ \E to : inbox' = Sent(box, to, m)
  OBVIOUS
<1>2. inbox' \in [Agents -> Seq(Messages)]
      /\ \A a \in Agents : \/ In(inbox', a) \subseteq In(inbox, a)
                           \/ IsTrue(m)' /\ In(inbox', a) \subseteq In(inbox, a) \cup {m}
  BY <1>1, SentLemma
<1>3. ASSUME NEW s \in Sellers, NEW n \in In(inbox, s)
      PROVE  IsTrue(n)'
  <2>1. n \in Messages
    BY DEF In, Mail, Agents
  <2>2. IsTrue(n)
    BY DEF In, AnnouncementsAreTrue, IsTrue
  <2>3. QED
    BY <2>1, <2>2, MessageLemma DEF IsTrue
<1>4. \A s \in Sellers : \A n \in In(inbox', s) : IsTrue(n)'
  BY <1>2, <1>3 DEF Agents
<1>5. AnnouncementsAreTrue'
  BY <1>4 DEF AnnouncementsAreTrue, In, IsTrue
<1>6. QED
  BY <1>2, <1>5 DEF Mail

-----------------------------------------------------------------------------
\* A step that leaves the chain, the signer and what the buyer knows of its
\* money alone.
Quiet == /\ UNCHANGED <<chain, signer, spentSol, outcome, trouble>>
         /\ \/ UNCHANGED <<pc, terms>>
            \/ pc \notin Awaiting /\ pc' \notin Awaiting

LEMMA QuietStep ==
    ASSUME Money, Quiet
    PROVE  Money'
<1>1. SignerTypes'
  BY DEF Open, Money, SignerTypes, Quiet, chain, signer
<1>2. Requests' /\ Accounts' /\ FundedOnce' /\ Executed'
  BY DEF Money, Quiet, chain, signer, Requests, Accounts, FundedOnce, Executed, request, Landed, Pending, Open, Awaiting
<1>3. QED
  BY <1>1, <1>2 DEF Money

\* What a transaction does to the chain.
LEMMA ExecutesLemma ==
    ASSUME SignerTypes, NEW t \in Signer!Transactions, Signer!Executes(t)
    PROVE  /\ now' = now
           /\ escrows' = [k \in Wallets \X Refs |-> escrows'[k]]
           /\ \A ref \in Refs : Open(ref)' => escrows'[<<Buyer, ref>>].deadline \in Int
           /\ \A ref \in Refs \ {t.reference} : Open(ref)' <=> Open(ref)
           /\ t.op # "deposit" => Open(t.reference) /\ ~Open(t.reference)'
           /\ t.op = "refund" => /\ now >= escrows[<<Buyer, t.reference>>].deadline
                                 /\ escrows[<<Buyer, t.reference>>].deadline \in Int
           /\ funded' = IF t.op = "deposit" THEN funded + t.amount ELSE funded
<1>1. PICK k : k = <<Buyer, t.reference>>
  OBVIOUS
<1>2. t.reference \in Refs /\ t.op \in {"deposit", "release", "refund"} /\ k \in Wallets \X Refs
  BY <1>1, MarketAssumption DEF Signer!Transactions
<1>3. PICK e : escrows' = [escrows EXCEPT ![k] = e] /\ now' = now
               /\ (t.op # "deposit" => e = NoEscrow /\ escrows[k] # NoEscrow)
               /\ (t.op = "refund" => now >= escrows[k].deadline)
               /\ (t.op = "deposit" => e.deadline = t.deadline)
  BY <1>1, <1>2
  DEF Signer!Executes, Signer!Key, Signer!Chain!Initialize, Signer!Chain!Release, Signer!Chain!Refund, Signer!Chain!Releasable, Signer!Chain!Refundable,
      Signer!Chain!CanRelease, Signer!Chain!CanRefund, Signer!Chain!DeadlineReached
<1>4. /\ escrows' = [j \in Wallets \X Refs |-> escrows'[j]] /\ escrows'[k] = e
      /\ \A j \in (Wallets \X Refs) \ {k} : escrows'[j] = escrows[j]
  BY <1>2, <1>3 DEF SignerTypes
<1>5. \A ref \in Refs \ {t.reference} : Open(ref)' <=> Open(ref)
  BY <1>1, <1>4, MarketAssumption DEF Open
<1>6. t.op # "deposit" => Open(t.reference) /\ ~Open(t.reference)'
  BY <1>1, <1>3, <1>4 DEF Open
<1>7. \A ref \in Refs : Open(ref)' => escrows'[<<Buyer, ref>>].deadline \in Int
  <2>1. ASSUME NEW ref \in Refs \ {t.reference}, Open(ref)'
        PROVE  escrows'[<<Buyer, ref>>].deadline \in Int
    BY <1>1, <1>4, <1>5, <2>1, MarketAssumption DEF SignerTypes
  <2>2. Open(t.reference)' => escrows'[k].deadline \in Int
    BY <1>1, <1>2, <1>3, <1>4, <1>6 DEF Signer!Transactions
  <2>3. QED
    BY <1>1, <2>1, <2>2
<1>8. funded' = IF t.op = "deposit" THEN funded + t.amount ELSE funded
  BY DEF Signer!Executes
<1>9. t.op = "refund" => escrows[k].deadline \in Int
  BY <1>1, <1>2, <1>6 DEF SignerTypes
<1>10. QED
  BY <1>1, <1>3, <1>4, <1>5, <1>6, <1>8, <1>7, <1>9

-----------------------------------------------------------------------------
(* The buyer's requests to the signer.                                     *)

LEMMA ClockTicks ==
    ASSUME Money, Tick
    PROVE  Money'
<1>1. now' = now + 1 /\ UNCHANGED <<lamports, escrows, signer, buyer, inbox, sellers, history>>
  BY DEF Tick, Signer!Tick, Signer!Chain!Tick, Signer!server, Signer!history, signer
<1>2. SignerTypes'
  <2>1. \A ref : Open(ref)' <=> Open(ref)
    BY <1>1 DEF Open
  <2>2. UNCHANGED <<escrows, handlers, orphans>>
    BY <1>1 DEF signer
  <2>3. QED
    BY <1>1, <2>1, <2>2 DEF Money, SignerTypes
<1>3. Requests' /\ Accounts' /\ FundedOnce' /\ Executed'
  BY <1>1 DEF Money, signer, buyer, history, Requests, Accounts, FundedOnce, Executed, request, Landed, Pending, Open
<1>4. QED
  BY <1>2, <1>3 DEF Money

\* The signer takes a request up and the buyer awaits it.
LEMMA SendLemma ==
    ASSUME Money, NEW op \in {"deposit", "release", "refund"}, NEW ref \in Refs, NEW seller \in Wallets,
           NEW amount \in Nat, NEW deadline \in Int,
           Signer!Send(handler, op, ref, seller, amount, deadline)
    PROVE  /\ request = Idle /\ request' \in Signer!Transactions
           /\ request'.op = op /\ request'.reference = ref /\ request'.amount = amount /\ ~request'.landed
           /\ SignerTypes' /\ UNCHANGED <<chain, orders, depositedSol, orphans, restarts>>
<1>1. PICK t : t = [op |-> op, reference |-> ref, seller |-> seller, amount |-> amount,
                    deadline |-> deadline, landed |-> FALSE]
  OBVIOUS
<1>2. t \in Signer!Transactions
  BY <1>1 DEF Signer!Transactions
<1>3. request = Idle /\ handlers' = [handlers EXCEPT ![handler] = t]
      /\ UNCHANGED <<chain, orders, depositedSol, orphans, restarts>>
  BY <1>1 DEF Signer!Send, request, Signer!chain, chain
<1>4. request' = t /\ handlers' \in [Handlers -> Signer!Transactions \cup {Idle}]
  BY <1>2, <1>3, MarketAssumption DEF Money, SignerTypes, request
<1>5. SignerTypes'
  BY <1>3, <1>4 DEF Open, Money, SignerTypes, chain
<1>6. QED
  BY <1>1, <1>2, <1>3, <1>4, <1>5

LEMMA FundStep ==
    ASSUME Types, Mail, Money, Fund
    PROVE  Money'
<1>1. PICK t : t = Head(inbox[BuyerAgent])
  OBVIOUS
<1>2. inbox[BuyerAgent] # <<>> /\ t.type = "PAYMENT_REQUIRED" /\ pc = "terms"
  BY <1>1 DEF Fund, Accepts, Matches, Waiting
<1>3. t \in Messages
  BY <1>1, <1>2, ReadsLemma DEF Agents
<1>4. t.amount \in Nat /\ t.reference \in Refs /\ t.secs \in Int
  BY <1>2, <1>3, MessageLemma, MarketAssumption
<1>5. /\ UNCHANGED <<spentSol, history>>
      /\ terms' = [reference |-> t.reference, seller |-> t.seller, amount |-> t.amount,
                   secs |-> t.secs, fundedAt |-> now]
  BY <1>1 DEF Fund
<1>6. CASE pc' = "idle" /\ UNCHANGED <<chain, signer>>
  BY <1>2, <1>5, <1>6, QuietStep DEF Quiet, Awaiting, history
<1>7. CASE /\ \E b : PolicyAllows(t, b)
           /\ Signer!Deposit(handler, t.reference, t.seller, t.amount, t.secs)
           /\ pc' = "funding"
  <2>1. spentSol + t.amount =< SessionCap /\ t.seller = SELLER
    BY <1>7 DEF PolicyAllows
  <2>2. /\ t.reference \notin asked /\ asked' = asked \cup {t.reference} /\ UNCHANGED <<funded, lost>>
        /\ Signer!Send(handler, "deposit", t.reference, t.seller, t.amount, now + t.secs)
    BY <1>7 DEF Signer!Deposit
  <2>3. now + t.secs \in Int /\ t.seller \in Wallets
    BY <1>4, <2>1, MarketAssumption DEF Money, SignerTypes
  <2>4. /\ request' \in Signer!Transactions
        /\ request'.op = "deposit" /\ request'.reference = t.reference
        /\ request'.amount = t.amount /\ ~request'.landed
        /\ SignerTypes' /\ UNCHANGED <<chain, orders, depositedSol, orphans, restarts>>
    BY <1>4, <2>2, <2>3, SendLemma
  <2>5. Requests'
    BY <1>5, <1>7, <2>4 DEF Requests, Awaiting
  <2>6. Accounts'
    <3>1. Landed = 0 /\ Landed' = 0
      BY <1>2, <2>4 DEF Landed
    <3>2. QED
      BY <1>2, <1>4, <1>5, <1>7, <2>1, <2>2, <2>4, <3>1 DEF Money, Accounts, history
  <2>7. FundedOnce'
    <3>1. \A u : Pending(u)' => u = request' \/ (u \in orphans /\ Pending(u))
      BY <2>4 DEF Pending
    <3>2. /\ \A ref : Open(ref)' <=> Open(ref)
          /\ outcome' = outcome
      BY <1>5, <2>4 DEF Open, chain, history
    <3>3. ~Open(t.reference) /\ outcome[t.reference] = "none"
      BY <1>4, <2>2 DEF Money, FundedOnce
    <3>4. \A u \in orphans : u.op = "deposit" => u.reference \in asked
      BY DEF Money, SignerTypes, FundedOnce, Pending
    <3>5. QED
      BY <1>4, <2>2, <2>4, <3>1, <3>2, <3>3, <3>4 DEF Money, FundedOnce
  <2>8. Executed'
    BY <1>7 DEF Executed
  <2>9. QED
    BY <2>4, <2>5, <2>6, <2>7, <2>8 DEF Money
<1>8. QED
  BY <1>1, <1>6, <1>7 DEF Fund

\* A release or a refund is asked for.
LEMMA SettlementIsSent ==
    ASSUME Types, Money, NEW op \in {"release", "refund"}, NEW seller \in Wallets, pc \in Settling \ Awaiting,
           Signer!Send(handler, op, terms.reference, seller, 0, 0), UNCHANGED <<Signer!history, history, terms, spentSol>>,
           pc' = IF op = "release" THEN "releasing" ELSE "refunding"
    PROVE  Money'
<1>1. terms.reference \in Refs
  BY DEF Types
<1>2. /\ request' \in Signer!Transactions /\ request'.op = op
      /\ request'.reference = terms.reference /\ ~request'.landed
      /\ SignerTypes' /\ UNCHANGED <<chain, orders, depositedSol, orphans, restarts>>
  BY <1>1, SendLemma
<1>3. Requests' /\ Executed'
  BY <1>2 DEF Requests, Executed, Awaiting
<1>4. Accounts'
  BY <1>2 DEF Money, Accounts, Landed, Awaiting, Settling, Signer!history, history
<1>5. FundedOnce'
  BY <1>2 DEF Money, FundedOnce, Pending, Open, chain, Awaiting, Signer!history, history
<1>6. QED
  BY <1>2, <1>3, <1>4, <1>5 DEF Money

LEMMA ReleaseStep ==
    ASSUME Types, Money, Release
    PROVE  Money'
<1>1. pc = "verdict" /\ pc' = "releasing" /\ Signer!Release(handler, terms.reference, terms.seller)
      /\ UNCHANGED <<terms, spentSol, history>>
  BY DEF Release
<1>2. Signer!Send(handler, "release", terms.reference, terms.seller, 0, 0) /\ UNCHANGED Signer!history
  BY <1>1 DEF Signer!Release
<1>3. terms.seller \in Wallets /\ pc \in Settling \ Awaiting
  BY <1>1 DEF Types, Settling, Awaiting, Steps
<1>4. QED
  BY <1>1, <1>2, <1>3, SettlementIsSent

LEMMA RefundStep ==
    ASSUME Types, Money, Refund
    PROVE  Money'
<1>1. pc = "cooling" /\ pc' = "refunding" /\ Signer!Refund(handler, terms.reference)
      /\ UNCHANGED <<terms, spentSol, history>>
  BY DEF Refund
<1>2. Signer!Send(handler, "refund", terms.reference, Buyer, 0, 0) /\ UNCHANGED Signer!history
  BY <1>1 DEF Signer!Refund
<1>3. pc \in Settling \ Awaiting
  BY <1>1 DEF Settling, Awaiting, Steps
<1>4. QED
  BY <1>1, <1>2, <1>3, MarketAssumption, SettlementIsSent

-----------------------------------------------------------------------------
(* The signer's answers.                                                   *)

\* The handler is free again, whatever it answers.
LEMMA HandlerIsFreed ==
    ASSUME Money, handlers' = [handlers EXCEPT ![handler] = Idle], UNCHANGED chain,
           orphans' \subseteq orphans \cup {request}, pc \in Awaiting, pc' \notin Awaiting
    PROVE  SignerTypes' /\ Requests' /\ Executed' /\ request' = Idle /\ request # Idle
<1>1. request' = Idle /\ handlers' \in [Handlers -> Signer!Transactions \cup {Idle}]
  BY MarketAssumption DEF Money, SignerTypes, request
<1>2. request \in Signer!Transactions /\ request # Idle
  BY MarketAssumption DEF Money, Requests
<1>3. SignerTypes'
  BY <1>1, <1>2 DEF Open, Money, SignerTypes, chain
<1>4. Requests' /\ Executed'
  BY <1>1 DEF Requests, Executed, Awaiting
<1>5. QED
  BY <1>1, <1>2, <1>3, <1>4

\* An answered request leaves nothing pending.
LEMMA ConfirmLemma ==
    ASSUME Types, Money, Signer!Confirm(handler), pc \in Awaiting, pc' \notin Awaiting, outcome' = outcome,
           \/ trouble'
           \/ trouble' = trouble /\ spentSol' = spentSol + (IF pc = "funding" THEN terms.amount ELSE 0)
    PROVE  Money'
<1>1. /\ handlers' = [handlers EXCEPT ![handler] = Idle]
      /\ UNCHANGED <<chain, orphans, restarts, funded, asked, lost, overlapped>> /\ request.landed
  BY DEF Signer!Confirm, Signer!chain, chain, Signer!history, request
<1>2. SignerTypes' /\ Requests' /\ Executed'
  BY <1>1, HandlerIsFreed
<1>3. Accounts'
  BY <1>1 DEF Money, Accounts, Landed, Awaiting, Types, Settling, Steps
<1>4. FundedOnce'
  BY <1>1 DEF Money, FundedOnce, Pending, Open, chain, Awaiting
<1>5. QED
  BY <1>2, <1>3, <1>4 DEF Money

LEMMA DepositedStep ==
    ASSUME Types, Money, Deposited
    PROVE  Money'
<1>1. /\ pc = "funding" /\ pc' = "confirm" /\ Signer!Confirm(handler) /\ spentSol' = spentSol + terms.amount
      /\ UNCHANGED history
  BY DEF Deposited, Spent
<1>2. QED
  BY <1>1, ConfirmLemma DEF Awaiting, history

LEMMA SettledStep ==
    ASSUME Types, Money, Settled
    PROVE  Money'
<1>1. /\ pc \in {"releasing", "refunding"} /\ pc' = "idle" /\ Signer!Confirm(handler) /\ spentSol' = spentSol
      /\ UNCHANGED history
  BY DEF Settled
<1>2. trouble' = trouble /\ outcome' = outcome /\ pc \in Awaiting /\ pc' \notin Awaiting /\ pc # "funding"
  BY <1>1 DEF Awaiting, history
<1>3. trouble' \/ (trouble' = trouble /\ spentSol' = spentSol + (IF pc = "funding" THEN terms.amount ELSE 0))
  <2>1. CASE trouble
    BY <2>1, <1>2
  <2>2. CASE ~trouble
    BY <1>1, <1>2, <2>2 DEF Money, Accounts
  <2>3. QED
    BY <2>1, <2>2
<1>4. QED
  BY <1>1, <1>2, <1>3, ConfirmLemma

LEMMA RoundErrorStep ==
    ASSUME Types, Money, RoundError
    PROVE  Money'
<1>1. pc' = "idle" /\ trouble' /\ UNCHANGED <<delivered, outcome>>
  BY DEF RoundError
<1>2. CASE pc \in DOMAIN Waiting /\ UNCHANGED <<chain, signer, spentSol>>
  <2>1. pc \notin Awaiting /\ pc' \notin Awaiting
    BY <1>1, <1>2 DEF Waiting, Awaiting
  <2>2. SignerTypes' /\ Requests' /\ FundedOnce' /\ Executed'
    BY <1>1, <1>2, <2>1
    DEF Money, SignerTypes, Requests, FundedOnce, Executed, Pending, Open, Awaiting, chain, signer, request
  <2>3. QED
    BY <1>1, <2>2 DEF Money, Accounts
<1>3. CASE pc \in Awaiting /\ Signer!Confirm(handler)
  BY <1>1, <1>3, ConfirmLemma DEF Awaiting
<1>4. QED
  BY <1>2, <1>3 DEF RoundError, Awaiting

LEMMA SignerFailsStep ==
    ASSUME Types, Money, SignerFails
    PROVE  Money'
<1>1. pc \in Awaiting /\ pc' = "idle" /\ trouble' = TRUE /\ UNCHANGED <<delivered, outcome>>
  BY DEF SignerFails, Awaiting
<1>2. /\ handlers' = [handlers EXCEPT ![handler] = Idle] /\ UNCHANGED chain /\ UNCHANGED <<funded, asked>>
      /\ \/ orphans' = orphans
         \/ ~request.landed /\ orphans' = orphans \cup {request}
  BY DEF SignerFails, Signer!Fail, Signer!LoseConfirmation, Signer!chain, chain, Signer!history, request
<1>3. SignerTypes' /\ Requests' /\ Executed'
  BY <1>1, <1>2, HandlerIsFreed DEF Awaiting
<1>4. FundedOnce'
  <2>1. \A t : Pending(t)' => Pending(t)
    BY <1>1, <1>2 DEF Money, Requests, Pending, Awaiting
  <2>2. \A ref : Open(ref)' <=> Open(ref)
    BY <1>2 DEF Open, chain
  <2>3. \A t, u \in orphans' : t.op = "deposit" /\ u.op = "deposit" /\ t.reference = u.reference => t = u
    <3>1. request.op = "deposit" => pc = "funding"
      BY <1>1 DEF Money, Requests, Awaiting
    <3>2. QED
      BY <1>2, <3>1 DEF Money, FundedOnce
  <2>4. QED
    BY <1>1, <1>2, <2>1, <2>2, <2>3 DEF Money, FundedOnce
<1>5. QED
  BY <1>1, <1>3, <1>4 DEF Money, Accounts

-----------------------------------------------------------------------------
(* The cluster executes what was sent.                                     *)

\* An escrow is closed the way the transaction says, and closed once.
LEMMA ClosingLemma ==
    ASSUME Types, Money, NEW t \in Signer!Transactions, Signer!Executes(t), Closing(t)
    PROVE  /\ outcome' \in [Refs -> {"none", "released", "refunded", "early"}]
           /\ t.op = "deposit" => outcome' = outcome
           /\ t.op = "release" => outcome'[t.reference] = "released"
           /\ t.op = "refund" => outcome'[t.reference] = "refunded"
           /\ \A ref \in Refs \ {t.reference} : outcome'[ref] = outcome[ref]
           /\ \A ref \in Refs : outcome[ref] # "none" => outcome'[ref] = outcome[ref]
<1>1. t.reference \in Refs /\ t.op \in {"deposit", "release", "refund"}
  BY DEF Signer!Transactions
<1>2. /\ t.op # "deposit" => outcome[t.reference] = "none"
      /\ t.op = "refund" => /\ now >= escrows[<<Buyer, t.reference>>].deadline
                            /\ escrows[<<Buyer, t.reference>>].deadline \in Int
      /\ now \in Int
  BY <1>1, ExecutesLemma DEF Money, FundedOnce, SignerTypes
<1>3. PICK o \in {"none", "released", "refunded", "early"} :
          /\ outcome' = [outcome EXCEPT ![t.reference] = o]
          /\ t.op = "deposit" => o = outcome[t.reference]
          /\ t.op = "release" => o = "released"
          /\ t.op = "refund" => o = IF now < escrows[<<Buyer, t.reference>>].deadline THEN "early" ELSE "refunded"
  <2>1. CASE t.op = "deposit"
    BY <1>1, <2>1 DEF Closing, Types
  <2>2. CASE t.op = "release"
    BY <2>2 DEF Closing
  <2>3. CASE t.op = "refund"
    BY <2>3 DEF Closing
  <2>4. QED
    BY <1>1, <2>1, <2>2, <2>3
<1>4. t.op = "refund" => o = "refunded"
  <2>1. PICK d : d = escrows[<<Buyer, t.reference>>].deadline
    OBVIOUS
  <2>2. QED
    BY <1>2, <1>3, <2>1
<1>5. QED
  BY <1>1, <1>2, <1>3, <1>4 DEF Types

\* No escrow is funded twice or opened again by a transaction that executes.
LEMMA StaysFundedOnce ==
    ASSUME Types, Money, NEW t \in Signer!Transactions, Signer!Executes(t), Closing(t), asked' = asked,
           Pending(t) \/ t.op # "deposit", orphans' \subseteq orphans, (pc = "funding") = (pc' = "funding"),
           request'.reference = request.reference \/ pc # "funding",
           \A u : Pending(u)' => Pending(u) /\ (t.op = "deposit" => u.reference # t.reference)
    PROVE  FundedOnce'
<1>1. t.reference \in Refs /\ t.op \in {"deposit", "release", "refund"}
  BY DEF Signer!Transactions
<1>2. /\ \A ref \in Refs \ {t.reference} : outcome'[ref] = outcome[ref] /\ (Open(ref)' <=> Open(ref))
      /\ t.op = "deposit" => outcome' = outcome
      /\ t.op # "deposit" => Open(t.reference) /\ ~Open(t.reference)'
  BY ClosingLemma, ExecutesLemma DEF Money
<1>3. t.op = "deposit" => t.reference \in asked /\ outcome[t.reference] = "none"
  BY DEF Money, FundedOnce
<1>4. \A ref \in Refs : Open(ref)' \/ outcome'[ref] # "none" => ref \in asked
  BY <1>1, <1>2, <1>3 DEF Money, FundedOnce
<1>5. \A ref \in Refs : outcome'[ref] # "none" => ~Open(ref)'
  BY <1>1, <1>2, <1>3 DEF Money, FundedOnce
<1>6. ASSUME NEW u \in Signer!Transactions, Pending(u)'
      PROVE  u.reference \in asked /\ ~Open(u.reference)' /\ outcome'[u.reference] = "none"
  <2>1. Pending(u) /\ u.reference \in Refs
    BY <1>6 DEF Signer!Transactions
  <2>2. u.reference \in asked /\ ~Open(u.reference) /\ outcome[u.reference] = "none"
    BY <2>1 DEF Money, FundedOnce
  <2>3. u.reference # t.reference
    BY <1>1, <1>2, <1>6, <2>2
  <2>4. QED
    BY <1>2, <2>1, <2>2, <2>3
<1>7. \A u, v \in orphans' : u.op = "deposit" /\ v.op = "deposit" /\ u.reference = v.reference => u = v
  BY DEF Money, FundedOnce
<1>8. pc' = "funding" => \A u \in orphans' : u.op = "deposit" => u.reference # request'.reference
  BY DEF Money, FundedOnce
<1>9. QED
  BY <1>4, <1>5, <1>6, <1>7, <1>8 DEF FundedOnce

LEMMA LandStep ==
    ASSUME Types, Money, Land
    PROVE  Money'
<1>1. /\ request # Idle /\ ~request.landed /\ Signer!Executes(request) /\ Closing(request)
      /\ handlers' = [handlers EXCEPT ![handler].landed = TRUE]
      /\ UNCHANGED <<orphans, asked, buyer, trouble>>
  BY DEF Land, Signer!Land, request
<1>2. request \in Signer!Transactions /\ pc \in Awaiting
  BY <1>1 DEF Money, Requests
<1>3. request' = [request EXCEPT !.landed = TRUE] /\ request' \in Signer!Transactions
      /\ handlers' \in [Handlers -> Signer!Transactions \cup {Idle}]
  <2>1. [request EXCEPT !.landed = TRUE] \in Signer!Transactions
    BY <1>2 DEF Signer!Transactions
  <2>2. request' = [request EXCEPT !.landed = TRUE]
    BY <1>1, MarketAssumption DEF request, Money, SignerTypes
  <2>3. handlers' = [handlers EXCEPT ![handler] = [request EXCEPT !.landed = TRUE]]
    BY <1>1 DEF request
  <2>4. QED
    BY <2>1, <2>2, <2>3 DEF Money, SignerTypes
<1>4. request'.landed /\ request'.op = request.op /\ request'.reference = request.reference
      /\ request'.amount = request.amount
  BY <1>2, <1>3 DEF Signer!Transactions
<1>5. SignerTypes'
  BY <1>1, <1>2, <1>3, ExecutesLemma DEF Money, SignerTypes
<1>6. Requests'
  BY <1>1, <1>2, <1>3, <1>4 DEF Money, Requests, buyer
<1>7. Accounts'
  <2>1. funded' = IF request.op = "deposit" THEN funded + request.amount ELSE funded
    BY <1>1, <1>2, ExecutesLemma DEF Money
  <2>2. request.op = "deposit" <=> pc = "funding"
    BY <1>2 DEF Money, Requests, Awaiting
  <2>3. Landed = 0 /\ Landed' = IF pc = "funding" THEN terms.amount ELSE 0
    BY <1>1, <1>4 DEF Landed, buyer
  <2>4. pc = "funding" => request.amount = terms.amount /\ terms.amount \in Nat
    BY DEF Money, Requests, Types, Settling, Steps
  <2>5. QED
    BY <1>1, <2>1, <2>2, <2>3, <2>4 DEF Money, Accounts, buyer
<1>8. FundedOnce'
  <2>1. Pending(request) \/ request.op # "deposit"
    BY <1>1, <1>2 DEF Money, Requests, Pending, Awaiting
  <2>2. \A u : Pending(u)' => Pending(u) /\ u \in orphans
    BY <1>1, <1>4 DEF Pending
  <2>3. \A u \in orphans : Pending(u) /\ request.op = "deposit" => u.reference # request.reference
    BY <1>2 DEF Money, Requests, FundedOnce, Pending, Awaiting
  <2>4. pc' = pc /\ orphans' = orphans /\ asked' = asked
    BY <1>1 DEF buyer
  <2>5. QED
    BY <1>1, <1>2, <1>4, <2>1, <2>2, <2>3, <2>4, StaysFundedOnce
<1>9. Executed'
  <2>1. pc' = pc /\ terms' = terms
    BY <1>1 DEF buyer
  <2>2. QED
    BY <1>1, <1>2, <2>1, ClosingLemma DEF Money, Requests, Executed, Awaiting
<1>10. QED
  BY <1>5, <1>6, <1>7, <1>8, <1>9 DEF Money

LEMMA OrphansStep ==
    ASSUME Types, Money, Orphans
    PROVE  Money'
<1>1. PICK t \in orphans :
          /\ orphans' = orphans \ {t}
          /\ \/ Signer!Executes(t) /\ Closing(t)
             \/ UNCHANGED <<chain, funded, outcome>>
  BY DEF Orphans, Signer!LandOrphan, Signer!DropOrphan, Signer!chain, chain, Signer!history
<1>2. UNCHANGED <<handlers, asked, buyer, trouble>>
  BY DEF Orphans, Signer!LandOrphan, Signer!DropOrphan, Signer!server, Signer!history
<1>3. t \in Signer!Transactions /\ trouble
  BY DEF Money, SignerTypes, Accounts
<1>4. request' = request /\ pc' = pc /\ terms' = terms
  BY <1>2 DEF request, buyer
<1>5. SignerTypes'
  <2>1. CASE Signer!Executes(t)
    BY <1>1, <1>2, <1>3, <2>1, ExecutesLemma DEF Money, SignerTypes
  <2>2. CASE UNCHANGED chain
    BY <1>1, <1>2, <2>2 DEF Open, Money, SignerTypes, chain
  <2>3. QED
    BY <1>1, <2>1, <2>2
<1>6. Requests' /\ Accounts'
  BY <1>2, <1>3, <1>4 DEF Money, Requests, Accounts
<1>7. \A u : Pending(u)' => Pending(u)
  BY <1>1, <1>4 DEF Pending
<1>8. FundedOnce' /\ Executed'
  <2>1. CASE Signer!Executes(t) /\ Closing(t)
    <3>1. \A u : Pending(u)' /\ t.op = "deposit" => u.reference # t.reference
      BY <1>1, <1>4 DEF Money, FundedOnce, Pending
    <3>2. Pending(t) \/ t.op # "deposit"
      BY DEF Pending
    <3>3. FundedOnce'
      BY <1>1, <1>2, <1>3, <1>4, <1>7, <2>1, <3>1, <3>2, StaysFundedOnce
    <3>4. Executed'
      BY <1>3, <1>4, <2>1, ClosingLemma DEF Money, Executed, Types, Settling, Steps
    <3>5. QED
      BY <3>3, <3>4
  <2>2. CASE UNCHANGED <<chain, funded, outcome>>
    BY <1>1, <1>2, <1>4, <1>7, <2>2 DEF Money, FundedOnce, Executed, Open, chain
  <2>3. QED
    BY <1>1, <2>1, <2>2
<1>9. QED
  BY <1>5, <1>6, <1>8 DEF Money

-----------------------------------------------------------------------------
(* What the agents remember.                                               *)

\* The buyer reads the message it waits for.
LEMMA AcceptsLemma ==
    ASSUME Mail, pc \in DOMAIN Waiting, Accepts
    PROVE  /\ inbox[BuyerAgent] # <<>> /\ Head(inbox[BuyerAgent]) \in Messages
           /\ Head(inbox[BuyerAgent]).type = Waiting[pc]
  BY ReadsLemma DEF Accepts, Matches, Agents

LEMMA BuyerTypes ==
    ASSUME Types, Mail, BuyerStep \/ SignerFails \/ RoundError
    PROVE  Types'
<1>1. UNCHANGED <<sellers, delivered, outcome>>
  BY DEF BuyerStep, StartRound, CollectBid, DropMention, Award, GiveUp, Fund, Deposited, ReadConfirmation,
     NotConfirmed, ReadDelivery, NotDelivered, Release, ReadFailure, Refund, Settled, SignerFails, RoundError,
     history, buyer
<1>2. quoted' \in [Sellers -> SUBSET Quotes] /\ awarded' \in [Sellers -> SUBSET AwardedOrders]
      /\ working' \in [Sellers -> AwardedOrders \cup {None}]
      /\ delivered' \in [Refs -> Payloads \cup {"nothing"}]
      /\ outcome' \in [Refs -> {"none", "released", "refunded", "early"}]
  BY <1>1 DEF Types, sellers
<1>3. SUFFICES /\ pc' \in Steps
               /\ round' \in 0..MaxRounds /\ (pc' # "idle" => round' \in Rounds)
               /\ \A b \in bids' : b.by \in Sellers
               /\ pc' \in Settling => /\ terms'.reference \in Refs /\ terms'.seller \in Wallets
                                      /\ terms'.amount \in Nat
  BY <1>2 DEF Types
<1>4. CASE StartRound
  BY <1>4, MarketAssumption DEF Types, StartRound, Steps, Settling, Rounds
<1>5. CASE CollectBid
  <2>1. Accepts /\ pc = "bids"
    BY <1>5 DEF CollectBid
  <2>2. Head(inbox[BuyerAgent]).by \in Sellers
    BY <2>1, AcceptsLemma, MessageLemma DEF Waiting
  <2>3. bids' \subseteq bids \cup {Head(inbox[BuyerAgent])} /\ UNCHANGED <<pc, round, terms>>
    BY <1>5 DEF CollectBid
  <2>4. QED
    BY <2>2, <2>3 DEF Types
<1>6. CASE Award
  BY <1>6 DEF Types, Award, Steps, Settling
<1>7. CASE GiveUp \/ NotConfirmed \/ SignerFails \/ RoundError \/ Settled
  <2>1. pc' = "idle" /\ UNCHANGED <<round, bids>>
    BY <1>7 DEF GiveUp, NotConfirmed, SignerFails, RoundError, Settled
  <2>2. QED
    BY <2>1 DEF Types, Steps, Settling
<1>8. CASE Fund
  <2>1. PICK t : t = Head(inbox[BuyerAgent])
    OBVIOUS
  <2>2. pc = "terms" /\ Accepts
    BY <1>8 DEF Fund
  <2>3. t \in Messages /\ t.type = "PAYMENT_REQUIRED"
    BY <2>1, <2>2, AcceptsLemma DEF Waiting
  <2>4. t.amount \in Nat /\ t.reference \in Refs /\ t.seller \in Wallets
    BY <2>3, MessageLemma
  <2>5. terms' = [reference |-> t.reference, seller |-> t.seller, amount |-> t.amount,
                  secs |-> t.secs, fundedAt |-> now]
    BY <1>8, <2>1 DEF Fund
  <2>6. pc' \in {"funding", "idle"} /\ UNCHANGED <<round, bids>>
    BY <1>8 DEF Fund
  <2>7. QED
    BY <2>2, <2>4, <2>5, <2>6 DEF Types, Steps
<1>9. CASE DropMention
  BY <1>9 DEF DropMention, buyer, Types
<1>10. CASE \/ Deposited \/ ReadConfirmation \/ ReadDelivery \/ NotDelivered
            \/ Release \/ ReadFailure \/ Refund
  <2>1. /\ pc \in Settling /\ pc' \in Steps /\ UNCHANGED <<round, bids, terms>>
    BY <1>10 DEF Deposited, ReadConfirmation, ReadDelivery, NotDelivered, Release, ReadFailure, Refund,
       Unpaid, Settling, Steps
  <2>2. QED
    BY <2>1 DEF Types, Settling, Steps
<1>11. QED
  BY <1>4, <1>5, <1>6, <1>7, <1>8, <1>9, <1>10 DEF BuyerStep

LEMMA SellerTypes ==
    ASSUME Types, Mail, NEW s \in Sellers, SellerStep(s) \/ SellerRestarts(s)
    PROVE  Types'
<1>1. UNCHANGED <<pc, round, bids, terms, outcome>>
  BY DEF SellerStep, SellerRestarts, Quote, RequirePayment, CheckPayment, Deliver, WorkFails, ProofError,
     SellerSkips, buyer, history
<1>2. SUFFICES /\ quoted' \in [Sellers -> SUBSET Quotes]
               /\ awarded' \in [Sellers -> SUBSET AwardedOrders]
               /\ working' \in [Sellers -> AwardedOrders \cup {None}]
               /\ delivered' \in [Refs -> Payloads \cup {"nothing"}]
  BY <1>1 DEF Types
<1>3. CASE Quote(s)
  <2>1. PICK m : m = Head(inbox[s])
    OBVIOUS
  <2>2. m \in Messages /\ m.type = "WANT"
    BY <1>3, <2>1, ReadsLemma DEF Quote, Has, Agents
  <2>3. m.round \in Rounds
    BY <2>2, MessageLemma
  <2>4. \/ quoted' = quoted
        \/ \E p \in Prices : quoted' = [quoted EXCEPT ![s] =
              {q \in @ : q.round # m.round} \cup {[round |-> m.round, price |-> p]}]
    BY <1>3, <2>1 DEF Quote
  <2>5. quoted' \in [Sellers -> SUBSET Quotes]
    BY <2>3, <2>4 DEF Types, Quotes
  <2>6. QED
    BY <1>3, <2>5 DEF Quote, Types, history
<1>4. CASE RequirePayment(s)
  <2>1. PICK q \in quoted[s], ref \in Refs :
            /\ q.round = Head(inbox[s]).round
            /\ awarded' = [awarded EXCEPT ![s] =
                  @ \cup {[reference |-> ref, round |-> Head(inbox[s]).round, price |-> q.price]}]
            /\ quoted' = [quoted EXCEPT ![s] = @ \ {q}]
    BY <1>4 DEF RequirePayment
  <2>2. q \in Quotes
    BY DEF Types
  <2>3. [reference |-> ref, round |-> Head(inbox[s]).round, price |-> q.price] \in AwardedOrders
    BY <2>1, <2>2 DEF Quotes, AwardedOrders
  <2>4. QED
    BY <1>4, <2>1, <2>3 DEF RequirePayment, Types, history
<1>5. CASE CheckPayment(s)
  <2>1. PICK o \in awarded[s] :
            \/ /\ awarded' = [awarded EXCEPT ![s] = @ \ {o}]
               /\ working' = [working EXCEPT ![s] = o]
            \/ UNCHANGED <<awarded, working>>
    BY <1>5 DEF CheckPayment
  <2>2. o \in AwardedOrders
    BY DEF Types
  <2>3. QED
    BY <1>5, <2>1, <2>2 DEF CheckPayment, Types, history
<1>6. CASE Deliver(s) \/ WorkFails(s) \/ SellerRestarts(s)
  BY <1>6 DEF Deliver, WorkFails, SellerRestarts, Types, history
<1>7. CASE ProofError(s) \/ SellerSkips(s)
  BY <1>7 DEF ProofError, SellerSkips, sellers, Types, history
<1>8. QED
  BY <1>3, <1>4, <1>5, <1>6, <1>7 DEF SellerStep

LEMMA OtherTypes ==
    ASSUME Types, Money, Verify \/ Land \/ Orphans \/ Tick
    PROVE  Types'
<1>1. UNCHANGED <<buyer, sellers, delivered>>
  BY DEF Verify, Land, Orphans, Tick, history
<1>2. outcome' \in [Refs -> {"none", "released", "refunded", "early"}]
  <2>1. CASE outcome' = outcome
    BY <2>1 DEF Types
  <2>2. CASE \E t \in Signer!Transactions : Signer!Executes(t) /\ Closing(t)
    BY <2>2, ClosingLemma
  <2>3. Land => request \in Signer!Transactions /\ Signer!Executes(request) /\ Closing(request)
    BY DEF Land, Signer!Land, Money, Requests, request
  <2>4. Orphans => \/ outcome' = outcome
                   \/ \E t \in orphans : Signer!Executes(t) /\ Closing(t)
    BY DEF Orphans, Signer!LandOrphan
  <2>5. QED
    BY <2>1, <2>2, <2>3, <2>4 DEF Verify, Tick, history, Money, SignerTypes
<1>3. QED
  BY <1>1, <1>2 DEF Types, buyer, sellers

-----------------------------------------------------------------------------
(* What the agents send.                                                   *)

\* An agent reads a message, or none, and sends one that announces nothing.
LEMMA PlainMail ==
    ASSUME Mail, AnnouncementsAreTrue, outcome' = outcome,
           \E box \in [Agents -> Seq(Messages)] :
              /\ \/ box = inbox
                 \/ \E a \in Agents : inbox[a] # <<>> /\ box = Reads(a)
              /\ \/ inbox' = box
                 \/ \E to, m : /\ m \in Messages /\ m.type \notin {"SETTLED", "REFUNDED"}
                              /\ inbox' = Sent(box, to, m)
    PROVE  Mail' /\ AnnouncementsAreTrue'
<1>1. PICK box \in [Agents -> Seq(Messages)] :
          /\ \/ box = inbox
             \/ \E a \in Agents : inbox[a] # <<>> /\ box = Reads(a)
          /\ \/ inbox' = box
             \/ \E to, m : /\ m \in Messages /\ m.type \notin {"SETTLED", "REFUNDED"}
                          /\ inbox' = Sent(box, to, m)
  OBVIOUS
<1>2. \A a \in Agents : In(box, a) \subseteq In(inbox, a)
  BY <1>1, ReadsLemma
<1>3. inbox' = box \/ \E to, m : m \in Messages /\ IsTrue(m)' /\ inbox' = Sent(box, to, m)
  BY <1>1 DEF IsTrue
<1>4. QED
  BY <1>2, <1>3, MailLemma

\* The same, an agent at a time.
LEMMA OnlySends ==
    ASSUME Mail, AnnouncementsAreTrue, outcome' = outcome, NEW to, NEW m \in Messages,
           m.type \notin {"SETTLED", "REFUNDED"}, inbox' = Sent(inbox, to, m)
    PROVE  Mail' /\ AnnouncementsAreTrue'
  BY PlainMail DEF Mail

LEMMA OnlyReads ==
    ASSUME Mail, AnnouncementsAreTrue, outcome' = outcome, NEW a \in Agents, inbox[a] # <<>>, inbox' = Reads(a)
    PROVE  Mail' /\ AnnouncementsAreTrue'
  BY PlainMail, ReadsLemma

LEMMA Answers ==
    ASSUME Mail, AnnouncementsAreTrue, outcome' = outcome, NEW a \in Agents, inbox[a] # <<>>, NEW to,
           NEW m \in Messages, m.type \notin {"SETTLED", "REFUNDED"}, inbox' = Sent(Reads(a), to, m)
    PROVE  Mail' /\ AnnouncementsAreTrue'
  BY PlainMail, ReadsLemma

LEMMA Silent ==
    ASSUME Mail, AnnouncementsAreTrue, inbox' = inbox,
           \A ref \in Refs : outcome[ref] # "none" => outcome'[ref] = outcome[ref]
    PROVE  Mail' /\ AnnouncementsAreTrue'
  BY MailLemma DEF Mail

LEMMA BuyerMail ==
    ASSUME IInv, BuyerStep \/ SignerFails \/ RoundError
    PROVE  Mail' /\ AnnouncementsAreTrue'
<1>1. outcome' = outcome
  BY DEF BuyerStep, StartRound, CollectBid, DropMention, Award, GiveUp, Fund, Deposited, ReadConfirmation,
     NotConfirmed, ReadDelivery, NotDelivered, Release, ReadFailure, Refund, Settled, SignerFails, RoundError,
     history
<1>2. Mail /\ AnnouncementsAreTrue /\ Types /\ BuyerAgent \in Agents /\ (pc # "idle" => round \in Rounds)
  BY DEF IInv, Agents, Types
<1>3. CASE StartRound
  <2>1. [type |-> "WANT", round |-> round + 1, budget |-> BUDGET] \in Messages
    BY <1>2, <1>3, MarketAssumption DEF StartRound, Types, Rounds, Messages
  <2>2. QED
    BY <1>1, <1>2, <1>3, <2>1, OnlySends DEF StartRound
<1>4. CASE Award
  <2>1. PICK b \in bids :
            inbox' = Sent(inbox, {b.by}, [type |-> "AWARD", round |-> round, to |-> b.by])
    BY <1>4 DEF Award
  <2>2. [type |-> "AWARD", round |-> round, to |-> b.by] \in Messages
    BY <1>2, <1>4 DEF Award, Types, Messages
  <2>3. QED
    BY <1>1, <1>2, <2>1, <2>2, OnlySends
<1>5. CASE \/ CollectBid \/ DropMention \/ Fund \/ ReadConfirmation \/ Release \/ ReadFailure
  <2>1. inbox[BuyerAgent] # <<>> /\ inbox' = Reads(BuyerAgent)
    BY <1>5 DEF CollectBid, DropMention, Fund, ReadConfirmation, Release, ReadFailure, Accepts
  <2>2. QED
    BY <1>1, <1>2, <2>1, OnlyReads
<1>6. CASE \/ GiveUp \/ NotConfirmed \/ NotDelivered \/ Refund \/ SignerFails \/ RoundError
  BY <1>1, <1>2, <1>6, Silent DEF GiveUp, NotConfirmed, NotDelivered, Refund, SignerFails, RoundError
<1>7. CASE Deposited
  <2>1. terms.reference \in Refs /\ round \in Rounds
    BY <1>2, <1>7 DEF Deposited, Types, Settling, Steps
  <2>2. [type |-> "PAYMENT_PROOF", round |-> round, reference |-> terms.reference] \in Messages
    BY <2>1 DEF Messages
  <2>3. QED
    BY <1>1, <1>2, <1>7, <2>2, OnlySends DEF Deposited
<1>8. CASE ReadDelivery
  <2>1. PICK m : m = Head(inbox[BuyerAgent])
    OBVIOUS
  <2>2. pc = "delivery" /\ Accepts
    BY <1>8 DEF ReadDelivery
  <2>3. inbox[BuyerAgent] # <<>> /\ m \in Messages /\ m.type = "DELIVERED"
    BY <1>2, <2>1, <2>2, AcceptsLemma DEF Waiting
  <2>4. [type |-> "VERIFY", round |-> round, sha |-> m.payload, payload |-> m.payload] \in Messages
    BY <1>2, <2>2, <2>3, MessageLemma DEF Messages
  <2>5. QED
    BY <1>1, <1>2, <1>8, <2>1, <2>3, <2>4, Answers DEF ReadDelivery
<1>9. CASE Settled
  <2>1. PICK m : m = [type |-> Announcement, round |-> round, reference |-> terms.reference]
    OBVIOUS
  <2>2. pc \in {"releasing", "refunding"} /\ Signer!Confirm(handler)
    BY <1>9 DEF Settled
  <2>3. terms.reference \in Refs /\ round \in Rounds /\ Announcement \in {"SETTLED", "REFUNDED"}
    BY <1>2, <2>2 DEF Types, Settling, Steps, Announcement
  <2>4. m \in Messages
    BY <2>1, <2>3 DEF Messages
  <2>5. IsTrue(m)'
    BY <1>1, <2>1, <2>2 DEF IsTrue, IInv, Money, Executed, Announcement, Signer!Confirm, request
  <2>6. \E to : inbox' = Sent(inbox, to, m)
    BY <1>9, <2>1 DEF Settled
  <2>7. QED
    BY <1>1, <1>2, <2>4, <2>5, <2>6, MailLemma DEF Mail
<1>10. QED
  BY <1>3, <1>4, <1>5, <1>6, <1>7, <1>8, <1>9 DEF BuyerStep

LEMMA SellerMail ==
    ASSUME IInv, NEW s \in Sellers, SellerStep(s) \/ SellerRestarts(s)
    PROVE  Mail' /\ AnnouncementsAreTrue'
<1>1. outcome' = outcome
  BY DEF SellerStep, SellerRestarts, Quote, RequirePayment, CheckPayment, Deliver, WorkFails, ProofError,
     SellerSkips, history
<1>2. Mail /\ AnnouncementsAreTrue /\ Types /\ s \in Agents
  BY DEF IInv, Agents
<1>3. PICK m : m = Head(inbox[s])
  OBVIOUS
<1>4. ASSUME inbox[s] # <<>>
      PROVE  m \in Messages /\ (m.type # "ERROR" => m.round \in Rounds)
  BY <1>2, <1>3, <1>4, ReadsLemma, MessageLemma
<1>5. [type |-> "ERROR", round |-> 0] \in Messages
  BY DEF Messages
<1>6. CASE Quote(s)
  <2>1. inbox[s] # <<>> /\ m.type = "WANT" /\ m.round \in Rounds
    BY <1>3, <1>4, <1>6 DEF Quote, Has
  <2>2. CASE inbox' = Reads(s)
    BY <1>1, <1>2, <2>1, <2>2, OnlyReads
  <2>3. ASSUME NEW p \in Prices,
               inbox' = Sent(Reads(s), {BuyerAgent}, [type |-> "BID", round |-> m.round, price |-> p, by |-> s])
        PROVE  Mail' /\ AnnouncementsAreTrue'
    <3>1. [type |-> "BID", round |-> m.round, price |-> p, by |-> s] \in Messages
      BY <2>1 DEF Messages
    <3>2. QED
      BY <1>1, <1>2, <2>1, <2>3, <3>1, Answers
  <2>4. QED
    BY <1>3, <1>6, <2>2, <2>3 DEF Quote
<1>7. CASE RequirePayment(s)
  <2>1. inbox[s] # <<>> /\ m.round \in Rounds
    BY <1>3, <1>4, <1>7 DEF RequirePayment, Has
  <2>2. PICK q \in quoted[s], ref \in Refs :
            inbox' = Sent(Reads(s), {BuyerAgent},
                 [type |-> "PAYMENT_REQUIRED", round |-> m.round, amount |-> q.price,
                  reference |-> ref, seller |-> SELLER, secs |-> DeadlineSecs])
    BY <1>3, <1>7 DEF RequirePayment
  <2>3. q.price \in Prices
    BY <1>2 DEF Types, Quotes
  <2>4. [type |-> "PAYMENT_REQUIRED", round |-> m.round, amount |-> q.price,
         reference |-> ref, seller |-> SELLER, secs |-> DeadlineSecs] \in Messages
    BY <2>1, <2>3, MarketAssumption DEF Messages
  <2>5. QED
    BY <1>1, <1>2, <2>1, <2>2, <2>4, Answers
<1>8. CASE CheckPayment(s)
  <2>1. inbox[s] # <<>>
    BY <1>8 DEF CheckPayment, Has
  <2>2. PICK o \in awarded[s] :
            inbox' = Sent(Reads(s), {BuyerAgent}, [type |-> "CONFIRMED", round |-> o.round, paid |-> IsFunded(o)])
    BY <1>8 DEF CheckPayment
  <2>3. IsFunded(o) \in BOOLEAN
    BY DEF IsFunded
  <2>4. o.round \in Rounds
    BY <1>2 DEF Types, AwardedOrders
  <2>5. [type |-> "CONFIRMED", round |-> o.round, paid |-> IsFunded(o)] \in Messages
    BY <2>3, <2>4 DEF Messages
  <2>6. QED
    BY <1>1, <1>2, <2>1, <2>2, <2>5, Answers
<1>9. CASE Deliver(s)
  <2>1. PICK work \in Payloads :
            inbox' = Sent(inbox, {BuyerAgent}, [type |-> "DELIVERED", round |-> working[s].round, payload |-> work])
    BY <1>9 DEF Deliver
  <2>2. working[s].round \in Rounds
    BY <1>2, <1>9 DEF Deliver, Free, Types, AwardedOrders
  <2>3. [type |-> "DELIVERED", round |-> working[s].round, payload |-> work] \in Messages
    BY <2>2 DEF Messages
  <2>4. QED
    BY <1>1, <1>2, <2>1, <2>3, OnlySends
<1>10. CASE WorkFails(s)
  BY <1>1, <1>2, <1>5, <1>10, OnlySends DEF WorkFails
<1>11. CASE ProofError(s)
  BY <1>1, <1>2, <1>5, <1>11, Answers DEF ProofError, Has
<1>12. CASE SellerSkips(s)
  BY <1>1, <1>2, <1>12, OnlyReads DEF SellerSkips
<1>13. CASE SellerRestarts(s)
  BY <1>1, <1>2, <1>13, Silent DEF SellerRestarts
<1>14. QED
  BY <1>6, <1>7, <1>8, <1>9, <1>10, <1>11, <1>12, <1>13 DEF SellerStep

LEMMA OtherMail ==
    ASSUME IInv, Verify \/ Land \/ Orphans \/ Tick
    PROVE  Mail' /\ AnnouncementsAreTrue'
<1>1. Mail /\ AnnouncementsAreTrue /\ Types /\ Money /\ Verifier \in Agents
  BY DEF IInv, Agents
<1>2. CASE Verify
  <2>1. PICK m : m = Head(inbox[Verifier])
    OBVIOUS
  <2>2. inbox[Verifier] # <<>> /\ m.type = "VERIFY" /\ outcome' = outcome
    BY <1>2, <2>1 DEF Verify, Has, history
  <2>3. m \in Messages
    BY <1>1, <2>1, <2>2, ReadsLemma
  <2>4. PICK v \in Verdicts(m) :
            inbox' = Sent(Reads(Verifier), {BuyerAgent},
                        [type |-> "VERIFIED", round |-> m.round, verdict |-> v, sha |-> m.payload])
    BY <1>2, <2>1 DEF Verify
  <2>5. [type |-> "VERIFIED", round |-> m.round, verdict |-> v, sha |-> m.payload] \in Messages
    BY <2>2, <2>3, MessageLemma DEF Messages, Verdicts
  <2>6. QED
    BY <1>1, <2>2, <2>4, <2>5, Answers
<1>3. CASE Land \/ Orphans
  <2>1. inbox' = inbox
    BY <1>3 DEF Land, Orphans
  <2>2. \/ outcome' = outcome
        \/ \E t \in Signer!Transactions : Signer!Executes(t) /\ Closing(t)
    BY <1>1, <1>3 DEF Land, Orphans, Signer!Land, Signer!LandOrphan, Money, SignerTypes, Requests, request
  <2>3. \A ref \in Refs : outcome[ref] # "none" => outcome'[ref] = outcome[ref]
    BY <1>1, <2>2, ClosingLemma
  <2>4. QED
    BY <1>1, <2>1, <2>3, Silent
<1>4. CASE Tick
  BY <1>1, <1>4, Silent DEF Tick, history
<1>5. QED
  BY <1>2, <1>3, <1>4

-----------------------------------------------------------------------------
(* The invariant.                                                          *)

LEMMA InitHolds == Init => IInv
<1>1. SUFFICES ASSUME Init PROVE IInv
  OBVIOUS
<1>2. Types
  BY <1>1, MarketAssumption DEF Init, Types, Steps, Settling
<1>3. Mail /\ AnnouncementsAreTrue
  BY <1>1 DEF Init, Mail, AnnouncementsAreTrue, Agents
<1>4. /\ now = 0 /\ escrows = [k \in Wallets \X Refs |-> NoEscrow] /\ orphans = {} /\ funded = 0
      /\ handlers = [h \in Handlers |-> Idle]
  BY <1>1 DEF Init, Signer!Init, Signer!Chain!Init, Signer!Chain!Keys
<1>5. (\A ref \in Refs : ~Open(ref)) /\ request = Idle /\ pc = "idle"
  BY <1>1, <1>4, MarketAssumption DEF Open, request, Init
<1>6. SignerTypes
  BY <1>4, <1>5 DEF SignerTypes
<1>7. Requests /\ Accounts /\ Executed
  BY <1>1, <1>4, <1>5, MarketAssumption DEF Init, Requests, Accounts, Landed, Executed, Awaiting
<1>8. FundedOnce
  BY <1>1, <1>4, <1>5 DEF Init, FundedOnce, Pending
<1>9. QED
  BY <1>2, <1>3, <1>6, <1>7, <1>8 DEF IInv, Money

LEMMA MoneyPreserved ==
    ASSUME IInv, Next
    PROVE  Money'
<1>1. Types /\ Mail /\ Money
  BY DEF IInv
<1>2. CASE \/ StartRound \/ CollectBid \/ DropMention \/ Award \/ GiveUp \/ ReadConfirmation \/ NotConfirmed
           \/ ReadDelivery \/ NotDelivered \/ ReadFailure
  <2>1. Quiet
    BY <1>2 DEF Quiet, StartRound, CollectBid, DropMention, Award, GiveUp, ReadConfirmation, NotConfirmed,
       ReadDelivery, NotDelivered, ReadFailure, Unpaid, Awaiting, Waiting, buyer, history
  <2>2. QED
    BY <1>1, <2>1, QuietStep
<1>3. CASE \/ Verify
           \/ \E s \in Sellers : SellerStep(s) \/ SellerRestarts(s)
  <2>1. Quiet
    BY <1>3 DEF Quiet, Verify, SellerStep, SellerRestarts, Quote, RequirePayment, CheckPayment, Deliver,
       WorkFails, ProofError, SellerSkips, buyer, history
  <2>2. QED
    BY <1>1, <2>1, QuietStep
<1>4. CASE Fund \/ Deposited \/ Release \/ Refund \/ Settled
  BY <1>1, <1>4, FundStep, DepositedStep, ReleaseStep, RefundStep, SettledStep
<1>5. CASE SignerFails \/ RoundError
  BY <1>1, <1>5, SignerFailsStep, RoundErrorStep
<1>6. CASE Land \/ Orphans \/ Tick
  BY <1>1, <1>6, LandStep, OrphansStep, ClockTicks
<1>7. QED
  BY <1>2, <1>3, <1>4, <1>5, <1>6 DEF Next, BuyerStep

LEMMA NextPreserves == IInv /\ [Next]_vars => IInv'
<1>1. SUFFICES ASSUME IInv, [Next]_vars PROVE IInv'
  OBVIOUS
<1>2. Types /\ Mail /\ Money /\ AnnouncementsAreTrue
  BY <1>1 DEF IInv
<1>3. CASE UNCHANGED vars
  <2>1. UNCHANGED <<chain, signer, buyer, sellers, history, inbox>>
    BY <1>3 DEF vars
  <2>2. Quiet
    BY <2>1 DEF Quiet, buyer, history
  <2>3. Types'
    BY <1>2, <2>1 DEF Types, buyer, sellers, history
  <2>4. Mail' /\ AnnouncementsAreTrue'
    BY <1>2, <2>1, Silent DEF history
  <2>5. QED
    BY <1>2, <2>2, <2>3, <2>4, QuietStep DEF IInv
<1>4. CASE Next
  <2>1. Money'
    BY <1>1, <1>4, MoneyPreserved
  <2>2. CASE BuyerStep \/ SignerFails \/ RoundError
    BY <1>1, <1>2, <2>1, <2>2, BuyerTypes, BuyerMail DEF IInv
  <2>3. CASE \E s \in Sellers : SellerStep(s) \/ SellerRestarts(s)
    BY <1>1, <1>2, <2>1, <2>3, SellerTypes, SellerMail DEF IInv
  <2>4. CASE Verify \/ Land \/ Orphans \/ Tick
    BY <1>1, <1>2, <2>1, <2>4, OtherTypes, OtherMail DEF IInv
  <2>5. QED
    BY <1>4, <2>2, <2>3, <2>4 DEF Next
<1>5. QED
  BY <1>1, <1>3, <1>4

-----------------------------------------------------------------------------
(* The work: a release is for a patch that passes, and nobody works for it *)
(* any more.                                                               *)

\* The orders a seller may still work for, and is working for.
Held(s) == awarded[s] \cup ({working[s]} \ {None})

\* Nobody delivers under the reference any more.
Done(ref) == \A s \in Sellers : \A o \in Held(s) : o.reference # ref

\* The buyer's round is over with the delivery of p under its reference.
IsDelivered(p) == Done(terms.reference) /\ delivered[terms.reference] = p

\* A reference is one seller's, for one order.
Owned ==
    /\ \A s \in Sellers : \A o \in Held(s) : o.reference \in issued
    /\ \A s, r \in Sellers : \A o \in Held(s), p \in Held(r) : o.reference = p.reference => s = r /\ o = p
    /\ \A s \in Sellers : working[s] \notin awarded[s]

Issued ==
    /\ \A m \in In(inbox, BuyerAgent) : m.type = "PAYMENT_REQUIRED" => m.reference \in issued
    /\ pc \in Settling => terms.reference \in issued
    /\ asked \subseteq issued

\* Nothing is said or ordered for a round to come.
RoundsPass ==
    /\ \A a \in Agents : \A m \in In(inbox, a) : m.round =< round
    /\ \A s \in Sellers : \A o \in Held(s) : o.round =< round

\* Of the orders of this round, one at most has a deposit asked for: the one
\* whose terms the buyer took.
OneDepositARound ==
    /\ \A s \in Sellers : working[s] # None => working[s].reference \in asked
    /\ \A s \in Sellers : \A o \in Held(s) : o.round = round /\ o.reference \in asked =>
          /\ pc \notin {"bids", "terms"}
          /\ pc \in Settling => o.reference = terms.reference

\* What is delivered for this round is delivered under its reference.
Deliveries ==
    /\ \A m \in In(inbox, BuyerAgent) : m.type = "DELIVERED" /\ m.round = round =>
          /\ pc \notin {"bids", "terms"}
          /\ pc \in Settling => IsDelivered(m.payload)
    /\ pc \in {"verdict", "releasing"} => IsDelivered(payload)
    /\ pc = "releasing" => payload = "good"

VerdictsAreEarned ==
    \A m \in In(inbox, BuyerAgent) : m.type = "VERIFIED" /\ m.verdict = "pass" => m.sha = "good"

\* So are the releases that nobody awaits any more.
ReleasesAreEarned ==
    \A t \in orphans : t.op = "release" =>
        t.reference \in issued /\ Done(t.reference) /\ delivered[t.reference] = "good"

FundedWork ==
    \A s \in Sellers : working[s] # None =>
        Open(working[s].reference) \/ outcome[working[s].reference] = "refunded"

Conversation == Owned /\ Issued /\ RoundsPass /\ OneDepositARound
Earned == Deliveries /\ VerdictsAreEarned /\ ReleasesAreEarned /\ FundedWork /\ PaidOnlyForGoodWork

Work == Conversation /\ Earned

-----------------------------------------------------------------------------
\* Messages that bear on the work come from the sellers and the verifier.
FromOthers == {"PAYMENT_REQUIRED", "DELIVERED", "VERIFIED"}

BuyerSays == \A a \in Agents : \A m \in In(inbox', a) :
                m \in In(inbox, a) \/ (m.type \notin FromOthers /\ m.round = round')

LEMMA SaysLemma ==
    ASSUME Mail,
           \/ inbox' = inbox
           \/ inbox[BuyerAgent] # <<>> /\ inbox' = Reads(BuyerAgent)
           \/ \E to, m : /\ m \in Messages /\ m.type \notin FromOthers /\ m.round = round'
                        /\ \/ inbox' = Sent(inbox, to, m)
                           \/ inbox[BuyerAgent] # <<>> /\ inbox' = Sent(Reads(BuyerAgent), to, m)
    PROVE  BuyerSays
<1>1. BuyerAgent \in Agents /\ inbox \in [Agents -> Seq(Messages)]
  BY DEF Agents, Mail
<1>2. CASE inbox' = inbox
  BY <1>2 DEF BuyerSays
<1>3. CASE inbox[BuyerAgent] # <<>> /\ inbox' = Reads(BuyerAgent)
  BY <1>1, <1>3, ReadsLemma DEF BuyerSays
<1>4. ASSUME NEW to, NEW m \in Messages, m.type \notin FromOthers, m.round = round',
             inbox' = Sent(inbox, to, m)
      PROVE  BuyerSays
  BY <1>1, <1>4, SentLemma DEF BuyerSays
<1>5. ASSUME NEW to, NEW m \in Messages, m.type \notin FromOthers, m.round = round',
             inbox[BuyerAgent] # <<>>, inbox' = Sent(Reads(BuyerAgent), to, m)
      PROVE  BuyerSays
  <2>1. /\ Reads(BuyerAgent) \in [Agents -> Seq(Messages)]
        /\ \A b \in Agents : In(Reads(BuyerAgent), b) \subseteq In(inbox, b)
    BY <1>1, <1>5, ReadsLemma
  <2>2. \A b \in Agents : In(inbox', b) \subseteq In(Reads(BuyerAgent), b) \cup {m}
    BY <1>5, <2>1, SentLemma
  <2>3. QED
    BY <1>5, <2>1, <2>2 DEF BuyerSays
<1>6. QED
  BY <1>2, <1>3, <1>4, <1>5

LEMMA BuyerSaysLemma ==
    ASSUME IInv, BuyerStep \/ SignerFails \/ RoundError
    PROVE  BuyerSays
<1>1. Mail /\ Types /\ (pc # "idle" => round \in Rounds)
  BY DEF IInv, Types
<1>2. CASE StartRound
  <2>1. PICK m : m = [type |-> "WANT", round |-> round + 1, budget |-> BUDGET]
    OBVIOUS
  <2>2. m \in Messages /\ m.type \notin FromOthers /\ m.round = round'
    BY <1>1, <1>2, <2>1, MarketAssumption DEF StartRound, Types, Rounds, Messages, FromOthers
  <2>3. \E to : inbox' = Sent(inbox, to, m)
    BY <1>2, <2>1 DEF StartRound
  <2>4. QED
    BY <1>1, <2>2, <2>3, SaysLemma
<1>3. CASE Award
  <2>1. PICK b \in bids :
            inbox' = Sent(inbox, {b.by}, [type |-> "AWARD", round |-> round, to |-> b.by])
    BY <1>3 DEF Award
  <2>2. PICK m : m = [type |-> "AWARD", round |-> round, to |-> b.by]
    OBVIOUS
  <2>3. m \in Messages /\ m.type \notin FromOthers /\ m.round = round'
    BY <1>1, <1>3, <2>2 DEF Award, Types, Messages, FromOthers
  <2>4. QED
    BY <1>1, <2>1, <2>2, <2>3, SaysLemma
<1>4. CASE \/ CollectBid \/ DropMention \/ Fund \/ ReadConfirmation \/ Release \/ ReadFailure
  <2>1. inbox[BuyerAgent] # <<>> /\ inbox' = Reads(BuyerAgent)
    BY <1>4 DEF CollectBid, DropMention, Fund, ReadConfirmation, Release, ReadFailure, Accepts
  <2>2. QED
    BY <1>1, <2>1, SaysLemma
<1>5. CASE \/ GiveUp \/ NotConfirmed \/ NotDelivered \/ Refund \/ SignerFails \/ RoundError
  <2>1. inbox' = inbox
    BY <1>5 DEF GiveUp, NotConfirmed, NotDelivered, Refund, SignerFails, RoundError
  <2>2. QED
    BY <1>1, <2>1, SaysLemma
<1>6. CASE Deposited
  <2>1. PICK m : m = [type |-> "PAYMENT_PROOF", round |-> round, reference |-> terms.reference]
    OBVIOUS
  <2>2. m \in Messages /\ m.type \notin FromOthers /\ m.round = round'
    BY <1>1, <1>6, <2>1 DEF Deposited, Types, Settling, Steps, Messages, FromOthers
  <2>3. \E to : inbox' = Sent(inbox, to, m)
    BY <1>6, <2>1 DEF Deposited
  <2>4. QED
    BY <1>1, <2>2, <2>3, SaysLemma
<1>7. CASE ReadDelivery
  <2>1. PICK m : m = Head(inbox[BuyerAgent])
    OBVIOUS
  <2>2. pc = "delivery" /\ Accepts
    BY <1>7 DEF ReadDelivery
  <2>3. inbox[BuyerAgent] # <<>> /\ m \in Messages /\ m.type = "DELIVERED"
    BY <1>1, <2>1, <2>2, AcceptsLemma DEF Waiting
  <2>4. PICK n : n = [type |-> "VERIFY", round |-> round, sha |-> m.payload, payload |-> m.payload]
    OBVIOUS
  <2>5. n \in Messages /\ n.type \notin FromOthers /\ n.round = round'
    BY <1>1, <1>7, <2>2, <2>3, <2>4, MessageLemma DEF Messages, FromOthers, ReadDelivery
  <2>6. \E to : inbox' = Sent(Reads(BuyerAgent), to, n)
    BY <1>7, <2>1, <2>4 DEF ReadDelivery
  <2>7. QED
    BY <1>1, <2>3, <2>5, <2>6, SaysLemma
<1>8. CASE Settled
  <2>1. PICK m : m = [type |-> Announcement, round |-> round, reference |-> terms.reference]
    OBVIOUS
  <2>2. m \in Messages /\ m.type \notin FromOthers /\ m.round = round'
    BY <1>1, <1>8, <2>1 DEF Settled, Types, Settling, Steps, Announcement, Messages, FromOthers
  <2>3. \E to : inbox' = Sent(inbox, to, m)
    BY <1>8, <2>1 DEF Settled
  <2>4. QED
    BY <1>1, <2>2, <2>3, SaysLemma
<1>9. QED
  BY <1>2, <1>3, <1>4, <1>5, <1>6, <1>7, <1>8 DEF BuyerStep

-----------------------------------------------------------------------------
(* The buyer moves on within its round.                                    *)

\* The orders and the escrows stay as they are, and only a round whose work is
\* good goes on to its release.
Moves ==
    /\ UNCHANGED <<sellers, delivered, outcome, asked, round, terms, escrows>>
    /\ \A t \in orphans' \ orphans : t.op = "release" => pc = "releasing" /\ t.reference = terms.reference
    /\ pc' \in {"bids", "terms"} => pc \in {"bids", "terms"}
    /\ pc' \in Settling => pc \in Settling
    /\ pc' \in {"verdict", "releasing"} => pc \in {"verdict", "releasing"} /\ payload' = payload
    /\ pc' = "releasing" => payload' = "good"

LEMMA MovesLemma ==
    ASSUME Types, Work, BuyerSays, Moves
    PROVE  Work'
<1>1. /\ \A s : Held(s)' = Held(s)
      /\ \A ref : (Done(ref)' <=> Done(ref)) /\ (Open(ref)' <=> Open(ref))
      /\ \A q : IsDelivered(q)' <=> IsDelivered(q)
      /\ issued' = issued /\ awarded' = awarded /\ working' = working
  BY DEF Moves, Held, Done, Open, IsDelivered, sellers
<1>2. \A m \in In(inbox', BuyerAgent) : m.type \in FromOthers => m \in In(inbox, BuyerAgent)
  BY DEF BuyerSays, Agents
<1>3. Owned' /\ OneDepositARound'
  BY <1>1 DEF Moves, Work, Conversation, Owned, OneDepositARound
<1>4. Issued'
  BY <1>1, <1>2 DEF Moves, Work, Conversation, Issued, FromOthers
<1>5. RoundsPass'
  <2>1. round \in Int
    BY MarketAssumption DEF Types
  <2>2. QED
    BY <1>1, <2>1 DEF Moves, Work, Conversation, RoundsPass, BuyerSays
<1>6. Deliveries'
  <2>1. pc' \in {"verdict", "releasing"} => IsDelivered(payload)'
    BY <1>1 DEF Moves, Work, Earned, Deliveries, IsDelivered
  <2>2. QED
    BY <1>1, <1>2, <2>1 DEF Moves, Work, Earned, Deliveries, FromOthers
<1>7. VerdictsAreEarned'
  BY <1>2 DEF Moves, Work, Earned, VerdictsAreEarned, FromOthers
<1>8. ReleasesAreEarned'
  <2>1. pc = "releasing" => /\ terms.reference \in issued /\ Done(terms.reference)
                            /\ delivered[terms.reference] = "good"
    BY DEF Moves, Work, Conversation, Earned, Issued, Deliveries, IsDelivered, Settling, Steps
  <2>2. QED
    BY <1>1, <2>1 DEF Moves, Work, Earned, ReleasesAreEarned
<1>9. FundedWork' /\ PaidOnlyForGoodWork'
  BY <1>1 DEF Moves, Work, Earned, FundedWork, PaidOnlyForGoodWork
<1>10. QED
  BY <1>3, <1>4, <1>5, <1>6, <1>7, <1>8, <1>9 DEF Moves, Work, Conversation, Earned

LEMMA BuyerMoves ==
    ASSUME IInv, Work,
           \/ CollectBid \/ DropMention \/ Award \/ GiveUp \/ Deposited \/ ReadConfirmation \/ NotConfirmed
           \/ NotDelivered \/ Release \/ ReadFailure \/ Refund \/ Settled \/ SignerFails \/ RoundError
    PROVE  Work'
<1>1. UNCHANGED <<sellers, delivered, outcome, round, terms>>
  BY DEF CollectBid, DropMention, Award, GiveUp, Deposited, ReadConfirmation, NotConfirmed,
     NotDelivered, Release, ReadFailure, Refund, Settled, SignerFails, RoundError, history, buyer
<1>2. CASE SignerFails
  <2>1. /\ UNCHANGED <<escrows, asked>> /\ pc' = "idle"
        /\ \/ orphans' = orphans
           \/ orphans' = orphans \cup {request}
    BY <1>2 DEF SignerFails, Signer!Fail, Signer!LoseConfirmation, Signer!chain, Signer!history, request
  <2>2. request.op = "release" => pc = "releasing" /\ request.reference = terms.reference
    BY <1>2 DEF SignerFails, IInv, Money, Requests, Awaiting
  <2>3. \A t \in orphans' \ orphans : t.op = "release" => pc = "releasing" /\ t.reference = terms.reference
    BY <2>1, <2>2
  <2>4. pc' \notin {"bids", "terms", "verdict", "releasing"} \cup Settling
    BY <2>1 DEF Settling
  <2>5. Types /\ BuyerSays
    BY <1>2, BuyerSaysLemma DEF IInv
  <2>6. Moves
    BY <1>1, <2>1, <2>3, <2>4 DEF Moves
  <2>7. QED
    BY <2>5, <2>6, MovesLemma
<1>3. CASE \/ CollectBid \/ DropMention \/ Award \/ GiveUp \/ Deposited \/ ReadConfirmation \/ NotConfirmed
           \/ NotDelivered \/ ReadFailure \/ Refund \/ Settled \/ RoundError
  <2>1. UNCHANGED <<escrows, asked, orphans>>
    BY <1>3 DEF CollectBid, DropMention, Award, GiveUp, Deposited, ReadConfirmation, NotConfirmed,
       NotDelivered, ReadFailure, Refund, Settled, RoundError, Signer!Confirm, Signer!Refund, Signer!Send,
       Signer!chain, Signer!history, chain, signer
  <2>2. /\ pc' \in {"bids", "terms"} => pc \in {"bids", "terms"}
        /\ pc' \in Settling => pc \in Settling
        /\ pc' \in {"verdict", "releasing"} => pc' = pc /\ payload' = payload
    BY <1>3 DEF CollectBid, DropMention, Award, GiveUp, Deposited, ReadConfirmation, NotConfirmed,
       NotDelivered, ReadFailure, Refund, Settled, RoundError, Unpaid, buyer, Settling, Steps
  <2>3. pc' = "releasing" => payload' = "good"
    BY <2>2 DEF Work, Earned, Deliveries
  <2>4. Types /\ BuyerSays
    BY <1>3, BuyerSaysLemma DEF IInv, BuyerStep
  <2>5. Moves
    BY <1>1, <2>1, <2>2, <2>3 DEF Moves
  <2>6. QED
    BY <2>4, <2>5, MovesLemma
<1>4. CASE Release
  <2>1. UNCHANGED <<escrows, asked, orphans, payload>> /\ pc = "verdict" /\ pc' = "releasing"
    BY <1>4 DEF Release, Signer!Release, Signer!Send, Signer!chain, Signer!history
  <2>2. PICK m : m = Head(inbox[BuyerAgent])
    OBVIOUS
  <2>3. Accepts /\ m.verdict = "pass" /\ m.sha = payload
    BY <1>4, <2>2 DEF Release, Passes
  <2>4. m \in In(inbox, BuyerAgent) /\ m.type = "VERIFIED"
    BY <2>1, <2>2, <2>3, ReadsLemma DEF IInv, Agents, Accepts, Matches, Waiting
  <2>5. payload' = "good"
    BY <2>1, <2>3, <2>4 DEF Work, Earned, VerdictsAreEarned
  <2>6. Types /\ BuyerSays
    BY <1>4, BuyerSaysLemma DEF IInv, BuyerStep
  <2>7. pc \in Settling
    BY <2>1 DEF Settling, Steps
  <2>8. Moves
    BY <1>1, <2>1, <2>5, <2>7 DEF Moves
  <2>9. QED
    BY <2>6, <2>8, MovesLemma
<1>5. QED
  BY <1>2, <1>3, <1>4

\* A round begins: nothing is said of it and nothing ordered for it.
LEMMA StartRoundWorks ==
    ASSUME IInv, Work, StartRound
    PROVE  Work'
<1>1. /\ UNCHANGED <<sellers, delivered, outcome, asked, escrows, orphans>>
      /\ pc' = "bids" /\ round' = round + 1 /\ round \in Int
  BY MarketAssumption DEF StartRound, history, chain, signer, IInv, Types
<1>2. BuyerSays
  BY BuyerSaysLemma DEF BuyerStep
<1>3. /\ \A s : Held(s)' = Held(s)
      /\ \A ref : (Done(ref)' <=> Done(ref)) /\ (Open(ref)' <=> Open(ref))
      /\ issued' = issued /\ awarded' = awarded /\ working' = working
  BY <1>1 DEF Held, Done, Open, sellers
<1>4. \A m \in In(inbox', BuyerAgent) : m.type \in FromOthers => m \in In(inbox, BuyerAgent)
  BY <1>2 DEF BuyerSays, Agents
<1>5. /\ \A a \in Agents : \A m \in In(inbox, a) : m.round \in Int /\ m.round =< round
      /\ \A s \in Sellers : \A o \in Held(s) : o.round \in Int /\ o.round =< round
  <2>1. \A a \in Agents : In(inbox, a) \subseteq Messages
    BY DEF IInv, Mail, In
  <2>2. \A m \in Messages : m.round \in Int
    BY MarketAssumption DEF Messages, Rounds
  <2>3. \A s \in Sellers : Held(s) \subseteq AwardedOrders
    BY DEF Held, IInv, Types
  <2>4. \A o \in AwardedOrders : o.round \in Int
    BY MarketAssumption DEF AwardedOrders, Rounds
  <2>5. QED
    BY <2>1, <2>2, <2>3, <2>4 DEF Work, Conversation, RoundsPass
<1>6. Owned'
  BY <1>3 DEF Work, Conversation, Owned
<1>7. Issued'
  BY <1>1, <1>3, <1>4 DEF Work, Conversation, Issued, FromOthers, Settling
<1>8. RoundsPass'
  BY <1>1, <1>2, <1>3, <1>5 DEF RoundsPass, BuyerSays
<1>9. OneDepositARound'
  BY <1>1, <1>3, <1>5 DEF Work, Conversation, OneDepositARound
<1>10. Deliveries'
  BY <1>1, <1>4, <1>5 DEF Deliveries, FromOthers, Agents
<1>11. VerdictsAreEarned' /\ ReleasesAreEarned'
  BY <1>1, <1>3, <1>4 DEF Work, Earned, VerdictsAreEarned, ReleasesAreEarned, FromOthers
<1>12. FundedWork' /\ PaidOnlyForGoodWork'
  BY <1>1, <1>3 DEF Work, Earned, FundedWork, PaidOnlyForGoodWork
<1>13. QED
  BY <1>6, <1>7, <1>8, <1>9, <1>10, <1>11, <1>12 DEF Work, Conversation, Earned

\* The terms of an order are taken, whose reference may be asked to be funded.
LEMMA FundWorks ==
    ASSUME IInv, Work, Fund
    PROVE  Work'
<1>1. PICK t : t = Head(inbox[BuyerAgent])
  OBVIOUS
<1>2. pc = "terms" /\ Accepts
  BY DEF Fund
<1>3. t \in In(inbox, BuyerAgent) /\ t.type = "PAYMENT_REQUIRED"
  BY <1>1, <1>2, ReadsLemma DEF IInv, Agents, Accepts, Matches, Waiting
<1>4. t.reference \in issued
  BY <1>3 DEF Work, Conversation, Issued
<1>5. /\ UNCHANGED <<sellers, delivered, outcome, escrows, orphans, round>>
      /\ pc' \in {"idle", "funding"} /\ terms'.reference = t.reference
      /\ asked \subseteq asked' /\ asked' \subseteq asked \cup {t.reference}
  BY <1>1 DEF Fund, Signer!Deposit, Signer!Send, Signer!chain, chain, signer, history
<1>6. BuyerSays
  BY BuyerSaysLemma DEF BuyerStep
<1>7. /\ \A s : Held(s)' = Held(s)
      /\ \A ref : (Done(ref)' <=> Done(ref)) /\ (Open(ref)' <=> Open(ref))
      /\ issued' = issued /\ awarded' = awarded /\ working' = working
  BY <1>5 DEF Held, Done, Open, sellers
<1>8. \A m \in In(inbox', BuyerAgent) : m.type \in FromOthers => m \in In(inbox, BuyerAgent)
  BY <1>6 DEF BuyerSays, Agents
<1>9. Owned'
  BY <1>7 DEF Work, Conversation, Owned
<1>10. Issued'
  BY <1>4, <1>5, <1>7, <1>8 DEF Work, Conversation, Issued, FromOthers
<1>11. RoundsPass'
  <2>1. round \in Int
    BY MarketAssumption DEF IInv, Types
  <2>2. QED
    BY <1>5, <1>6, <1>7, <2>1 DEF Work, Conversation, RoundsPass, BuyerSays
<1>12. OneDepositARound'
  BY <1>2, <1>5, <1>7 DEF Work, Conversation, OneDepositARound
<1>13. Deliveries'
  BY <1>2, <1>5, <1>8 DEF Work, Earned, Deliveries, FromOthers
<1>14. VerdictsAreEarned' /\ ReleasesAreEarned'
  BY <1>5, <1>7, <1>8 DEF Work, Earned, VerdictsAreEarned, ReleasesAreEarned, FromOthers
<1>15. FundedWork' /\ PaidOnlyForGoodWork'
  BY <1>5, <1>7 DEF Work, Earned, FundedWork, PaidOnlyForGoodWork
<1>16. QED
  BY <1>9, <1>10, <1>11, <1>12, <1>13, <1>14, <1>15 DEF Work, Conversation, Earned

LEMMA ReadDeliveryWorks ==
    ASSUME IInv, Work, ReadDelivery
    PROVE  Work'
<1>1. PICK m : m = Head(inbox[BuyerAgent])
  OBVIOUS
<1>2. pc = "delivery" /\ Accepts /\ pc' = "verdict" /\ payload' = m.payload
      /\ UNCHANGED <<sellers, delivered, outcome, asked, round, terms, escrows, orphans>>
  BY <1>1 DEF ReadDelivery, chain, signer, history
<1>3. m \in In(inbox, BuyerAgent) /\ m.type = "DELIVERED" /\ m.round = round
  BY <1>1, <1>2, ReadsLemma DEF IInv, Agents, Accepts, Matches, Waiting
<1>4. IsDelivered(m.payload)
  BY <1>2, <1>3 DEF Work, Earned, Deliveries, Settling, Steps
<1>5. BuyerSays
  BY BuyerSaysLemma DEF BuyerStep
<1>6. /\ \A s : Held(s)' = Held(s)
      /\ \A ref : (Done(ref)' <=> Done(ref)) /\ (Open(ref)' <=> Open(ref))
      /\ \A q : IsDelivered(q)' <=> IsDelivered(q)
      /\ issued' = issued /\ awarded' = awarded /\ working' = working
  BY <1>2 DEF Held, Done, Open, IsDelivered, sellers
<1>7. \A n \in In(inbox', BuyerAgent) : n.type \in FromOthers => n \in In(inbox, BuyerAgent)
  BY <1>5 DEF BuyerSays, Agents
<1>8. Owned' /\ OneDepositARound'
  BY <1>2, <1>6 DEF Work, Conversation, Owned, OneDepositARound, Settling, Steps
<1>9. Issued'
  BY <1>2, <1>6, <1>7 DEF Work, Conversation, Issued, FromOthers, Settling, Steps
<1>10. RoundsPass'
  <2>1. round \in Int
    BY MarketAssumption DEF IInv, Types
  <2>2. QED
    BY <1>2, <1>5, <1>6, <2>1 DEF Work, Conversation, RoundsPass, BuyerSays
<1>11. Deliveries'
  <2>1. IsDelivered(payload)'
    BY <1>2, <1>4, <1>6 DEF IsDelivered
  <2>2. QED
    BY <1>2, <1>6, <1>7, <2>1 DEF Work, Earned, Deliveries, FromOthers, Settling, Steps
<1>12. VerdictsAreEarned' /\ ReleasesAreEarned'
  BY <1>2, <1>6, <1>7 DEF Work, Earned, VerdictsAreEarned, ReleasesAreEarned, FromOthers
<1>13. FundedWork' /\ PaidOnlyForGoodWork'
  BY <1>2, <1>6 DEF Work, Earned, FundedWork, PaidOnlyForGoodWork
<1>14. QED
  BY <1>8, <1>9, <1>10, <1>11, <1>12, <1>13 DEF Work, Conversation, Earned

-----------------------------------------------------------------------------
(* The sellers and the verifier.                                           *)

LEMMA SendsLemma ==
    ASSUME Mail, NEW s \in Agents, NEW m \in Messages,
           \/ inbox' = inbox
           \/ inbox[s] # <<>> /\ inbox' = Reads(s)
           \/ \E to : inbox' = Sent(inbox, to, m)
           \/ inbox[s] # <<>> /\ \E to : inbox' = Sent(Reads(s), to, m)
    PROVE  \A a \in Agents : In(inbox', a) \subseteq In(inbox, a) \cup {m}
<1>1. CASE inbox[s] # <<>> /\ inbox' = Reads(s)
  BY <1>1, ReadsLemma
<1>2. ASSUME NEW to, inbox' = Sent(inbox, to, m)
      PROVE  \A a \in Agents : In(inbox', a) \subseteq In(inbox, a) \cup {m}
  BY <1>2, SentLemma DEF Mail
<1>3. ASSUME NEW to, inbox[s] # <<>>, inbox' = Sent(Reads(s), to, m)
      PROVE  \A a \in Agents : In(inbox', a) \subseteq In(inbox, a) \cup {m}
  <2>1. /\ Reads(s) \in [Agents -> Seq(Messages)]
        /\ \A b \in Agents : In(Reads(s), b) \subseteq In(inbox, b)
    BY <1>3, ReadsLemma
  <2>2. QED
    BY <1>3, <2>1, SentLemma
<1>4. QED
  BY <1>1, <1>2, <1>3

\* Orders are dropped, or one is begun that is funded, and nothing is said
\* that bears on the work.
Serves ==
    /\ UNCHANGED <<pc, round, terms, payload, escrows, asked, orphans, issued, delivered, outcome>>
    /\ \A s \in Sellers : Held(s)' \subseteq Held(s) /\ working'[s] \notin awarded'[s]
    /\ \A s \in Sellers : working'[s] \in {None, working[s]} \/ (working'[s].reference \in asked /\ Open(working'[s].reference))
    /\ \A a \in Agents : \A m \in In(inbox', a) : m \in In(inbox, a) \/ (m.type \notin FromOthers /\ m.round =< round)

LEMMA ServesLemma ==
    ASSUME Work, Serves
    PROVE  Work'
<1>1. /\ UNCHANGED <<pc, round, terms, payload, escrows, asked, orphans, issued, delivered, outcome>>
      /\ \A s \in Sellers : \A o \in Held(s)' : o \in Held(s)
      /\ \A ref : (Done(ref) => Done(ref)') /\ (Open(ref)' <=> Open(ref))
      /\ \A q : IsDelivered(q) => IsDelivered(q)'
  BY DEF Serves, Done, Open, IsDelivered
<1>2. \A m \in In(inbox', BuyerAgent) : m.type \in FromOthers => m \in In(inbox, BuyerAgent)
  BY DEF Serves, Agents
<1>3. Owned'
  BY <1>1 DEF Work, Conversation, Owned, Serves
<1>4. Issued'
  BY <1>1, <1>2 DEF Work, Conversation, Issued, FromOthers
<1>5. RoundsPass'
  BY <1>1 DEF Work, Conversation, RoundsPass, Serves
<1>6. OneDepositARound'
  BY <1>1 DEF Work, Conversation, OneDepositARound, Serves
<1>7. Deliveries'
  BY <1>1, <1>2 DEF Work, Earned, Deliveries, FromOthers
<1>8. VerdictsAreEarned' /\ ReleasesAreEarned'
  BY <1>1, <1>2 DEF Work, Earned, VerdictsAreEarned, ReleasesAreEarned, FromOthers
<1>9. FundedWork' /\ PaidOnlyForGoodWork'
  BY <1>1 DEF Work, Earned, FundedWork, PaidOnlyForGoodWork, Serves
<1>10. QED
  BY <1>3, <1>4, <1>5, <1>6, <1>7, <1>8, <1>9 DEF Work, Conversation, Earned

LEMMA SellerServes ==
    ASSUME IInv, Work, NEW s \in Sellers,
           \/ Quote(s) \/ CheckPayment(s) \/ WorkFails(s) \/ ProofError(s) \/ SellerSkips(s) \/ SellerRestarts(s)
    PROVE  Work'
<1>1. UNCHANGED <<pc, round, terms, payload, escrows, asked, orphans, issued, delivered, outcome>>
  BY DEF Quote, CheckPayment, WorkFails, ProofError, SellerSkips, SellerRestarts, buyer, chain, signer, sellers, history
<1>2. /\ s \in Agents /\ Types /\ Mail /\ round \in 0..MaxRounds
      /\ \A r \in Sellers : working[r] \notin awarded[r]
  BY DEF IInv, Types, Agents, Work, Conversation, Owned
<1>3. \A r \in Sellers :
          /\ Held(r)' \subseteq Held(r) /\ working'[r] \notin awarded'[r]
          /\ \/ working'[r] \in {None, working[r]}
             \/ working'[r].reference \in asked /\ Open(working'[r].reference)
  <2>1. CASE Quote(s) \/ ProofError(s) \/ SellerSkips(s)
    BY <1>2, <2>1 DEF Quote, ProofError, SellerSkips, sellers, Held
  <2>2. CASE WorkFails(s)
    <3>1. working' = [working EXCEPT ![s] = None] /\ awarded' = awarded
      BY <2>2 DEF WorkFails
    <3>2. \A r \in Sellers : working'[r] = working[r] \/ working'[r] = None
      BY <1>2, <3>1 DEF Types
    <3>3. \A r \in Sellers : None \notin awarded[r]
      BY <1>2, MarketAssumption DEF Types
    <3>4. QED
      BY <1>2, <3>1, <3>2, <3>3 DEF Held
  <2>3. CASE SellerRestarts(s)
    <3>1. working' = [working EXCEPT ![s] = None] /\ awarded' = [awarded EXCEPT ![s] = {}]
      BY <2>3 DEF SellerRestarts
    <3>2. \A r \in Sellers :
              \/ working'[r] = working[r] /\ awarded'[r] = awarded[r]
              \/ working'[r] = None /\ awarded'[r] = {}
      BY <1>2, <3>1 DEF Types
    <3>3. QED
      BY <1>2, <3>2 DEF Held
  <2>4. CASE CheckPayment(s)
    <3>1. PICK o \in awarded[s] :
              \/ UNCHANGED <<awarded, working>>
              \/ /\ IsFunded(o) /\ Free(s)
                 /\ awarded' = [awarded EXCEPT ![s] = @ \ {o}]
                 /\ working' = [working EXCEPT ![s] = o]
      BY <2>4 DEF CheckPayment
    <3>2. CASE UNCHANGED <<awarded, working>>
      BY <1>2, <3>2 DEF Held
    <3>3. CASE /\ IsFunded(o) /\ Free(s)
               /\ awarded' = [awarded EXCEPT ![s] = @ \ {o}]
               /\ working' = [working EXCEPT ![s] = o]
      <4>1. Open(o.reference) /\ o.reference \in Refs
        BY <1>2, <3>3 DEF IsFunded, Open, Types, AwardedOrders
      <4>2. o.reference \in asked
        BY <4>1 DEF IInv, Money, FundedOnce
      <4>3. awarded'[s] = awarded[s] \ {o} /\ working'[s] = o
        BY <1>2, <3>3 DEF Types
      <4>4. \A r \in Sellers \ {s} : awarded'[r] = awarded[r] /\ working'[r] = working[r]
        BY <1>2, <3>3 DEF Types
      <4>5. QED
        BY <1>2, <4>1, <4>2, <4>3, <4>4 DEF Held
    <3>4. QED
      BY <3>1, <3>2, <3>3
  <2>5. QED
    BY <2>1, <2>2, <2>3, <2>4
<1>4. PICK m : m = Head(inbox[s])
  OBVIOUS
<1>5. inbox[s] # <<>> => m \in Messages /\ m \in In(inbox, s) /\ (m.type # "ERROR" => m.round \in Rounds)
  BY <1>2, <1>4, ReadsLemma, MessageLemma
<1>6. PICK e : e = [type |-> "ERROR", round |-> 0]
  OBVIOUS
<1>7. e \in Messages /\ e.type \notin FromOthers /\ e.round =< round
  BY <1>2, <1>6, MarketAssumption DEF Messages, FromOthers
<1>8. \A a \in Agents : \A n \in In(inbox', a) : n \in In(inbox, a) \/ (n.type \notin FromOthers /\ n.round =< round)
  <2>1. CASE SellerSkips(s) \/ ProofError(s) \/ WorkFails(s) \/ SellerRestarts(s)
    <3>1. \/ inbox' = inbox
          \/ inbox[s] # <<>> /\ inbox' = Reads(s)
          \/ \E to : inbox' = Sent(inbox, to, e)
          \/ inbox[s] # <<>> /\ \E to : inbox' = Sent(Reads(s), to, e)
      BY <1>6, <2>1 DEF SellerSkips, ProofError, WorkFails, SellerRestarts, Has
    <3>2. QED
      BY <1>2, <1>7, <3>1, SendsLemma
  <2>2. CASE Quote(s)
    <3>1. inbox[s] # <<>> /\ m.round \in Rounds /\ m.round =< round
      BY <1>2, <1>4, <1>5, <2>2 DEF Quote, Has, Work, Conversation, RoundsPass
    <3>2. CASE inbox' = Reads(s)
      BY <1>2, <3>1, <3>2, ReadsLemma
    <3>3. ASSUME NEW p \in Prices,
                 inbox' = Sent(Reads(s), {BuyerAgent}, [type |-> "BID", round |-> m.round, price |-> p, by |-> s])
          PROVE  \A a \in Agents : \A n \in In(inbox', a) :
                     n \in In(inbox, a) \/ (n.type \notin FromOthers /\ n.round =< round)
      <4>1. PICK b : b = [type |-> "BID", round |-> m.round, price |-> p, by |-> s]
        OBVIOUS
      <4>2. b \in Messages /\ b.type \notin FromOthers /\ b.round =< round
        BY <3>1, <4>1 DEF Messages, FromOthers
      <4>3. QED
        BY <1>2, <3>1, <3>3, <4>1, <4>2, SendsLemma
    <3>4. QED
      BY <1>4, <2>2, <3>2, <3>3 DEF Quote
  <2>3. CASE CheckPayment(s)
    <3>1. PICK o \in awarded[s] :
              inbox' = Sent(Reads(s), {BuyerAgent}, [type |-> "CONFIRMED", round |-> o.round, paid |-> IsFunded(o)])
      BY <2>3 DEF CheckPayment
    <3>2. PICK c : c = [type |-> "CONFIRMED", round |-> o.round, paid |-> IsFunded(o)]
      OBVIOUS
    <3>3. o.round \in Rounds /\ IsFunded(o) \in BOOLEAN /\ o.round =< round
      BY <1>2 DEF Types, AwardedOrders, IsFunded, Held, Work, Conversation, RoundsPass
    <3>4. c \in Messages /\ c.type \notin FromOthers /\ c.round =< round
      BY <3>2, <3>3 DEF Messages, FromOthers
    <3>5. inbox[s] # <<>>
      BY <2>3 DEF CheckPayment, Has
    <3>6. QED
      BY <1>2, <3>1, <3>2, <3>4, <3>5, SendsLemma
  <2>4. QED
    BY <2>1, <2>2, <2>3
<1>9. Serves
  BY <1>1, <1>3, <1>8 DEF Serves
<1>10. QED
  BY <1>9, ServesLemma

LEMMA RequirePaymentWorks ==
    ASSUME IInv, Work, NEW s \in Sellers, RequirePayment(s)
    PROVE  Work'
<1>1. UNCHANGED <<pc, round, terms, payload, escrows, asked, orphans, working, delivered, outcome>>
  BY DEF RequirePayment, buyer, chain, signer, history
<1>2. Types /\ Mail /\ s \in Agents /\ BuyerAgent \in Agents /\ working[s] = None
  BY DEF IInv, Agents, RequirePayment, Free
<1>3. PICK n : n = Head(inbox[s])
  OBVIOUS
<1>4. PICK q \in quoted[s], ref \in Refs \ issued :
          /\ issued' = issued \cup {ref}
          /\ awarded' = [awarded EXCEPT ![s] =
                 @ \cup {[reference |-> ref, round |-> n.round, price |-> q.price]}]
          /\ inbox' = Sent(Reads(s), {BuyerAgent},
                 [type |-> "PAYMENT_REQUIRED", round |-> n.round, amount |-> q.price,
                  reference |-> ref, seller |-> SELLER, secs |-> DeadlineSecs])
  BY <1>3 DEF RequirePayment
<1>5. inbox[s] # <<>> /\ n.round \in Rounds /\ n.round =< round
  BY <1>2, <1>3, ReadsLemma, MessageLemma DEF RequirePayment, Has, Work, Conversation, RoundsPass
<1>6. PICK m : m = [type |-> "PAYMENT_REQUIRED", round |-> n.round, amount |-> q.price,
                    reference |-> ref, seller |-> SELLER, secs |-> DeadlineSecs]
  OBVIOUS
<1>7. m \in Messages /\ m.type = "PAYMENT_REQUIRED" /\ m.reference = ref /\ m.round =< round
  <2>1. q.price \in Prices
    BY <1>2 DEF Types, Quotes
  <2>2. QED
    BY <1>5, <1>6, <2>1, MarketAssumption DEF Messages
<1>8. \A a \in Agents : In(inbox', a) \subseteq In(inbox, a) \cup {m}
  BY <1>2, <1>4, <1>5, <1>6, <1>7, SendsLemma
<1>9. PICK o : o = [reference |-> ref, round |-> n.round, price |-> q.price]
  OBVIOUS
<1>10. o.reference = ref /\ o.round =< round /\ o # None
  <2>1. o \in AwardedOrders
    BY <1>2, <1>5, <1>9 DEF Types, Quotes, AwardedOrders
  <2>2. QED
    BY <1>5, <1>9, <2>1, MarketAssumption
<1>11. /\ awarded'[s] = awarded[s] \cup {o} /\ Held(s)' = Held(s) \cup {o}
       /\ \A r \in Sellers \ {s} : awarded'[r] = awarded[r] /\ Held(r)' = Held(r)
  BY <1>1, <1>2, <1>4, <1>9 DEF Types, Held
<1>12. \A r \in Sellers : \A p \in Held(r) : p.reference \in issued
  BY DEF Work, Conversation, Owned
<1>13. Owned'
  <2>1. \A r \in Sellers : \A p \in Held(r)' : p.reference \in issued'
    BY <1>4, <1>10, <1>11, <1>12
  <2>2. ASSUME NEW r \in Sellers, NEW v \in Sellers, NEW p \in Held(r)', NEW u \in Held(v)', p.reference = u.reference
        PROVE  r = v /\ p = u
    <3>1. (p \in Held(r) \/ (p = o /\ r = s)) /\ (u \in Held(v) \/ (u = o /\ v = s))
      BY <1>11
    <3>2. QED
      BY <1>4, <1>10, <1>12, <2>2, <3>1 DEF Work, Conversation, Owned
  <2>3. \A r \in Sellers : working'[r] \notin awarded'[r]
    BY <1>1, <1>2, <1>10, <1>11 DEF Work, Conversation, Owned
  <2>4. QED
    BY <2>1, <2>2, <2>3 DEF Owned
<1>14. \A r \in issued : Done(r) => Done(r)'
  BY <1>4, <1>10, <1>11 DEF Done
<1>15. Issued'
  BY <1>1, <1>2, <1>4, <1>7, <1>8 DEF Work, Conversation, Issued
<1>16. RoundsPass'
  BY <1>1, <1>7, <1>8, <1>10, <1>11 DEF Work, Conversation, RoundsPass
<1>17. OneDepositARound'
  <2>1. ref \notin asked
    BY <1>4 DEF Work, Conversation, Issued
  <2>2. QED
    BY <1>1, <1>10, <1>11, <2>1 DEF Work, Conversation, OneDepositARound
<1>18. Deliveries'
  <2>1. pc \in Settling => \A p : IsDelivered(p) => IsDelivered(p)'
    BY <1>1, <1>14 DEF Work, Conversation, Issued, IsDelivered
  <2>2. QED
    BY <1>1, <1>2, <1>7, <1>8, <2>1 DEF Work, Earned, Deliveries, Settling, Steps
<1>19. VerdictsAreEarned' /\ ReleasesAreEarned'
  BY <1>1, <1>2, <1>4, <1>7, <1>8, <1>14 DEF Work, Earned, VerdictsAreEarned, ReleasesAreEarned
<1>20. FundedWork' /\ PaidOnlyForGoodWork'
  BY <1>1 DEF Work, Earned, FundedWork, PaidOnlyForGoodWork, Open
<1>21. QED
  BY <1>13, <1>15, <1>16, <1>17, <1>18, <1>19, <1>20 DEF Work, Conversation, Earned

LEMMA DeliverWorks ==
    ASSUME IInv, Work, NEW s \in Sellers, Deliver(s)
    PROVE  Work'
<1>1. UNCHANGED <<pc, round, terms, payload, escrows, asked, orphans, issued, awarded, outcome>>
  BY DEF Deliver, buyer, chain, signer
<1>2. Types /\ Mail /\ s \in Agents /\ BuyerAgent \in Agents
  BY DEF IInv, Agents
<1>3. PICK o : o = working[s]
  OBVIOUS
<1>4. o # None /\ o \in Held(s) /\ o \in AwardedOrders /\ o \notin awarded[s]
  BY <1>2, <1>3 DEF Deliver, Free, Held, Types, Work, Conversation, Owned
<1>5. PICK work \in Payloads :
          /\ delivered' = [delivered EXCEPT ![o.reference] = work]
          /\ inbox' = Sent(inbox, {BuyerAgent}, [type |-> "DELIVERED", round |-> o.round, payload |-> work])
  BY <1>3 DEF Deliver
<1>6. PICK m : m = [type |-> "DELIVERED", round |-> o.round, payload |-> work]
  OBVIOUS
<1>7. m \in Messages /\ m.type = "DELIVERED" /\ m.round = o.round /\ m.payload = work
      /\ o.reference \in Refs /\ o.round =< round
  BY <1>4, <1>6 DEF AwardedOrders, Messages, Work, Conversation, RoundsPass
<1>8. \A a \in Agents : In(inbox', a) \subseteq In(inbox, a) \cup {m}
  BY <1>2, <1>5, <1>6, <1>7, SendsLemma
<1>9. /\ working' = [working EXCEPT ![s] = None]
      /\ \A r \in Sellers : working'[r] \in {None, working[r]}
      /\ \A r \in Sellers : Held(r)' \subseteq Held(r)
      /\ o \notin Held(s)'
  BY <1>1, <1>2, <1>3, <1>4 DEF Deliver, Types, Held
<1>10. Done(o.reference)'
  BY <1>4, <1>9 DEF Done, Work, Conversation, Owned
<1>11. \A ref : Done(ref) => Done(ref)' /\ ref # o.reference
  BY <1>4, <1>9 DEF Done
<1>12. delivered'[o.reference] = work /\ \A ref \in Refs \ {o.reference} : delivered'[ref] = delivered[ref]
  BY <1>2, <1>5, <1>7 DEF Types
<1>13. Owned'
  <2>1. \A r \in Sellers : working'[r] \notin awarded'[r]
    <3>1. \A r \in Sellers : None \notin awarded[r]
      BY <1>2, MarketAssumption DEF Types
    <3>2. QED
      BY <1>1, <1>9, <3>1 DEF Work, Conversation, Owned
  <2>2. QED
    BY <1>1, <1>9, <2>1 DEF Work, Conversation, Owned
<1>14. Issued'
  BY <1>1, <1>2, <1>7, <1>8 DEF Work, Conversation, Issued
<1>15. RoundsPass'
  BY <1>1, <1>7, <1>8, <1>9 DEF Work, Conversation, RoundsPass
<1>16. OneDepositARound'
  BY <1>1, <1>9 DEF Work, Conversation, OneDepositARound
<1>17. Deliveries'
  <2>1. o.round = round => pc \notin {"bids", "terms"} /\ (pc \in Settling => o.reference = terms.reference)
    BY <1>3, <1>4 DEF Work, Conversation, OneDepositARound
  <2>2. o.reference = terms.reference => IsDelivered(work)'
    BY <1>1, <1>10, <1>12 DEF IsDelivered
  <2>3. ASSUME NEW q, pc \in Settling, IsDelivered(q)
        PROVE  IsDelivered(q)'
    <3>1. terms.reference \in Refs
      BY <1>2, <2>3 DEF Types
    <3>2. QED
      BY <1>1, <1>11, <1>12, <2>3, <3>1 DEF IsDelivered
  <2>4. ASSUME NEW n \in In(inbox', BuyerAgent), n.type = "DELIVERED", n.round = round
        PROVE  pc \notin {"bids", "terms"} /\ (pc \in Settling => IsDelivered(n.payload)')
    <3>1. CASE n = m
      BY <1>7, <2>1, <2>2, <2>4, <3>1
    <3>2. CASE n \in In(inbox, BuyerAgent)
      BY <2>3, <2>4, <3>2 DEF Work, Earned, Deliveries
    <3>3. QED
      BY <1>2, <1>8, <3>1, <3>2
  <2>5. pc \in {"verdict", "releasing"} => pc \in Settling
    BY DEF Settling, Steps
  <2>6. QED
    BY <1>1, <2>3, <2>4, <2>5 DEF Work, Earned, Deliveries
<1>18. VerdictsAreEarned'
  BY <1>2, <1>7, <1>8 DEF Work, Earned, VerdictsAreEarned
<1>19. ReleasesAreEarned'
  <2>1. \A t \in orphans : t.reference \in Refs
    BY DEF IInv, Money, SignerTypes, Signer!Transactions
  <2>2. QED
    BY <1>1, <1>11, <1>12, <2>1 DEF Work, Earned, ReleasesAreEarned
<1>20. FundedWork'
  BY <1>1, <1>9 DEF Work, Earned, FundedWork, Open
<1>21. PaidOnlyForGoodWork'
  <2>1. outcome[o.reference] # "released"
    BY <1>3, <1>4, <1>7 DEF Work, Earned, FundedWork, IInv, Money, FundedOnce
  <2>2. QED
    BY <1>1, <1>12, <2>1 DEF Work, Earned, PaidOnlyForGoodWork
<1>22. QED
  BY <1>13, <1>14, <1>15, <1>16, <1>17, <1>18, <1>19, <1>20, <1>21 DEF Work, Conversation, Earned

LEMMA VerifyWorks ==
    ASSUME IInv, Work, Verify
    PROVE  Work'
<1>1. /\ UNCHANGED <<pc, round, terms, payload, escrows, asked, orphans, sellers, delivered, outcome>>
      /\ Verifier \in Agents /\ BuyerAgent \in Agents /\ Mail
  BY DEF Verify, buyer, chain, signer, history, IInv, Agents
<1>2. PICK m : m = Head(inbox[Verifier])
  OBVIOUS
<1>3. inbox[Verifier] # <<>> /\ m \in Messages /\ m.type = "VERIFY" /\ m.round =< round
  BY <1>1, <1>2, ReadsLemma DEF Verify, Has, Work, Conversation, RoundsPass
<1>4. PICK v \in Verdicts(m) :
          inbox' = Sent(Reads(Verifier), {BuyerAgent},
                        [type |-> "VERIFIED", round |-> m.round, verdict |-> v, sha |-> m.payload])
  BY <1>2 DEF Verify
<1>5. PICK n : n = [type |-> "VERIFIED", round |-> m.round, verdict |-> v, sha |-> m.payload]
  OBVIOUS
<1>6. /\ n \in Messages /\ n.type = "VERIFIED" /\ n.round =< round
      /\ n.verdict = "pass" => n.sha = "good"
  BY <1>3, <1>4, <1>5, MessageLemma DEF Messages, Verdicts
<1>7. \A a \in Agents : In(inbox', a) \subseteq In(inbox, a) \cup {n}
  BY <1>1, <1>3, <1>4, <1>5, <1>6, SendsLemma
<1>8. /\ \A s : Held(s)' = Held(s)
      /\ \A ref : (Done(ref)' <=> Done(ref)) /\ (Open(ref)' <=> Open(ref))
      /\ \A q : IsDelivered(q)' <=> IsDelivered(q)
      /\ issued' = issued /\ awarded' = awarded /\ working' = working
  BY <1>1 DEF Held, Done, Open, IsDelivered, sellers
<1>9. Owned' /\ OneDepositARound'
  BY <1>1, <1>8 DEF Work, Conversation, Owned, OneDepositARound
<1>10. Issued'
  BY <1>1, <1>6, <1>7, <1>8 DEF Work, Conversation, Issued
<1>11. RoundsPass'
  BY <1>1, <1>6, <1>7, <1>8 DEF Work, Conversation, RoundsPass
<1>12. Deliveries'
  BY <1>1, <1>6, <1>7, <1>8 DEF Work, Earned, Deliveries
<1>13. VerdictsAreEarned' /\ ReleasesAreEarned'
  BY <1>1, <1>6, <1>7, <1>8 DEF Work, Earned, VerdictsAreEarned, ReleasesAreEarned
<1>14. FundedWork' /\ PaidOnlyForGoodWork'
  BY <1>1, <1>8 DEF Work, Earned, FundedWork, PaidOnlyForGoodWork
<1>15. QED
  BY <1>9, <1>10, <1>11, <1>12, <1>13, <1>14 DEF Work, Conversation, Earned

-----------------------------------------------------------------------------
(* The cluster.                                                            *)

\* What executes is earned when it is a release, and closes no escrow that
\* somebody works for, other than by a refund.
LEMMA ExecutesWorks ==
    ASSUME IInv, Work, NEW t \in Signer!Transactions, Signer!Executes(t), Closing(t),
           t.op = "release" => Done(t.reference) /\ delivered[t.reference] = "good",
           t.op = "deposit" => Pending(t),
           UNCHANGED <<buyer, inbox, sellers, delivered, asked>>, orphans' \subseteq orphans
    PROVE  Work'
<1>1. Types /\ Money /\ t.reference \in Refs /\ t.op \in {"deposit", "release", "refund"}
  BY DEF IInv, Signer!Transactions
<1>2. /\ t.op = "deposit" => outcome' = outcome
      /\ t.op = "release" => outcome'[t.reference] = "released"
      /\ t.op = "refund" => outcome'[t.reference] = "refunded"
      /\ \A ref \in Refs \ {t.reference} : outcome'[ref] = outcome[ref] /\ (Open(ref)' <=> Open(ref))
  BY <1>1, ClosingLemma, ExecutesLemma DEF Money
<1>3. /\ \A s : Held(s)' = Held(s)
      /\ \A ref : Done(ref)' <=> Done(ref)
      /\ \A q : IsDelivered(q)' <=> IsDelivered(q)
      /\ UNCHANGED <<pc, round, terms, payload, issued, awarded, working>>
  BY DEF Held, Done, IsDelivered, buyer, sellers
<1>4. Conversation'
  BY <1>3 DEF Work, Conversation, Owned, Issued, RoundsPass, OneDepositARound
<1>5. Deliveries' /\ VerdictsAreEarned'
  BY <1>3 DEF Work, Earned, Deliveries, VerdictsAreEarned
<1>6. ReleasesAreEarned'
  BY <1>3 DEF Work, Earned, ReleasesAreEarned
<1>7. FundedWork'
  <2>1. ASSUME NEW s \in Sellers, working[s] # None
        PROVE  Open(working[s].reference)' \/ outcome'[working[s].reference] = "refunded"
    <3>1. PICK o : o = working[s]
      OBVIOUS
    <3>2. o \in Held(s) /\ o.reference \in Refs /\ (Open(o.reference) \/ outcome[o.reference] = "refunded")
      BY <1>1, <2>1, <3>1 DEF Types, AwardedOrders, Held, Work, Earned, FundedWork
    <3>3. CASE o.reference # t.reference
      BY <1>2, <1>3, <3>1, <3>2, <3>3
    <3>4. CASE o.reference = t.reference
      <4>1. t.op # "release"
        BY <3>2, <3>4 DEF Done
      <4>2. t.op # "deposit"
        BY <1>1, <3>2, <3>4 DEF Money, FundedOnce
      <4>3. QED
        BY <1>1, <1>2, <1>3, <3>1, <3>4, <4>1, <4>2
    <3>5. QED
      BY <3>3, <3>4
  <2>2. QED
    BY <1>3, <2>1 DEF FundedWork
<1>8. PaidOnlyForGoodWork'
  BY <1>1, <1>2 DEF Work, Earned, PaidOnlyForGoodWork
<1>9. QED
  BY <1>4, <1>5, <1>6, <1>7, <1>8 DEF Work, Earned

LEMMA LandWorks ==
    ASSUME IInv, Work, Land
    PROVE  Work'
<1>1. /\ request # Idle /\ ~request.landed /\ Signer!Executes(request) /\ Closing(request)
      /\ UNCHANGED <<orphans, asked, buyer, inbox, sellers, delivered>>
  BY DEF Land, Signer!Land, request
<1>2. request \in Signer!Transactions /\ pc \in Awaiting /\ request.reference = terms.reference
  BY <1>1 DEF IInv, Money, Requests
<1>3. request.op = "release" => Done(request.reference) /\ delivered[request.reference] = "good"
  BY <1>2 DEF IInv, Money, Requests, Awaiting, Work, Earned, Deliveries, IsDelivered
<1>4. request.op = "deposit" => Pending(request)
  BY <1>1, <1>2 DEF IInv, Money, Requests, Awaiting, Pending
<1>5. QED
  BY <1>1, <1>2, <1>3, <1>4, ExecutesWorks

LEMMA SameWork ==
    ASSUME Work, UNCHANGED <<escrows, asked, buyer, inbox, sellers, delivered, outcome>>,
           orphans' \subseteq orphans
    PROVE  Work'
<1>1. /\ \A s : Held(s)' = Held(s)
      /\ \A ref : (Done(ref)' <=> Done(ref)) /\ (Open(ref)' <=> Open(ref))
      /\ \A q : IsDelivered(q)' <=> IsDelivered(q)
      /\ UNCHANGED <<pc, round, terms, payload, issued, awarded, working>>
  BY DEF Held, Done, Open, IsDelivered, buyer, sellers
<1>2. Conversation'
  BY <1>1 DEF Work, Conversation, Owned, Issued, RoundsPass, OneDepositARound
<1>3. Earned'
  BY <1>1 DEF Work, Earned, Deliveries, VerdictsAreEarned, ReleasesAreEarned, FundedWork, PaidOnlyForGoodWork
<1>4. QED
  BY <1>2, <1>3 DEF Work

LEMMA OrphansWorks ==
    ASSUME IInv, Work, Orphans
    PROVE  Work'
<1>1. PICK t \in orphans :
          /\ orphans' = orphans \ {t}
          /\ \/ Signer!Executes(t) /\ Closing(t)
             \/ UNCHANGED <<chain, outcome>>
  BY DEF Orphans, Signer!LandOrphan, Signer!DropOrphan, Signer!chain, chain
<1>2. UNCHANGED <<asked, buyer, inbox, sellers, delivered>>
  BY DEF Orphans, Signer!LandOrphan, Signer!DropOrphan, Signer!history
<1>3. t \in Signer!Transactions
  BY DEF IInv, Money, SignerTypes
<1>4. t.op = "release" => Done(t.reference) /\ delivered[t.reference] = "good"
  BY DEF Work, Earned, ReleasesAreEarned
<1>5. CASE Signer!Executes(t) /\ Closing(t)
  BY <1>1, <1>2, <1>3, <1>4, <1>5, ExecutesWorks DEF Pending
<1>6. CASE UNCHANGED <<chain, outcome>>
  BY <1>1, <1>2, <1>6, SameWork DEF chain
<1>7. QED
  BY <1>1, <1>5, <1>6

LEMMA WorkPreserved == IInv /\ Work /\ [Next]_vars => Work'
<1>1. SUFFICES ASSUME IInv, Work, [Next]_vars PROVE Work'
  OBVIOUS
<1>2. CASE BuyerStep \/ SignerFails \/ RoundError
  BY <1>1, <1>2, BuyerMoves, StartRoundWorks, FundWorks, ReadDeliveryWorks DEF BuyerStep
<1>3. CASE \E s \in Sellers : SellerStep(s) \/ SellerRestarts(s)
  BY <1>1, <1>3, SellerServes, RequirePaymentWorks, DeliverWorks DEF SellerStep
<1>4. CASE Verify \/ Land \/ Orphans
  BY <1>1, <1>4, VerifyWorks, LandWorks, OrphansWorks
<1>5. CASE Tick \/ UNCHANGED vars
  <2>1. UNCHANGED <<escrows, asked, orphans, buyer, inbox, sellers, delivered, outcome>>
    BY <1>5 DEF Tick, Signer!Tick, Signer!Chain!Tick, Signer!history, history, vars, chain, signer
  <2>2. QED
    BY <1>1, <2>1, SameWork
<1>6. QED
  BY <1>1, <1>2, <1>3, <1>4, <1>5 DEF Next

LEMMA InitWorks == Init => Work
<1>1. SUFFICES ASSUME Init PROVE Work
  OBVIOUS
<1>2. /\ pc = "idle" /\ asked = {} /\ orphans = {}
      /\ \A a \in Agents : In(inbox, a) = {}
      /\ \A s \in Sellers : working[s] = None /\ awarded[s] = {} /\ Held(s) = {}
      /\ \A ref \in Refs : outcome[ref] = "none"
  BY <1>1 DEF Init, Signer!Init, In, Held
<1>3. Conversation
  BY <1>2 DEF Conversation, Owned, Issued, RoundsPass, OneDepositARound, Settling, Agents
<1>4. Earned
  BY <1>2 DEF Earned, Deliveries, VerdictsAreEarned, ReleasesAreEarned, FundedWork, PaidOnlyForGoodWork,
     Settling, Agents
<1>5. QED
  BY <1>3, <1>4 DEF Work

-----------------------------------------------------------------------------
(* The types of what the argument above has no use for: balances, orders,  *)
(* counters.                                                               *)

Addresses == Signer!Chain!Addresses

Counters == /\ orders \in [Refs -> Signer!Orders \cup {NoOrder}]
            /\ depositedSol \in Nat /\ restarts = 0 /\ funded \in Nat
            /\ asked \subseteq Refs /\ lost \subseteq Refs /\ overlapped \in BOOLEAN
            /\ spentSol \in Nat /\ payload \in Payloads \cup {None}
            /\ issued \subseteq Refs /\ trouble \in BOOLEAN

Plain == Signer!Chain!TypeOK /\ Counters

LEMMA MoveLemma ==
    ASSUME NEW l \in [Addresses -> Nat], NEW from \in Addresses, NEW to \in Addresses,
           NEW x \in Nat, l[from] >= x
    PROVE  Signer!Chain!Move(l, from, to, x) \in [Addresses -> Nat]
  BY DEF Signer!Chain!Move

\* No transaction takes a balance below zero.
LEMMA ChainLemma ==
    ASSUME Signer!Chain!TypeOK, NEW t \in Signer!Transactions, Signer!Executes(t)
    PROVE  Signer!Chain!TypeOK'
<1>1. PICK k : k = <<Buyer, t.reference>>
  OBVIOUS
<1>2. /\ t.reference \in Refs /\ t.seller \in Wallets /\ t.amount \in Nat /\ t.deadline \in Int
      /\ k \in Signer!Chain!Keys /\ k \in Addresses /\ k[1] = Buyer
      /\ \A w \in Wallets : w \in Addresses
  BY <1>1, MarketAssumption DEF Signer!Transactions, Signer!Chain!Keys, Signer!Chain!Addresses, Addresses
<1>3. now \in Nat /\ lamports \in [Addresses -> Nat]
      /\ escrows \in [Signer!Chain!Keys -> Signer!Chain!EscrowAccounts \cup {NoEscrow}]
  BY DEF Signer!Chain!TypeOK, Addresses
<1>4. CASE Signer!Chain!Initialize(Buyer, t.seller, t.reference, t.amount, t.deadline)
  <2>1. PICK cost : cost = Signer!Chain!DepositCost(lamports, k, t.amount)
    OBVIOUS
  <2>2. cost \in Nat
    BY <1>2, <1>3, <2>1, MarketAssumption DEF Signer!Chain!DepositCost, Signer!Chain!TopUp
  <2>3. /\ lamports[Buyer] >= cost /\ lamports' = Signer!Chain!Move(lamports, Buyer, k, cost)
        /\ t.amount > 0 /\ now' = now
        /\ escrows' = [escrows EXCEPT ![k] =
               [buyer |-> Buyer, seller |-> t.seller, amount |-> t.amount,
                reference |-> t.reference, deadline |-> t.deadline]]
    BY <1>1, <1>2, <1>4, <2>1
    DEF Signer!Chain!Initialize, Signer!Chain!CanInitialize, Signer!Chain!ValidTerms, Signer!Chain!Deposited
  <2>4. lamports' \in [Addresses -> Nat]
    BY <1>2, <1>3, <2>2, <2>3, MarketAssumption, MoveLemma
  <2>5. [buyer |-> Buyer, seller |-> t.seller, amount |-> t.amount,
         reference |-> t.reference, deadline |-> t.deadline] \in Signer!Chain!EscrowAccounts
    BY <1>2, <2>3, MarketAssumption DEF Signer!Chain!EscrowAccounts
  <2>6. QED
    BY <1>2, <1>3, <2>3, <2>4, <2>5 DEF Signer!Chain!TypeOK, Addresses
<1>5. ASSUME NEW l \in [Addresses -> Nat], escrows[k] # NoEscrow,
             lamports' = Signer!Chain!Closed(l, k, escrows[k].buyer),
             escrows' = [escrows EXCEPT ![k] = NoEscrow], now' = now
      PROVE  Signer!Chain!TypeOK'
  <2>1. escrows[k].buyer \in Addresses /\ l[k] \in Nat
    BY <1>2, <1>3, <1>5 DEF Signer!Chain!EscrowAccounts
  <2>2. lamports' \in [Addresses -> Nat]
    BY <1>2, <1>5, <2>1, MoveLemma DEF Signer!Chain!Closed
  <2>3. QED
    BY <1>2, <1>3, <1>5, <2>2 DEF Signer!Chain!TypeOK, Addresses
<1>6. CASE Signer!Chain!Release(Buyer, t.seller, k)
  <2>1. /\ escrows[k] # NoEscrow /\ lamports[k] >= escrows[k].amount /\ now' = now
        /\ escrows' = [escrows EXCEPT ![k] = NoEscrow]
        /\ lamports' = Signer!Chain!Closed(Signer!Chain!Move(lamports, k, t.seller, escrows[k].amount),
                                           k, escrows[k].buyer)
    BY <1>6 DEF Signer!Chain!Release, Signer!Chain!Releasable, Signer!Chain!CanRelease, Signer!Chain!Released
  <2>2. escrows[k].amount \in Nat
    BY <1>2, <1>3, <2>1 DEF Signer!Chain!EscrowAccounts
  <2>3. Signer!Chain!Move(lamports, k, t.seller, escrows[k].amount) \in [Addresses -> Nat]
    BY <1>2, <1>3, <2>1, <2>2, MoveLemma
  <2>4. QED
    BY <1>5, <2>1, <2>3
<1>7. CASE Signer!Chain!Refund(Buyer, k)
  <2>1. /\ escrows[k] # NoEscrow /\ now' = now
        /\ escrows' = [escrows EXCEPT ![k] = NoEscrow]
        /\ lamports' = Signer!Chain!Closed(lamports, k, escrows[k].buyer)
    BY <1>7 DEF Signer!Chain!Refund, Signer!Chain!Refundable, Signer!Chain!CanRefund, Signer!Chain!Refunded
  <2>2. QED
    BY <1>3, <1>5, <2>1
<1>8. QED
  BY <1>1, <1>4, <1>6, <1>7 DEF Signer!Executes, Signer!Key

LEMMA FundedLemma ==
    ASSUME funded \in Nat, NEW t \in Signer!Transactions, Signer!Executes(t)
    PROVE  funded' \in Nat
<1>1. t.amount \in Nat
  BY DEF Signer!Transactions
<1>2. QED
  BY <1>1 DEF Signer!Executes

LEMMA InitPlain == Init => Plain
<1>1. SUFFICES ASSUME Init PROVE Plain
  OBVIOUS
<1>2. Counters
  BY <1>1 DEF Init, Signer!Init, Counters
<1>3. Signer!Chain!TypeOK
  BY <1>1, MarketAssumption
  DEF Init, Signer!Init, Signer!Chain!Init, Signer!Chain!TypeOK, Signer!Chain!Addresses
<1>4. QED
  BY <1>2, <1>3 DEF Plain

\* A request, an answer or none.
LEMMA SameChain ==
    ASSUME Signer!Chain!TypeOK, UNCHANGED chain
    PROVE  Signer!Chain!TypeOK'
  BY DEF Signer!Chain!TypeOK, chain

LEMMA ConfirmCounters ==
    ASSUME IInv, Plain, pc \in Awaiting, Signer!Confirm(handler)
    PROVE  /\ orders' \in [Refs -> Signer!Orders \cup {NoOrder}] /\ depositedSol' \in Nat
           /\ UNCHANGED <<chain, restarts, funded, asked, lost, overlapped>>
<1>1. request \in Signer!Transactions
  BY DEF IInv, Money, Requests
<1>2. request.seller \in Wallets /\ request.amount \in Nat /\ request.reference \in Refs
  BY <1>1 DEF Signer!Transactions
<1>3. Signer!Remembered(request) \in Signer!Orders \cup {NoOrder} /\ Signer!Counted(request) \in Nat
  BY <1>2 DEF Signer!Remembered, Signer!Counted, Signer!Orders, Plain, Counters
<1>4. /\ orders' = [orders EXCEPT ![request.reference] = Signer!Remembered(request)]
      /\ depositedSol' = Signer!Counted(request)
      /\ UNCHANGED <<chain, restarts, funded, asked, lost, overlapped>>
  BY DEF Signer!Confirm, Signer!chain, chain, Signer!history, request
<1>5. QED
  BY <1>3, <1>4 DEF Plain, Counters

LEMMA BuyerPlain ==
    ASSUME IInv, Plain, BuyerStep \/ SignerFails \/ RoundError
    PROVE  Plain'
<1>1. Types /\ Mail /\ Money /\ Counters /\ Signer!Chain!TypeOK
  BY DEF IInv, Plain
<1>2. pc \in Settling => terms.amount \in Nat /\ terms.reference \in Refs
  BY <1>1 DEF Types
<1>3. CASE \/ StartRound \/ CollectBid \/ DropMention \/ Award \/ GiveUp \/ ReadConfirmation \/ NotConfirmed
           \/ NotDelivered \/ ReadFailure
  <2>1. UNCHANGED <<chain, signer, spentSol, issued, trouble>> /\ payload' \in {payload, None}
    BY <1>3 DEF StartRound, CollectBid, DropMention, Award, GiveUp, ReadConfirmation, NotConfirmed,
       NotDelivered, ReadFailure, buyer, sellers, history
  <2>2. QED
    BY <1>1, <2>1, SameChain DEF Plain, Counters, signer
<1>4. CASE ReadDelivery
  <2>1. PICK m : m = Head(inbox[BuyerAgent])
    OBVIOUS
  <2>2. pc = "delivery" /\ Accepts /\ payload' = m.payload
        /\ UNCHANGED <<chain, signer, spentSol, issued, trouble>>
    BY <1>4, <2>1 DEF ReadDelivery, sellers, history
  <2>3. m \in Messages /\ m.type = "DELIVERED"
    BY <1>1, <2>1, <2>2, AcceptsLemma DEF Waiting
  <2>4. QED
    BY <1>1, <2>2, <2>3, MessageLemma, SameChain DEF Plain, Counters, signer
<1>5. CASE Fund
  <2>1. PICK t : t = Head(inbox[BuyerAgent])
    OBVIOUS
  <2>2. pc = "terms" /\ Accepts
    BY <1>5 DEF Fund
  <2>3. t \in Messages /\ t.type = "PAYMENT_REQUIRED"
    BY <1>1, <2>1, <2>2, AcceptsLemma DEF Waiting
  <2>4. /\ UNCHANGED <<chain, orders, depositedSol, restarts, funded, lost, spentSol, payload, issued, trouble>>
        /\ asked' \subseteq asked \cup {t.reference}
        /\ overlapped' \in BOOLEAN
    BY <1>1, <1>5, <2>1 DEF Fund, Signer!Deposit, Signer!Send, Signer!chain, chain, signer, sellers, history, Counters
  <2>5. QED
    BY <1>1, <2>3, <2>4, MessageLemma, SameChain DEF Plain, Counters
<1>6. CASE Release \/ Refund
  <2>1. UNCHANGED <<chain, orders, depositedSol, restarts, funded, asked, lost, overlapped,
                    spentSol, payload, issued, trouble>>
    BY <1>6 DEF Release, Refund, Signer!Release, Signer!Refund, Signer!Send, Signer!chain, Signer!history,
       chain, sellers, history
  <2>2. QED
    BY <1>1, <2>1, SameChain DEF Plain, Counters
<1>7. CASE Deposited \/ Settled
  <2>1. /\ pc \in Awaiting /\ Signer!Confirm(handler)
        /\ UNCHANGED <<payload, issued, trouble>>
        /\ \/ spentSol' = spentSol
           \/ pc = "funding" /\ spentSol' = spentSol + terms.amount
    BY <1>7 DEF Deposited, Settled, Spent, Awaiting, sellers, history
  <2>2. spentSol' \in Nat
    BY <1>1, <1>2, <2>1 DEF Counters, Settling, Steps
  <2>3. QED
    BY <1>1, <2>1, <2>2, ConfirmCounters, SameChain DEF Plain, Counters
<1>8. CASE SignerFails
  <2>1. /\ pc \in Awaiting /\ trouble' = TRUE
        /\ UNCHANGED <<chain, orders, depositedSol, restarts, funded, asked, overlapped, spentSol, payload, issued>>
        /\ lost' \subseteq lost \cup {request.reference}
    BY <1>8 DEF SignerFails, Signer!Fail, Signer!LoseConfirmation, Signer!chain, Signer!history, chain,
       sellers, Awaiting, request
  <2>2. request.reference \in Refs
    BY <1>1, <2>1 DEF Money, Requests, Signer!Transactions
  <2>3. QED
    BY <1>1, <2>1, <2>2, SameChain DEF Plain, Counters
<1>9. CASE RoundError
  <2>1. trouble' = TRUE /\ UNCHANGED <<payload, issued>>
    BY <1>9 DEF RoundError, sellers
  <2>2. CASE UNCHANGED <<chain, signer, spentSol>>
    BY <1>1, <2>1, <2>2, SameChain DEF Plain, Counters, signer
  <2>3. CASE /\ pc \in Awaiting /\ Signer!Confirm(handler)
             /\ spentSol' \in (IF pc = "funding" THEN {spentSol, Spent} ELSE {spentSol})
    <3>1. spentSol' \in Nat
      BY <1>1, <1>2, <2>3 DEF Counters, Settling, Steps, Spent
    <3>2. QED
      BY <1>1, <2>1, <2>3, <3>1, ConfirmCounters, SameChain DEF Plain, Counters
  <2>4. QED
    BY <1>9, <2>2, <2>3 DEF RoundError, Awaiting
<1>10. QED
  BY <1>3, <1>4, <1>5, <1>6, <1>7, <1>8, <1>9 DEF BuyerStep

LEMMA OtherPlain ==
    ASSUME IInv, Plain,
           \/ Verify \/ Land \/ Orphans \/ Tick \/ UNCHANGED vars
           \/ \E s \in Sellers : SellerStep(s) \/ SellerRestarts(s)
    PROVE  Plain'
<1>1. Types /\ Mail /\ Money /\ Counters /\ Signer!Chain!TypeOK
  BY DEF IInv, Plain
<1>2. CASE \/ Verify \/ UNCHANGED vars
           \/ \E s \in Sellers : SellerStep(s) \/ SellerRestarts(s)
  <2>1. UNCHANGED <<chain, signer, spentSol, payload, trouble>> /\ (issued' = issued \/ \E ref \in Refs : issued' = issued \cup {ref})
    BY <1>2 DEF Verify, vars, SellerStep, SellerRestarts, Quote, RequirePayment, CheckPayment, Deliver,
       WorkFails, ProofError, SellerSkips, buyer, sellers, history
  <2>2. QED
    BY <1>1, <2>1, SameChain DEF Plain, Counters, signer
<1>3. CASE Tick
  <2>1. UNCHANGED <<lamports, escrows, orders, depositedSol, restarts, funded, asked, lost, overlapped,
                    spentSol, payload, issued, trouble>> /\ now' = now + 1
    BY <1>3 DEF Tick, Signer!Tick, Signer!Chain!Tick, Signer!server, Signer!history, buyer, sellers, history
  <2>2. QED
    BY <1>1, <2>1 DEF Plain, Counters, Signer!Chain!TypeOK
<1>4. CASE Land \/ Orphans
  <2>1. PICK t \in Signer!Transactions :
            \/ Signer!Executes(t)
            \/ UNCHANGED <<chain, funded>>
    <3>1. CASE Land
      <4>1. request # Idle /\ Signer!Executes(request)
        BY <3>1 DEF Land, Signer!Land, request
      <4>2. request \in Signer!Transactions
        BY <1>1, <4>1 DEF Money, Requests
      <4>3. QED
        BY <4>1, <4>2
    <3>2. CASE Orphans
      BY <1>1, <3>2
      DEF Orphans, Signer!LandOrphan, Signer!DropOrphan, Signer!chain, chain, Signer!history, Money, SignerTypes
    <3>3. QED
      BY <1>4, <3>1, <3>2
  <2>2. UNCHANGED <<orders, depositedSol, restarts, asked, lost, overlapped, spentSol, payload, issued, trouble>>
    BY <1>4 DEF Land, Orphans, Signer!Land, Signer!LandOrphan, Signer!DropOrphan, Signer!server, Signer!history,
       buyer, sellers
  <2>3. Signer!Chain!TypeOK' /\ funded' \in Nat
    BY <1>1, <2>1, ChainLemma, FundedLemma, SameChain DEF Counters
  <2>4. QED
    BY <1>1, <2>2, <2>3 DEF Plain, Counters
<1>5. QED
  BY <1>2, <1>3, <1>4

LEMMA TypesLemma == IInv /\ Plain => TypeOK
<1>1. SUFFICES ASSUME IInv, Plain PROVE TypeOK
  OBVIOUS
<1>2. Signer!TypeOK
  BY <1>1 DEF IInv, Money, SignerTypes, Plain, Counters, Signer!TypeOK
<1>3. \A a \in Agents : \A i \in DOMAIN inbox[a] : inbox[a][i] \in Messages
  BY <1>1 DEF IInv, Mail
<1>4. QED
  BY <1>1, <1>2, <1>3 DEF IInv, Types, Steps, Plain, Counters, TypeOK

-----------------------------------------------------------------------------
(* The theorems.                                                           *)

\* In every reachable state the invariant holds, with what it says of the
\* work that is under way.
THEOREM Invariance == Spec => [](IInv /\ Work /\ Plain)
<1>1. IInv /\ Plain /\ [Next]_vars => Plain'
  BY BuyerPlain, OtherPlain DEF Next
<1>2. QED
  BY <1>1, InitHolds, InitWorks, InitPlain, NextPreserves, WorkPreserved, PTL DEF Spec

\* policy.enforce and the buyer's spentSol: unless a call failed under it, a
\* session never funds more than its cap, however many sellers it has and
\* rounds it runs.
THEOREM CapIsKept == Spec => []SessionCapHolds
<1>1. IInv => SessionCapHolds
  <2>1. SUFFICES ASSUME IInv, ~trouble PROVE funded =< SessionCap
    BY DEF SessionCapHolds
  <2>2. spentSol \in Nat /\ funded = spentSol + Landed
        /\ spentSol + (IF pc = "funding" THEN terms.amount ELSE 0) =< SessionCap
    BY <2>1 DEF IInv, Money, Accounts
  <2>3. pc = "funding" => terms.amount \in Nat
    BY <2>1 DEF IInv, Types, Settling, Steps
  <2>4. QED
    BY <2>2, <2>3, MarketAssumption DEF Landed
<1>2. QED
  BY <1>1, Invariance, PTL

\* SETTLED and REFUNDED: what the buyer announces is what the cluster did,
\* also after lost confirmations, failed rounds and orphaned transactions.
THEOREM NothingIsMisreported == Spec => []AnnouncementsAreTrue
<1>1. IInv => AnnouncementsAreTrue
  BY DEF IInv
<1>2. QED
  BY <1>1, Invariance, PTL

\* The verify-then-release of the buyer: however late a verdict, a delivery or
\* a confirmation comes, whichever seller it is from and whatever failed in
\* between, no escrow is released unless a patch that passes was delivered
\* under its reference.
THEOREM OnlyGoodWorkIsPaid == Spec => []PaidOnlyForGoodWork
<1>1. Work => PaidOnlyForGoodWork
  BY DEF Work, Earned
<1>2. QED
  BY <1>1, Invariance, PTL

\* verifyFundedEscrow before the work: while a seller works, the escrow of its
\* order is open, or has been refunded after its deadline.  Every variable has
\* its type, for any number of sellers, rounds and references.
THEOREM WorkStaysFunded == Spec => []WorkIsFunded
<1>1. IInv /\ Work /\ Plain => WorkIsFunded
  BY TypesLemma DEF Work, Earned, FundedWork, WorkIsFunded
<1>2. QED
  BY <1>1, Invariance, PTL
=============================================================================
