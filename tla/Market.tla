------------------------------- MODULE Market -------------------------------
(***************************************************************************)
(* A PatchBond session: the buyer agent, the seller agents and the         *)
(* verifier talk in a CoralOS thread, and the buyer settles through the    *)
(* policy signer (Signer) on the escrow program (Escrow).                  *)
(*                                                                         *)
(*   WANT -> BID -> AWARD -> PAYMENT_REQUIRED -> deposit -> PAYMENT_PROOF  *)
(*        -> CONFIRMED -> DELIVERED -> VERIFY -> VERIFIED                  *)
(*        -> release -> SETTLED   or   refund -> REFUNDED                  *)
(*                                                                         *)
(* Every agent is one loop that handles one mention at a time; its         *)
(* mentions wait in an inbox in the order CoralOS delivers them.  A wait   *)
(* with a limit may run out whatever the inbox holds: a mention that is    *)
(* late stays there and is read by a later wait.  The buyer's loop ends at *)
(* MaxRounds, a bound of the model.                                        *)
(***************************************************************************)
EXTENDS Integers, FiniteSets, Sequences

CONSTANTS
    Wallets, Refs, NoEscrow, Rent, MinBalance, U64Max, InitialLamports, MaxTime,
    Buyer, SELLER, MAX_SOL, MinSecs, MaxSecs, Handlers, Idle, NoOrder,
    MayLose,      \* all of Signer
    handler,      \* the buyer has one request to the signer open at a time
    Sellers,      \* the seller agents; their sales go to the wallet SELLER
    Verifier,     \* the verifier agent
    BuyerAgent,   \* the name the buyer is mentioned by
    Prices,       \* what sellers may quote
    BUDGET,       \* BUYER_MAX_SOL: the price cap of a round
    SessionCap,   \* POLICY_MAX_SOL_PER_SESSION
    DeadlineSecs, \* ESCROW_DEADLINE_SECONDS, in ticks
    Lag,          \* how far the cluster's clock may be behind the buyer's,
                  \* beyond the margin the buyer leaves for it
    MayThrow,     \* TRUE: calls to CoralOS or to the signer may throw
    None,         \* no terms, no order, no payload
    MaxRounds

VARIABLES
    now, lamports, escrows,                              \* Escrow
    orders, depositedSol, handlers, orphans, restarts,   \* Signer
    funded, asked, lost, overlapped,            \* Signer's history
    pc,        \* where the buyer's loop is
    round,
    bids,      \* bids collected in this round
    terms,     \* the PAYMENT_REQUIRED being settled, or None
    payload,   \* the delivery being verified, or None
    spentSol,
    inbox,     \* agent -> mentions not yet read
    quoted,    \* seller -> quotes given and not awarded
    awarded,   \* seller -> orders awarded and not paid
    working,   \* seller -> the order it is working on, or None
    issued,    \* references generated so far
    \* History, read by the properties only.
    delivered, \* reference -> what was delivered under it
    outcome,   \* reference -> how its escrow was closed
    trouble    \* a call of the buyer's threw, or the signer answered 400

chain == <<now, lamports, escrows>>
signer == <<orders, depositedSol, handlers, orphans, restarts,
            funded, asked, lost, overlapped>>
buyer == <<pc, round, bids, terms, payload, spentSol>>
sellers == <<quoted, awarded, working, issued>>
history == <<delivered, outcome, trouble>>
vars == <<chain, signer, buyer, inbox, sellers, history>>

Signer == INSTANCE Signer WITH
    MaxRestarts <- 0, AskedAmounts <- {}, AskedSecs <- {}

Agents == Sellers \cup {BuyerAgent, Verifier}
Rounds == 1..MaxRounds

\* What a delivery is to the verifier: it passes the pinned tests or it does
\* not.  It names its task, not its order, so two may be the same.
Payloads == {"good", "bad"}
Quotes == [round : Rounds, price : Prices]
AwardedOrders == [reference : Refs, round : Rounds, price : Prices]

ASSUME MarketAssumption ==
    /\ handler \in Handlers /\ Idle \notin Signer!Transactions
    /\ Buyer \in Wallets /\ SELLER \in Wallets
    /\ Prices \subseteq Nat /\ SessionCap \in Nat /\ DeadlineSecs \in Int
    /\ MaxRounds \in Nat /\ None \notin AwardedOrders
    /\ Rent \in Nat /\ InitialLamports \in [Wallets -> Nat]

Init == /\ Signer!Init
        /\ pc = "idle" /\ round = 0 /\ bids = {} /\ terms = None /\ payload = None
        /\ spentSol = 0
        /\ inbox = [a \in Agents |-> <<>>]
        /\ quoted = [s \in Sellers |-> {}]
        /\ awarded = [s \in Sellers |-> {}]
        /\ working = [s \in Sellers |-> None]
        /\ issued = {}
        /\ delivered = [r \in Refs |-> "nothing"]
        /\ outcome = [r \in Refs |-> "none"]
        /\ trouble = FALSE

-----------------------------------------------------------------------------
(* Messages.                                                               *)

Waiting == [bids |-> "BID", terms |-> "PAYMENT_REQUIRED", confirm |-> "CONFIRMED",
            delivery |-> "DELIVERED", verdict |-> "VERIFIED"]

\* The agent reads its first mention; a set of agents is sent a message.
Reads(a) == [inbox EXCEPT ![a] = Tail(@)]
Sent(box, to, m) == [a \in Agents |-> IF a \in to THEN Append(box[a], m) ELSE box[a]]

Has(a, type) == inbox[a] # <<>> /\ Head(inbox[a]).type = type

MutAnyRound(m) == m.type = Waiting[pc]

\* What waitFor accepts: the message it waits for, of this round.
Matches(m) == m.type = Waiting[pc] /\ m.round = round

Accepts == /\ pc \in DOMAIN Waiting
           /\ inbox[BuyerAgent] # <<>>
           /\ Matches(Head(inbox[BuyerAgent]))

-----------------------------------------------------------------------------
(* The buyer agent.                                                        *)

StartRound ==
    /\ pc = "idle" /\ round < MaxRounds
    /\ pc' = "bids"
    /\ round' = round + 1
    /\ bids' = {} /\ terms' = None /\ payload' = None
    /\ inbox' = Sent(inbox, Sellers, [type |-> "WANT", round |-> round + 1, budget |-> BUDGET])
    /\ UNCHANGED <<chain, signer, spentSol, sellers, history>>

\* One wait per seller, ended by its first bid of the round.
CollectBid ==
    LET m == Head(inbox[BuyerAgent]) IN
    /\ pc = "bids" /\ Accepts
    /\ bids' = IF \E b \in bids : b.by = m.by THEN bids ELSE bids \cup {m}
    /\ inbox' = Reads(BuyerAgent)
    /\ UNCHANGED <<chain, signer, pc, round, terms, payload, spentSol, sellers, history>>

\* A mention that is not the one waited for is read and forgotten.
DropMention ==
    /\ pc \in DOMAIN Waiting
    /\ inbox[BuyerAgent] # <<>> /\ ~Accepts
    /\ inbox' = Reads(BuyerAgent)
    /\ UNCHANGED <<chain, signer, buyer, sellers, history>>

\* Which bid scores best is left open; bids over the budget are not eligible.
Award ==
    /\ pc = "bids"
    /\ \E b \in {x \in bids : x.price =< BUDGET} :
          /\ bids' = {b}
          /\ inbox' = Sent(inbox, {b.by}, [type |-> "AWARD", round |-> round, to |-> b.by])
    /\ pc' = "terms"
    /\ UNCHANGED <<chain, signer, round, terms, payload, spentSol, sellers, history>>

\* The wait for bids or terms runs out, or no bid is eligible.
GiveUp ==
    /\ \/ pc = "bids" /\ {x \in bids : x.price =< BUDGET} = {}
       \/ pc = "terms"
    /\ pc' = "idle"
    /\ UNCHANGED <<chain, signer, round, bids, terms, payload, spentSol, inbox, sellers, history>>

\* enforce(): the rules that bear on an escrow deposit.
PolicyAllows(t, winner) ==
    /\ t.amount =< BUDGET
    /\ spentSol + t.amount =< SessionCap
    /\ t.amount =< winner.price
    /\ t.seller = SELLER

\* PAYMENT_REQUIRED is read: the policy or the signer refuses, and the round is
\* over, or the deposit is on its way.
Fund ==
    LET t == Head(inbox[BuyerAgent])
        winner == CHOOSE b \in bids : TRUE
    IN
    /\ pc = "terms" /\ Accepts
    /\ now + t.secs =< MaxTime   \* a bound: the deadline is within the model's time
    /\ terms' = [reference |-> t.reference, seller |-> t.seller, amount |-> t.amount,
                 secs |-> t.secs, fundedAt |-> now]
    /\ inbox' = Reads(BuyerAgent)
    /\ IF PolicyAllows(t, winner) /\ Signer!MayDeposit(t.reference, t.seller, t.amount, t.secs)
         THEN /\ Signer!Deposit(handler, t.reference, t.seller, t.amount, t.secs)
              /\ pc' = "funding"
         ELSE /\ pc' = "idle"
              /\ UNCHANGED <<chain, signer>>
    /\ UNCHANGED <<round, bids, payload, spentSol, sellers, history>>

MutUncounted == spentSol

Spent == spentSol + terms.amount

\* The signer answers 200 to the deposit.
Deposited ==
    LET winner == CHOOSE b \in bids : TRUE IN
    /\ pc = "funding"
    /\ Signer!Confirm(handler)
    /\ spentSol' = Spent
    /\ pc' = "confirm"
    /\ inbox' = Sent(inbox, {winner.by},
                     [type |-> "PAYMENT_PROOF", round |-> round, reference |-> terms.reference])
    /\ UNCHANGED <<round, bids, terms, payload, sellers, history>>

\* CONFIRMED: paid, or not, and then the round is over.
ReadConfirmation ==
    /\ pc = "confirm" /\ Accepts
    /\ pc' = IF Head(inbox[BuyerAgent]).paid THEN "delivery" ELSE "idle"
    /\ inbox' = Reads(BuyerAgent)
    /\ UNCHANGED <<chain, signer, round, bids, terms, payload, spentSol, sellers, history>>

NotConfirmed ==
    /\ pc = "confirm"
    /\ pc' = "idle"
    /\ UNCHANGED <<chain, signer, round, bids, terms, payload, spentSol, inbox, sellers, history>>

ReadDelivery ==
    LET m == Head(inbox[BuyerAgent]) IN
    /\ pc = "delivery" /\ Accepts
    /\ payload' = m.payload
    /\ pc' = "verdict"
    /\ inbox' = Sent(Reads(BuyerAgent), {Verifier},
                     [type |-> "VERIFY", round |-> round, sha |-> m.payload, payload |-> m.payload])
    /\ UNCHANGED <<chain, signer, round, bids, terms, spentSol, sellers, history>>

\* The hash of a payload stands for the payload.
Passes(m) == m.verdict = "pass" /\ m.sha = payload

\* PASS on what was delivered: release.
Release ==
    /\ pc = "verdict" /\ Accepts
    /\ Passes(Head(inbox[BuyerAgent]))
    /\ inbox' = Reads(BuyerAgent)
    /\ Signer!Release(handler, terms.reference, terms.seller)
    /\ pc' = "releasing"
    /\ UNCHANGED <<round, bids, terms, payload, spentSol, sellers, history>>

MutGivesUp == "idle"

\* Where a round goes that has nothing to pay for: to wait for the deadline.
Unpaid == "cooling"

\* Any other verdict, or none in time, or no delivery in time.
ReadFailure ==
    /\ pc = "verdict" /\ Accepts
    /\ ~Passes(Head(inbox[BuyerAgent]))
    /\ inbox' = Reads(BuyerAgent)
    /\ pc' = Unpaid
    /\ UNCHANGED <<chain, signer, round, bids, terms, payload, spentSol, sellers, history>>

NotDelivered ==
    /\ pc \in {"delivery", "verdict"}
    /\ pc' = Unpaid
    /\ UNCHANGED <<chain, signer, round, bids, terms, payload, spentSol, inbox, sellers, history>>

Refund ==
    /\ pc = "cooling"
    /\ now >= terms.fundedAt + terms.secs - Lag
    /\ Signer!Refund(handler, terms.reference)
    /\ pc' = "refunding"
    /\ UNCHANGED <<round, bids, terms, payload, spentSol, inbox, sellers, history>>

MutByDelivery == IF payload # None THEN "SETTLED" ELSE "REFUNDED"

Announcement == IF pc = "releasing" THEN "SETTLED" ELSE "REFUNDED"

\* The signer answers 200 to the release or the refund.
Settled ==
    LET winner == CHOOSE b \in bids : TRUE IN
    /\ pc \in {"releasing", "refunding"}
    /\ Signer!Confirm(handler)
    /\ inbox' = Sent(inbox, {winner.by},
                     [type |-> Announcement, round |-> round, reference |-> terms.reference])
    /\ pc' = "idle"
    /\ UNCHANGED <<round, bids, terms, payload, spentSol, sellers, history>>

\* The signer answers 400.  The error ends the round, whatever it was.
SignerFails ==
    /\ MayThrow
    /\ pc \in {"funding", "releasing", "refunding"}
    /\ Signer!Fail(handler) \/ Signer!LoseConfirmation(handler)
    /\ pc' = "idle"
    /\ trouble' = TRUE
    /\ UNCHANGED <<round, bids, terms, payload, spentSol, inbox, sellers, delivered, outcome>>

\* The answer of the signer is lost, or a call to CoralOS throws.
RoundError ==
    /\ MayThrow
    /\ \/ /\ pc \in DOMAIN Waiting
          /\ UNCHANGED <<chain, signer, spentSol>>
       \/ /\ pc \in {"funding", "releasing", "refunding"}
          /\ Signer!Confirm(handler)
          /\ spentSol' \in IF pc = "funding" THEN {spentSol, Spent}
                          ELSE {spentSol}
    /\ pc' = "idle"
    /\ trouble' = TRUE
    /\ UNCHANGED <<round, bids, terms, payload, inbox, sellers, delivered, outcome>>

-----------------------------------------------------------------------------
(* A seller agent.                                                         *)

Free(s) == working[s] = None

\* WANT: quote a price the budget allows, or stay out.
Quote(s) ==
    LET m == Head(inbox[s]) IN
    /\ Free(s) /\ Has(s, "WANT")
    /\ \/ \E p \in {x \in Prices : x =< m.budget} :
             /\ quoted' = [quoted EXCEPT ![s] =
                    {q \in @ : q.round # m.round} \cup {[round |-> m.round, price |-> p]}]
             /\ inbox' = Sent(Reads(s), {BuyerAgent},
                              [type |-> "BID", round |-> m.round, price |-> p, by |-> s])
       \/ /\ inbox' = Reads(s)
          /\ UNCHANGED quoted
    /\ UNCHANGED <<chain, signer, buyer, awarded, working, issued, history>>

\* AWARD of a quote: a fresh reference and the terms.
RequirePayment(s) ==
    LET m == Head(inbox[s]) IN
    /\ Free(s) /\ Has(s, "AWARD")
    /\ m.to = s
    /\ \E q \in {x \in quoted[s] : x.round = m.round}, ref \in Refs \ issued :
          /\ issued' = issued \cup {ref}
          /\ awarded' = [awarded EXCEPT ![s] =
                 @ \cup {[reference |-> ref, round |-> m.round, price |-> q.price]}]
          /\ quoted' = [quoted EXCEPT ![s] = @ \ {q}]
          /\ inbox' = Sent(Reads(s), {BuyerAgent},
                 [type |-> "PAYMENT_REQUIRED", round |-> m.round, amount |-> q.price,
                  reference |-> ref, seller |-> SELLER, secs |-> DeadlineSecs])
    /\ UNCHANGED <<chain, signer, buyer, working, history>>

\* verifyFundedEscrow: the escrow under the reference pays this seller at least
\* the price.
IsFunded(o) ==
    LET e == escrows[<<Buyer, o.reference>>] IN
    /\ e # NoEscrow
    /\ e.seller = SELLER
    /\ e.amount >= o.price

\* PAYMENT_PROOF: look at the escrow; if it is funded, the order leaves the
\* table and the work begins.
CheckPayment(s) ==
    LET m == Head(inbox[s]) IN
    /\ Free(s) /\ Has(s, "PAYMENT_PROOF")
    /\ \E o \in {x \in awarded[s] : x.reference = m.reference} :
          /\ inbox' = Sent(Reads(s), {BuyerAgent},
                 [type |-> "CONFIRMED", round |-> o.round, paid |-> IsFunded(o)])
          /\ IF IsFunded(o)
               THEN /\ awarded' = [awarded EXCEPT ![s] = @ \ {o}]
                    /\ working' = [working EXCEPT ![s] = o]
               ELSE UNCHANGED <<awarded, working>>
    /\ UNCHANGED <<chain, signer, buyer, quoted, issued, history>>

\* The harness is done.
Deliver(s) ==
    /\ ~Free(s)
    /\ \E work \in Payloads :
          /\ delivered' = [delivered EXCEPT ![working[s].reference] = work]
          /\ inbox' = Sent(inbox, {BuyerAgent},
                           [type |-> "DELIVERED", round |-> working[s].round, payload |-> work])
    /\ working' = [working EXCEPT ![s] = None]
    /\ UNCHANGED <<chain, signer, buyer, quoted, awarded, issued, outcome, trouble>>

\* The harness fails: the seller answers ERROR, which the buyer reads over.
WorkFails(s) ==
    /\ ~Free(s)
    /\ working' = [working EXCEPT ![s] = None]
    /\ inbox' = Sent(inbox, {BuyerAgent}, [type |-> "ERROR", round |-> 0])
    /\ UNCHANGED <<chain, signer, buyer, quoted, awarded, issued, history>>

\* A proof for an order it does not know, after a restart, or whose escrow it
\* fails to look up: ERROR, and the order stays.
ProofError(s) ==
    /\ Free(s) /\ Has(s, "PAYMENT_PROOF")
    /\ \/ MayThrow
       \/ \A o \in awarded[s] : o.reference # Head(inbox[s]).reference
    /\ inbox' = Sent(Reads(s), {BuyerAgent}, [type |-> "ERROR", round |-> 0])
    /\ UNCHANGED <<chain, signer, buyer, sellers, history>>

\* SETTLED and REFUNDED change nothing, nor does an award without a quote.
SellerSkips(s) ==
    /\ Free(s) /\ inbox[s] # <<>>
    /\ \/ Has(s, "SETTLED") \/ Has(s, "REFUNDED")
       \/ Has(s, "AWARD") /\ \A q \in quoted[s] : q.round # Head(inbox[s]).round
    /\ inbox' = Reads(s)
    /\ UNCHANGED <<chain, signer, buyer, sellers, history>>

\* The seller process dies and comes back: its maps are in memory only.
SellerRestarts(s) ==
    /\ MayThrow
    /\ quoted' = [quoted EXCEPT ![s] = {}]
    /\ awarded' = [awarded EXCEPT ![s] = {}]
    /\ working' = [working EXCEPT ![s] = None]
    /\ UNCHANGED <<chain, signer, buyer, inbox, issued, history>>

-----------------------------------------------------------------------------
(* The verifier agent.                                                     *)

\* The hash must be that of the payload, and only a patch that passes the
\* tests passes; a good one may still fail (the runner is killed after 10 s).
Verdicts(m) ==
    IF m.sha = m.payload /\ m.payload = "good" THEN {"pass", "fail"} ELSE {"fail"}

Verify ==
    LET m == Head(inbox[Verifier]) IN
    /\ Has(Verifier, "VERIFY")
    /\ \E v \in Verdicts(m) :
          inbox' = Sent(Reads(Verifier), {BuyerAgent},
                        [type |-> "VERIFIED", round |-> m.round, verdict |-> v, sha |-> m.payload])
    /\ UNCHANGED <<chain, signer, buyer, sellers, history>>

-----------------------------------------------------------------------------
(* The cluster.                                                            *)

\* How a transaction closes its escrow.
Closing(tx) == outcome' =
    [outcome EXCEPT ![tx.reference] =
        CASE tx.op = "deposit" -> @
          [] tx.op = "release" -> "released"
          [] tx.op = "refund" ->
                IF now < escrows[<<Buyer, tx.reference>>].deadline THEN "early" ELSE "refunded"]

Land ==
    /\ Signer!Land(handler)
    /\ Closing(handlers[handler])
    /\ UNCHANGED <<buyer, inbox, sellers, delivered, trouble>>

Orphans ==
    /\ \E tx \in orphans :
          \/ Signer!LandOrphan(tx) /\ Closing(tx)
          \/ Signer!DropOrphan(tx) /\ UNCHANGED outcome
    /\ UNCHANGED <<buyer, inbox, sellers, delivered, trouble>>

Tick == /\ Signer!Tick
        /\ UNCHANGED <<buyer, inbox, sellers, history>>

-----------------------------------------------------------------------------
BuyerStep == \/ StartRound \/ CollectBid \/ DropMention \/ Award \/ GiveUp
             \/ Fund \/ Deposited \/ ReadConfirmation \/ NotConfirmed
             \/ ReadDelivery \/ NotDelivered \/ Release \/ ReadFailure \/ Refund \/ Settled

SellerStep(s) == \/ Quote(s) \/ RequirePayment(s) \/ CheckPayment(s)
                 \/ Deliver(s) \/ WorkFails(s) \/ ProofError(s) \/ SellerSkips(s)

Next == \/ BuyerStep \/ SignerFails \/ RoundError
        \/ \E s \in Sellers : SellerStep(s) \/ SellerRestarts(s)
        \/ Verify
        \/ Land \/ Orphans
        \/ Tick

\* The buyer's loop keeps running, every wait ends, the cluster executes what
\* is sent to it and its clock advances.  Nothing is assumed of the sellers
\* and the verifier.
Fairness == WF_vars(BuyerStep) /\ WF_vars(Land) /\ WF_vars(Tick)

Spec == Init /\ [][Next]_vars /\ Fairness

-----------------------------------------------------------------------------
(* Properties *)

Messages ==
    [type : {"WANT"}, round : Rounds, budget : {BUDGET}]
    \cup [type : {"BID"}, round : Rounds, price : Prices, by : Sellers]
    \cup [type : {"AWARD"}, round : Rounds, to : Sellers]
    \cup [type : {"PAYMENT_REQUIRED"}, round : Rounds, amount : Prices, reference : Refs,
          seller : Wallets, secs : {DeadlineSecs}]
    \cup [type : {"PAYMENT_PROOF", "SETTLED", "REFUNDED"}, round : Rounds, reference : Refs]
    \cup [type : {"CONFIRMED"}, round : Rounds, paid : BOOLEAN]
    \cup [type : {"DELIVERED"}, round : Rounds, payload : Payloads]
    \cup [type : {"VERIFY"}, round : Rounds, sha : Payloads, payload : Payloads]
    \cup [type : {"VERIFIED"}, round : Rounds, verdict : {"pass", "fail"}, sha : Payloads]
    \cup [type : {"ERROR"}, round : {0}]

TypeOK == /\ Signer!TypeOK
          /\ pc \in {"idle", "bids", "terms", "funding", "confirm", "delivery", "verdict",
                     "releasing", "cooling", "refunding"}
          /\ round \in 0..MaxRounds
          /\ spentSol \in Nat
          /\ \A a \in Agents : \A i \in DOMAIN inbox[a] : inbox[a][i] \in Messages
          /\ quoted \in [Sellers -> SUBSET Quotes]
          /\ awarded \in [Sellers -> SUBSET AwardedOrders]
          /\ working \in [Sellers -> AwardedOrders \cup {None}]
          /\ payload \in Payloads \cup {None}
          /\ issued \subseteq Refs
          /\ delivered \in [Refs -> Payloads \cup {"nothing"}]
          /\ outcome \in [Refs -> {"none", "released", "refunded", "early"}]
          /\ trouble \in BOOLEAN

Open(ref) == escrows[<<Buyer, ref>>] # NoEscrow

\* The escrow pays only for work that passes: whatever round a verdict, a
\* delivery or a confirmation belongs to and however late it comes, no escrow
\* is released unless a patch that passes was delivered under its reference.
PaidOnlyForGoodWork ==
    \A ref \in Refs : outcome[ref] = "released" => delivered[ref] = "good"

\* A seller works only under an order that was funded at its price, and its
\* claim is good until the deadline: while it works, either the escrow is open
\* or the buyer has had it refunded, after its deadline.
WorkIsFunded ==
    TypeOK /\ \A s \in Sellers : working[s] # None =>
        \/ Open(working[s].reference)
        \/ outcome[working[s].reference] = "refunded"

\* What the buyer announces is what the cluster did.
AnnouncementsAreTrue ==
    \A s \in Sellers : \A i \in DOMAIN inbox[s] :
        LET m == inbox[s][i] IN
        /\ m.type = "SETTLED" => outcome[m.reference] = "released"
        /\ m.type = "REFUNDED" => outcome[m.reference] = "refunded"

\* What the buyer funds in its session stays within the session cap, however
\* often it gives up on a round, unless a call failed under it.
SessionCapHolds == ~trouble => funded =< SessionCap

\* Once the seller has confirmed the deposit, the order is settled one way or
\* the other, whatever the seller and the verifier then do or leave undone,
\* unless a call fails.
ConfirmedOrdersAreSettled ==
    \A ref \in Refs :
        (pc = "delivery" /\ terms.reference = ref) ~> (~Open(ref) \/ trouble)
=============================================================================
