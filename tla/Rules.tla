------------------------------- MODULE Rules -------------------------------
(* The market's decisions: what a seller quotes, whose bid the buyer awards,  *)
(* what its policy lets it pay, and whether it has a delivery verified. They  *)
(* read the track records and clearing prices that Fold makes of the rounds.  *)
(* Prices are multiples of 200, so that 97 % of a median is whole.            *)
EXTENDS Fold

CONSTANTS
  MIN_DELIVERIES_FOR_TRUST,
  Prices, Budgets,       \* bounds: the prices bid or cleared, the buyer's budgets
  Scores, Claims         \* bounds: reputations, the values claimed in a bid's note

ASSUME RulesAssumption ==
  /\ MIN_DELIVERIES_FOR_TRUST \in Nat /\ None \notin Nat
  /\ Prices \cup Budgets \subseteq Nat \ {0} /\ Scores \cup Claims \subseteq 0..100

(* Math.round(n / d). *)
RoundDiv(n, d) == (2 * n + d) \div (2 * d)

-----------------------------------------------------------------------------
(* The feed's statistics, None when it cannot be reached or has nothing. *)

FetchReputation(runs, up) ==
  LET known == {s \in Sellers : Won(runs, s) # {}} IN
  IF up THEN [s \in known |-> Put(Reputation(runs, s), "score", Score(Reputation(runs, s)))] ELSE <<>>

(* The k-th of the sorted prices. *)
Sorted(prices, k) ==
  Min({x \in ToSet(prices) : Cardinality({i \in DOMAIN prices : prices[i] <= x}) >= k})

Median(prices) ==
  LET mid == Len(prices) \div 2
  IN IF Len(prices) % 2 = 1 THEN Sorted(prices, mid + 1) ELSE (Sorted(prices, mid) + Sorted(prices, mid + 1)) \div 2

ClearingPrices(prices) == [median |-> Median(prices), max |-> Max(ToSet(prices))]

FetchClearingPrice(prices, up) == IF up /\ prices # <<>> THEN ClearingPrices(prices) ELSE None

-----------------------------------------------------------------------------
(* What a seller bids. *)

SellerConfigFromEnv(env) ==
  [services |-> env.services, floor |-> env.floor, asksFeed |-> env.asksFeed,
   strategy |-> IF env.strategy \in {"undercut", "premium", "balanced"} THEN env.strategy ELSE "balanced"]

StrategyTarget(strategy, clearing) ==
  CASE strategy = "undercut" -> (clearing.median * 97) \div 100
    [] strategy = "premium"  -> clearing.max
    [] strategy = "balanced" -> clearing.median

MutUnclamped(budget, floor, target) == IF target > floor THEN target ELSE floor

Clamp(budget, floor, target) == Min({budget, Max({floor, target})})

(* Its price, None if it sits the round out. *)
DecideBid(want, cfg, prices, up) ==
  LET clearing == FetchClearingPrice(prices, up) IN
  IF want.service \notin cfg.services \/ cfg.floor > want.budget THEN None
  ELSE IF cfg.asksFeed /\ clearing # None THEN Clamp(want.budget, cfg.floor, StrategyTarget(cfg.strategy, clearing))
  ELSE cfg.floor

-----------------------------------------------------------------------------
(* Whom the buyer awards. A bid is [by, price, note]. *)

(* The last bid of each seller, where its first one stood. *)
SelectBids(bids) ==
  LET firsts == {i \in DOMAIN bids : \A j \in 1..i-1 : bids[j].by # bids[i].by}
      order == Only([i \in DOMAIN bids |-> i], firsts)
      lastOf(s) == bids[Max({i \in DOMAIN bids : bids[i].by = s})]
  IN [k \in DOMAIN order |-> lastOf(bids[order[k]].by)]

Neutral == 50

ScoreOf(reputation, s) == IF Has(reputation, s) THEN reputation[s].score ELSE Neutral

(* 60 % price, 40 % track record, rounded to a point. *)
ValueScore(bid, budget, score) ==
  IF bid.price <= budget THEN RoundDiv(300 * (budget - bid.price) + 2 * score * budget, 5 * budget)
  ELSE RoundDiv(2 * score, 5)

(* The claims of a note: the last of a key counts, missing ones are neutral. *)
PatchProfile(bid) ==
  LET claim(key, default) ==
        LET at == Tagged(bid.note, key) IN IF at = {} THEN default ELSE bid.note[Max(at)].val
  IN [seller |-> bid.by, price |-> bid.price, eta |-> claim("eta", 120), reputation |-> claim("rep", Neutral),
      success |-> claim("success", Neutral), specialization |-> claim("spec", Neutral)]

Deadline == 180

(* In tenths of a point: of the price, and of everything else. *)
PriceTenths(budget, p) == RoundDiv(1000 * (budget - p.price), budget)

DeadlineFit(p) == IF p.eta <= Deadline THEN RoundDiv(1000 * (2 * Deadline - p.eta), 2 * Deadline) ELSE 0

Tenths(value) == 10 * Min({100, Max({0, value})})

Quality(p) == 30 * Tenths(p.reputation) + 20 * Tenths(p.success) + 25 * Tenths(p.specialization) + 15 * DeadlineFit(p)

ScoreBid(budget, p) == RoundDiv(10 * PriceTenths(budget, p) + Quality(p), 100)

RankedBefore(budget, p, q) ==
  \/ ScoreBid(budget, p) > ScoreBid(budget, q)
  \/ ScoreBid(budget, p) = ScoreBid(budget, q) /\ p.price < q.price

(* Those that may come first; which of them does is decided by their names. *)
RankBids(budget, profiles) ==
  LET eligible == {p \in profiles : 0 < p.price /\ p.price <= budget}
  IN {p \in eligible : \A q \in eligible : ~RankedBefore(budget, q, p)}

MutDearest(budget, reputation, x, y) == x.price > y.price

Outbids(budget, reputation, x, y) ==
  LET of(bid) == ValueScore(bid, budget, ScoreOf(reputation, bid.by))
  IN of(x) > of(y) \/ (of(x) = of(y) /\ x.price < y.price)

(* The bids that may win; for a patch none if none is eligible. *)
PickWinner(want, pool, reputation) ==
  IF want.service = "patchbond"
  THEN LET best == {p.seller : p \in RankBids(want.budget, {PatchProfile(pool[i]) : i \in DOMAIN pool})}
       IN {pool[i] : i \in {i \in DOMAIN pool : pool[i].by \in best}}
  ELSE {pool[Min({i \in DOMAIN pool : \A j \in DOMAIN pool : ~Outbids(want.budget, reputation, pool[j], pool[i])})]}

-----------------------------------------------------------------------------
(* What its policy lets the buyer pay. In the environment zero is "not set"; *)
(* a limit that is not set is None.                                          *)

Set(n, default) == IF n = 0 THEN default ELSE n

PolicyFromEnv(env, defaults) ==
  [maxPerRound   |-> Set(env.maxPerRound, defaults.budget),
   maxPerSession |-> Set(env.maxPerSession, None),
   services      |-> IF env.services = {} THEN {defaults.service} ELSE env.services,
   payout        |-> defaults.payout,
   minInterval   |-> Set(env.minInterval, None)]

(* The rules a payment violates. *)
Enforce(action, policy) ==
  {rule \in {"spend-cap-round", "spend-cap-session", "award-price", "service-allowlist", "payout-binding", "rate-limit"} :
     CASE rule = "spend-cap-round"   -> action.amount > policy.maxPerRound
       [] rule = "spend-cap-session" -> policy.maxPerSession # None /\ action.spent + action.amount > policy.maxPerSession
       [] rule = "award-price"       -> action.amount > action.awardedPrice
       [] rule = "service-allowlist" -> action.service \notin policy.services
       [] rule = "payout-binding"    -> policy.payout # None /\ action.payout # policy.payout
       [] rule = "rate-limit"        -> policy.minInterval # None /\ action.last # None
                                          /\ action.now - action.last < policy.minInterval}

-----------------------------------------------------------------------------
MutFewer(rep) == rep.delivered + 1 >= MIN_DELIVERIES_FOR_TRUST /\ rep.failed = 0

IsTrusted(rep) == rep.delivered >= MIN_DELIVERIES_FOR_TRUST /\ rep.failed = 0

(* decideVerifyEscalation: is this delivery sent to the verifier? *)
Escalates(verifierConfigured, gateEnabled, s, reputation) ==
  verifierConfigured /\ (gateEnabled => ~(Has(reputation, s) /\ IsTrusted(reputation[s])))

-----------------------------------------------------------------------------
(* Properties. *)

Strategies == {"undercut", "premium", "balanced", ""}

Histories == {<<>>} \cup UNION {[1..n -> Prices] : n \in 1..3}

Unset == [maxPerRound |-> 0, maxPerSession |-> 0, services |-> {}, minInterval |-> 0]

(* A seller that follows the clearing prices, whatever they are and even when *)
(* the feed is down for it, still asks for no less than its floor and no more *)
(* than the budget of the WANT, so that the buyer's own policy, with nothing  *)
(* configured, never refuses the bid it has just awarded, although that WANT  *)
(* may have a smaller budget than the session.                                *)
QuotesAreAllowed ==
  \A budget, floor, session \in Budgets, strategy \in Strategies, prices \in Histories, up \in BOOLEAN :
    LET env    == [services |-> {"edge"}, floor |-> floor, asksFeed |-> TRUE, strategy |-> strategy]
        quote  == DecideBid([service |-> "edge", budget |-> budget], SellerConfigFromEnv(env), prices, up)
        action == [amount |-> quote, awardedPrice |-> quote, service |-> "edge", payout |-> "seller",
                   spent |-> session, last |-> 0, now |-> 0]
        policy == PolicyFromEnv(Unset, [budget |-> session, service |-> "edge", payout |-> "seller"])
    IN floor <= budget /\ budget <= session => quote # None /\ quote >= floor /\ Enforce(action, policy) = {}

Pools == {<<x, y>> : x, y \in [by : Sellers, price : Prices, note : {<<>>}]}

(* No bid loses to a worse one: the awarded bid is not dearer than another of *)
(* a seller with as good a record, nor from a seller whose record is worse by *)
(* three points or more at the same price (less is lost in rounding).         *)
ValueIsUndominated ==
  \A pool \in Pools, budget \in Budgets, known \in SUBSET Sellers : \A scores \in [known -> Scores] :
    LET reputation == [s \in known |-> [score |-> scores[s]]]
        bids       == SelectBids(pool)
    IN \A w \in PickWinner([service |-> "edge", budget |-> budget], bids, reputation) :
         \A i \in DOMAIN bids :
           LET gain == ScoreOf(reputation, bids[i].by) - ScoreOf(reputation, w.by) IN
           ~(bids[i].price < w.price /\ gain >= 0) /\ ~(bids[i].price = w.price /\ gain >= 3)

Profiles(s) ==
  {PatchProfile([by |-> s, price |-> price, note |-> Tokens(<<"eta", "rep", "spec">>, claims)]) :
     price \in Prices, claims \in [{"eta"} -> {0, Deadline + 1}] \cup [{"rep", "spec"} -> Claims]}

IsUndominated(budget, p, q) ==
  /\ p.price <= budget
  /\ q.price <= budget => ~(q.price < p.price /\ Quality(q) >= Quality(p)) /\ Quality(q) - Quality(p) <= 10099

(* The awarded patch is within the budget, no other eligible bid is cheaper   *)
(* and claims as much, and the lowest price alone does not win: its part is   *)
(* ten points, so that no bid is beaten by one whose other claims come to     *)
(* more than ten points less, a rounding aside (scoring.ts:6).                *)
PatchIsUndominated ==
  \A budget \in Budgets, s, t \in Sellers : \A p \in Profiles(s), q \in Profiles(t) :
    p \in RankBids(budget, {p, q}) => IsUndominated(budget, p, q)

(* Whatever rounds there were: the decisions on the next one, over bounded    *)
(* prices, records and claims, are as said above.                             *)
AwardsAreSound == shown # <<>> => QuotesAreAllowed /\ ValueIsUndominated /\ PatchIsUndominated

Delivers(n, s) ==
  LET ms == RoundSaid(n) IN
  /\ \E i \in DOMAIN ms : ms[i].verb = "AWARD" /\ ms[i].fields.to = s
  /\ \E i \in DOMAIN ms : ms[i].verb = "DELIVERED"

Fails(n) == LET ms == RoundSaid(n) IN \E i \in DOMAIN ms : ms[i].verb = "VERIFIED" /\ ms[i].fields.verdict = "fail"

(* A seller is spared the verifier only for what its messages show: it was    *)
(* awarded and delivered as many rounds as trust takes, and the verifier      *)
(* failed it in none. (After a restart of the buyer the rounds of two lives   *)
(* are folded into one, and a seller may get the other's delivery to its      *)
(* credit or the other's failure to its debit: this is about one life.)       *)
TrustIsEarned ==
  life = 1 => \A s \in Sellers : \A up \in BOOLEAN :
    ~Escalates(TRUE, TRUE, s, FetchReputation(Records(shown), up)) =>
      LET served == {n \in Rounds : Delivers(n, s)} IN
      /\ Cardinality(served) >= MIN_DELIVERIES_FOR_TRUST
      /\ \A n \in served : ~Fails(n)
=============================================================================
