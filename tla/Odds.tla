-------------------------------- MODULE Odds --------------------------------
(* What the TxODDS agents make of a fixture's odds, and of its scores: which  *)
(* market is read, who is its favourite, whether it has moved, and whether    *)
(* the favourite that was sold has won. Each program has its own copy.        *)
EXTENDS Integers, Sequences, FiniteSetsExt, SequencesExt, Filters

CONSTANTS NA,      \* a price that is no number
          Unknown, \* no market, no favourite, no prediction, no score
          Ids      \* the numbers of the fixtures, among the words of a request

(* Odds are a list of markets: a kind, the names of the outcomes and their    *)
(* implied probabilities in percent.                                          *)
NoMarket == [kind |-> Unknown, names |-> <<>>, pct |-> <<>>]

FindIn(odds, Test(_)) ==
  LET found == {i \in DOMAIN odds : Test(odds[i])} IN IF found = {} THEN NoMarket ELSE odds[Min(found)]

HasFinitePrice(market) == \E i \in DOMAIN market.pct : market.pct[i] # NA

(* The proxy asks for a price that has a name.                                *)
HasNamedPrice(market) == \E i \in DOMAIN market.names \cap DOMAIN market.pct : market.pct[i] # NA

(* Probabilities are what the margin leaves of the odds: where there are some,*)
(* they are not all zero.                                                     *)
AreOdds(odds) ==
  /\ DOMAIN odds = 1..Len(odds) /\ \A i \in DOMAIN odds : odds[i].pct \in Seq({NA} \cup Int)
  /\ \A i \in DOMAIN odds :
       LET market == odds[i] IN
       /\ \A k \in DOMAIN market.names : market.names[k] # Unknown
       /\ HasNamedPrice(market) => \E k \in DOMAIN market.names \cap DOMAIN market.pct : market.pct[k] # NA /\ market.pct[k] > 0

Prefer1x2(odds, Priced(_)) ==
  LET first == FindIn(odds, LAMBDA m : m.kind = "1X2" /\ Priced(m))
  IN IF first # NoMarket THEN first ELSE FindIn(odds, Priced)

(* The watcher's choice and the sharp-movement seller's.                      *)
Select1x2Market(odds) == Prefer1x2(odds, HasFinitePrice)

(* The choice of the proxy's reads.                                           *)
Shape(odds) == Prefer1x2(odds, HasNamedPrice)

(* The choice of the seller's plain reads, priced or not.                     *)
EdgeMarket(odds) == FindIn(odds, LAMBDA m : m.kind = "1X2")

Has1x2(odds) == \E i \in DOMAIN odds : odds[i].kind = "1X2" /\ HasNamedPrice(odds[i])

-----------------------------------------------------------------------------
(* detectEvents: a market's numbers now against those of the last board.      *)

Pcts(market) == Only(market.pct, ToSet(market.pct) \ {NA})

Differ(p, q, threshold) == p - q >= threshold \/ q - p >= threshold

MutAnyMove(before, now, threshold) == \E i \in DOMAIN now : i \notin DOMAIN before \/ Differ(now[i], before[i], 0)

Moved(before, now, threshold) == \E i \in DOMAIN now \cap DOMAIN before : Differ(now[i], before[i], threshold)

-----------------------------------------------------------------------------
(* The reads that are sold.                                                   *)

(* The first of the outcomes with the highest price among those that count.   *)
Leader(market, Counts(_)) ==
  LET priced == {i \in DOMAIN market.names \cap DOMAIN market.pct : market.pct[i] # NA /\ Counts(market.pct[i])}
      best   == {i \in priced : \A j \in priced : market.pct[j] <= market.pct[i]}
  IN IF best = {} THEN Unknown ELSE market.names[Min(best)]

FairFavourite(market) == Leader(market, LAMBDA p : p > 0)

DeterministicRead(market) == Leader(market, LAMBDA p : TRUE)

MutLowest(market) ==
  LET nums == Pcts(market)
      at   == Min({i \in DOMAIN nums : \A j \in DOMAIN nums : nums[j] >= nums[i]})
  IN IF nums = <<>> \/ at \notin DOMAIN market.names THEN Unknown ELSE market.names[at]

(* The place of the highest number among the numbers, taken for its place     *)
(* among the names.                                                           *)
LeadingLabel(market) ==
  LET nums == Pcts(market)
      at   == Min({i \in DOMAIN nums : \A j \in DOMAIN nums : nums[j] <= nums[i]})
  IN IF nums = <<>> \/ at \notin DOMAIN market.names THEN Unknown ELSE market.names[at]

Spread(market) ==
  LET sorted == SortSeq(Pcts(market), >) IN IF Len(sorted) >= 2 THEN sorted[1] - sorted[2] ELSE 0

Magnitude(market) ==
  IF Spread(market) >= 30 THEN "extreme" ELSE IF Spread(market) >= 15 THEN "sharp" ELSE "moderate"

(* A product of one of the services; an error has neither fixture nor read.   *)
Blank(service) == [service |-> service, fixture |-> Unknown, leading |-> Unknown, favourite |-> Unknown, magnitude |-> Unknown]

ReadOf(service, f, favourite) == [Blank(service) EXCEPT !.fixture = f, !.favourite = favourite]

AnalyzeEdge(f, odds) == ReadOf("edge", f, FairFavourite(Shape(odds)))

(* txlineGet: the odds of a fixture, or an error, which is no list of markets. *)
TxlineGet(odds, f, up) == IF up /\ f \in Ids THEN odds[f] ELSE <<>>

FixtureIdFrom(words) ==
  LET i == SelectInSeq(words, LAMBDA word : word \in Ids) IN IF i = 0 THEN Unknown ELSE words[i]

SharpMovement(words, odds, up) ==
  LET f      == FixtureIdFrom(words)
      market == Select1x2Market(TxlineGet(odds, f, up))
  IN IF market = NoMarket THEN [Blank("sharp-movement") EXCEPT !.fixture = f]
     ELSE [ReadOf("sharp-movement", f, DeterministicRead(market)) EXCEPT !.leading = LeadingLabel(market), !.magnitude = Magnitude(market)]

TxlineEdge(f, odds, up) == ReadOf("txline-edge", f, DeterministicRead(EdgeMarket(TxlineGet(odds, f, up))))

(* A bare number asks for the read of that fixture. *)
Action(words) == IF words = <<>> THEN <<"fixtures">> ELSE IF Head(words) \in Ids THEN <<"edge">> \o words ELSE words

Fixture(action) == IF Len(action) > 1 THEN action[2] ELSE Unknown

MutFirstWord(words, odds, up) ==
  IF words # <<>> /\ Head(words) = "edge" THEN TxlineEdge(Fixture(words), odds, up) ELSE Blank("txline-fixtures")

TxlineService(words, odds, up) ==
  LET action == Action(words) IN
  CASE Head(action) = "odds" -> [Blank("txline-odds") EXCEPT !.fixture = Fixture(action)]
    [] Head(action) = "edge" -> TxlineEdge(Fixture(action), odds, up)
    [] OTHER                 -> Blank("txline-fixtures")

(* The seller's service: a patch unless something else is asked for.          *)
DeliverService(words, odds, up) ==
  LET service == IF words = <<>> THEN "patchbond" ELSE Head(words) IN
  CASE service = "patchbond"      -> Blank("patchbond")
    [] service = "sharp-movement" -> SharpMovement(Tail(words), odds, up)
    [] service = "txline"         -> TxlineService(Tail(words), odds, up)
    [] OTHER                      -> Blank("unsupported")

(* The standalone service, whose client throws where the seller's returns an  *)
(* error; what it throws is answered as an error again.                       *)
DeliverStandalone(words, odds, up) ==
  LET action == Action(words)
      f      == Fixture(action)
  IN IF ~up \/ Head(action) \notin {"fixtures", "odds", "edge"} \/ (Head(action) # "fixtures" /\ f \notin Ids)
     THEN Blank("error")
     ELSE CASE Head(action) = "odds" -> [Blank("txline-odds") EXCEPT !.fixture = f]
            [] Head(action) = "edge" -> AnalyzeEdge(f, odds[f])
            [] OTHER                 -> Blank("txline-fixtures")

-----------------------------------------------------------------------------
(* gradeRun. A score event has a sequence number, tells whether the match is  *)
(* over, and gives each side's goals period by period, as far as it got.      *)

PeriodOrder == <<"PE", "ET2", "ET1", "H2", "HT", "H1">>

TotalGoals(total) ==
  LET i == SelectInSeq(PeriodOrder, LAMBDA period : period \in DOMAIN total)
  IN IF i = 0 THEN Unknown ELSE total[PeriodOrder[i]]

(* The first event of the highest number.                                     *)
LatestEvent(events) ==
  events[Min({i \in DOMAIN events : \A j \in DOMAIN events : events[j].seq <= events[i].seq})]

LabelToWinner(label) ==
  CASE label = "part1"        -> "home"
    [] label = "part2"        -> "away"
    [] label \in {"x", "draw"} -> "draw"
    [] OTHER                  -> Unknown

Winner(home, away) == IF home > away THEN "home" ELSE IF away > home THEN "away" ELSE "draw"

Ungraded == [status |-> "pending", winner |-> Unknown, correct |-> Unknown]

GradeRun(delivery, events) ==
  LET latest == LatestEvent(events)
      home   == TotalGoals(latest.part1)
      away   == TotalGoals(latest.part2)
      predicted == LabelToWinner(delivery.leading)
  IN IF events = <<>> \/ ~latest.ended \/ home = Unknown \/ away = Unknown THEN Ungraded
     ELSE [status |-> "graded", winner |-> Winner(home, away),
           correct |-> IF predicted = Unknown THEN Unknown ELSE predicted = Winner(home, away)]
=============================================================================
