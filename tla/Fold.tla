-------------------------------- MODULE Fold --------------------------------
(* The market's transcript and what the feed makes of it: foldRounds turns    *)
(* the messages of a session's threads into rounds, persistRounds lands each  *)
(* round in a folder, and replaySession makes the rounds of the folders when  *)
(* CoralOS is gone. The agents speak as the market has them speak; a buyer    *)
(* that restarts opens a new thread and counts its rounds from one again.     *)
EXTENDS Wire, Integers, FiniteSets

CONSTANTS Sellers, Rounds, Rails, None,
          Notes,     \* the free texts of a bid, as the tokens they hold
          Lives,     \* bound: starts of the buyer, each with a thread of its own
          MaxSaid    \* bound: messages about each round

(* What identifies a payment. *)
Refs == {"order", "upstream"} \X (1..Lives) \X Rounds

ASSUME FoldAssumption ==
  /\ Lives \in Nat \ {0} /\ Rounds \subseteq Nat \ {0} /\ MaxSaid \in [Rounds -> Nat]
  /\ Rails \subseteq Known.rail /\ \A note \in Notes : note \in Seq(ToSet(note))
  /\ None \notin Sellers /\ None \notin BOOLEAN /\ None \notin Refs
  /\ None \notin {"edge", "pass", "fail", "signed", "tx"}
  /\ None \notin [reference : Refs, buyer : {None, "wallet", "seller"}]

VARIABLES
  said,  \* CoralOS: the messages of each thread (with the fields meant, as history)
  life,  \* the buyer's start whose thread is in use
  shown  \* the feed: the rounds a poll answers with

vars == <<said, life, shown>>

Verbs == {"WANT", "BID", "AWARD", "PAYMENT_REQUIRED", "PAYMENT_PROOF", "PAYMENT_CONFIRMED",
          "DELIVERED", "VERIFIED", "SETTLED", "REFUNDED"}

-----------------------------------------------------------------------------
(* foldRounds. A round's legs are payments by other references than the       *)
(* primary one; a receipt is one that was confirmed or refused.               *)

NewRound == [want |-> None, bids |-> <<>>, award |-> None, payment |-> None, paid |-> FALSE,
             delivered |-> FALSE, verdict |-> None, legs |-> <<>>, receipts |-> <<>>, status |-> "bidding"]

Has(f, k) == k \in DOMAIN f

Put(f, k, v) == [x \in {k} \cup DOMAIN f |-> IF x = k THEN v ELSE f[x]]

IsPrimary(r, m) == r.payment # None /\ r.payment.reference = m.reference

Leg(r, m) == IF Has(r.legs, <<m.rail, m.reference>>) THEN r.legs[<<m.rail, m.reference>>] ELSE [paid |-> None, proof |-> None]

SetLeg(r, m, leg) == Put(r.legs, <<m.rail, m.reference>>, leg)

(* A leg without a confirmation makes no receipt; one with it has one receipt. *)
Receipts(r, m, leg) ==
  LET key     == <<m.rail, m.reference>>
      receipt == [key |-> key, paid |-> leg.paid, proof |-> leg.proof]
      known   == {i \in DOMAIN r.receipts : r.receipts[i].key = key} IN
  IF leg.paid = None THEN r.receipts
  ELSE IF known # {} THEN [i \in DOMAIN r.receipts |-> IF i \in known THEN receipt ELSE r.receipts[i]]
  ELSE Append(r.receipts, receipt)

WithLeg(r, m, leg) == [r EXCEPT !.legs = SetLeg(r, m, leg), !.receipts = Receipts(r, m, leg)]

MutReopens(r, m) ==
  IF \E i \in DOMAIN r.bids : r.bids[i].by = m.by THEN r
  ELSE [r EXCEPT !.bids = Append(@, [by |-> m.by, price |-> m.price]), !.status = "bidding"]

TakeBid(r, m) ==
  IF \E i \in DOMAIN r.bids : r.bids[i].by = m.by THEN r
  ELSE [r EXCEPT !.bids = Append(@, [by |-> m.by, price |-> m.price])]

TakeAward(r, m) == [r EXCEPT !.award = m.to, !.status = IF @ = "bidding" THEN "awarded" ELSE @]

MutLatestTerms(r, m) ==
  IF m.rail = "x402" THEN [r EXCEPT !.payment = [reference |-> m.reference, buyer |-> None]]
  ELSE [r EXCEPT !.legs = SetLeg(r, m, Leg(r, m))]

(* The first terms on the x402 rail are taken for the buyer's payment. *)
TakeRequired(r, m) ==
  IF r.payment = None /\ m.rail = "x402" THEN [r EXCEPT !.payment = [reference |-> m.reference, buyer |-> None]]
  ELSE [r EXCEPT !.legs = SetLeg(r, m, Leg(r, m))]

TakeProof(r, m) ==
  IF IsPrimary(r, m) THEN IF Has(m, "buyer") THEN [r EXCEPT !.payment.buyer = m.buyer] ELSE r
  ELSE WithLeg(r, m, [Leg(r, m) EXCEPT !.proof = m.proof])

TakeConfirmed(r, m) ==
  IF ~IsPrimary(r, m) THEN WithLeg(r, m, [Leg(r, m) EXCEPT !.paid = m.paid])
  ELSE IF m.paid /\ Has(m, "sig")
       THEN [r EXCEPT !.paid = TRUE, !.status = IF @ \in {"bidding", "awarded"} THEN "paid" ELSE @]
       ELSE r

MutAlwaysDelivered(r, m) == [r EXCEPT !.delivered = TRUE, !.status = "delivered"]

TakeDelivered(r, m) == [r EXCEPT !.delivered = TRUE, !.status = IF @ # "settled" THEN "delivered" ELSE @]

Take(r, verb, m) ==
  CASE verb = "WANT"              -> [r EXCEPT !.want = m.service]
    [] verb = "BID"               -> TakeBid(r, m)
    [] verb = "AWARD"             -> TakeAward(r, m)
    [] verb = "VERIFIED"          -> [r EXCEPT !.verdict = m.verdict]
    [] verb = "PAYMENT_REQUIRED"  -> TakeRequired(r, m)
    [] verb = "PAYMENT_PROOF"     -> TakeProof(r, m)
    [] verb = "PAYMENT_CONFIRMED" -> TakeConfirmed(r, m)
    [] verb = "SETTLED"           -> [r EXCEPT !.status = "settled"]
    [] verb = "REFUNDED"          -> [r EXCEPT !.status = "refunded"]
    [] verb = "DELIVERED"         -> TakeDelivered(r, m)

(* Text that is no message of the market is left out. *)
TakeText(rounds, text) ==
  LET m == Parsed(text) IN
  IF text.verb \notin Verbs \/ ~Parses(text.verb, m) THEN rounds
  ELSE Put(rounds, m.round, Take(IF Has(rounds, m.round) THEN rounds[m.round] ELSE NewRound, text.verb, m))

(* One message after another. *)
FoldRounds(texts) ==
  LET upTo[i \in 0..Len(texts)] == IF i = 0 THEN <<>> ELSE TakeText(upTo[i - 1], texts[i])
  IN upTo[Len(texts)]

-----------------------------------------------------------------------------
(* The feed. *)

(* collectMessages: thread by thread. *)
CollectMessages(threads) == FlattenSeq(threads)

RoundTranscript(texts, n) == Only(texts, {t \in ToSet(texts) : HasRound(t) /\ MessageRound(t) = n})

(* persistRounds: a poll writes the folder of every round it has folded anew, *)
(* so that after it RUNS_DIR holds what the session's messages say. The       *)
(* folders are listed by the numbers of their rounds.                         *)
Persisted == IF shown = <<>> THEN <<>> ELSE Only([n \in 1..Max(DOMAIN shown) |-> n], DOMAIN shown)

(* replaySession and replayThreads read the folders one round after another.  *)
Transcripts ==
  LET texts == CollectMessages(said)
      ns    == Persisted
  IN FlattenSeq([i \in DOMAIN ns |-> RoundTranscript(texts, ns[i])])

ReplaySession == FoldRounds(Transcripts)

ReplayThread(texts, l) == Only(texts, {t \in ToSet(texts) : t.thread = l})

-----------------------------------------------------------------------------
(* What the agents say. A thread is said in order; the buyer speaks of the    *)
(* round it is at only, the sellers and the verifier may be late.             *)

(* The messages about a round, by the round they are meant for. *)
OfRound(ms, n) == Only(ms, {m \in ToSet(ms) : m.fields.round = n})

RoundSaid(n) == FlattenSeq([l \in 1..Lives |-> OfRound(said[l], n)])

Posted(l, m) == [verb |-> m.verb, tokens |-> Format(m).tokens, thread |-> l, fields |-> m.fields]

Say(l, n, ms) ==
  /\ Len(RoundSaid(n)) + Len(ms) <= MaxSaid[n]
  /\ said' = [said EXCEPT ![l] = @ \o [i \in DOMAIN ms |-> Posted(l, ms[i])]]
  /\ shown' = FoldRounds(CollectMessages(said'))
  /\ UNCHANGED life

Msg(verb, fields) == [verb |-> verb, fields |-> fields, free |-> <<>>]

Of(l, n, verb) == {m \in ToSet(said[l]) : m.verb = verb /\ m.fields.round = n}

IsSaid(l, n, verb) == Of(l, n, verb) # {}

Current(l, n) == l = life /\ IsSaid(l, n, "WANT") /\ ~IsSaid(l, n + 1, "WANT")

Order(l, n)    == <<"order", l, n>>
Upstream(l, n) == <<"upstream", l, n>>

(* The rail of the order's own terms. *)
RailOf(l, n) == (CHOOSE m \in Of(l, n, "PAYMENT_REQUIRED") : m.fields.reference = Order(l, n)).fields.rail

Confirmed(l, n) == \E m \in Of(l, n, "PAYMENT_CONFIRMED") : m.fields.reference = Order(l, n) /\ m.fields.paid

Want(n) ==
  /\ ~IsSaid(life, n, "WANT") /\ (n - 1 \in Rounds => IsSaid(life, n - 1, "WANT"))
  /\ Say(life, n, <<Msg("WANT", [round |-> n, service |-> "edge", arg |-> n, budget |-> 2])>>)

(* The note is the seller's own text. A bid may be late; the bound is that it *)
(* is said before the terms of the winner.                                    *)
Bid(l, n, s, note) ==
  /\ IsSaid(l, n, "WANT") /\ ~IsSaid(l, n, "PAYMENT_REQUIRED") /\ \A m \in Of(l, n, "BID") : m.fields.by # s
  /\ Say(l, n, <<[Msg("BID", [round |-> n, price |-> 1, by |-> s]) EXCEPT !.free = note]>>)

Award(l, n, s) ==
  /\ Current(l, n) /\ ~IsSaid(l, n, "AWARD") /\ \E m \in Of(l, n, "BID") : m.fields.by = s
  /\ Say(l, n, <<Msg("AWARD", [round |-> n, to |-> s])>>)

Terms(l, n, rail) ==
  /\ IsSaid(l, n, "AWARD") /\ ~IsSaid(l, n, "PAYMENT_REQUIRED")
  /\ Say(l, n, <<Msg("PAYMENT_REQUIRED", [round |-> n, rail |-> rail, amount |-> 1, currency |-> "SOL", reference |-> Order(l, n)])>>)

Pay(l, n) ==
  /\ Current(l, n) /\ IsSaid(l, n, "PAYMENT_REQUIRED") /\ ~IsSaid(l, n, "PAYMENT_PROOF")
  /\ Say(l, n, <<Msg("PAYMENT_PROOF", [round |-> n, rail |-> RailOf(l, n), reference |-> Order(l, n),
                                       proof |-> "signed", buyer |-> "wallet"])>>)

Confirm(l, n, paid) ==
  /\ IsSaid(l, n, "PAYMENT_PROOF") /\ ~IsSaid(l, n, "PAYMENT_CONFIRMED")
  /\ LET base == [round |-> n, rail |-> RailOf(l, n), reference |-> Order(l, n), paid |-> paid] IN
       Say(l, n, <<Msg("PAYMENT_CONFIRMED", IF paid THEN Put(base, "sig", "tx") ELSE base)>>)

(* procureUpstream: three messages about a payment of the seller's own, which *)
(* are sent one after another and taken together here.                        *)
ProcurementLeg(l, n) ==
  LET ref == Upstream(l, n) IN
  << Msg("PAYMENT_REQUIRED", [round |-> n, rail |-> "x402", amount |-> 1, currency |-> "SOL", reference |-> ref]),
     Msg("PAYMENT_PROOF", [round |-> n, rail |-> "x402", reference |-> ref, proof |-> "tx", buyer |-> "seller"]),
     Msg("PAYMENT_CONFIRMED", [round |-> n, rail |-> "x402", reference |-> ref, paid |-> TRUE, sig |-> "tx"]) >>

Procure(l, n) ==
  /\ Confirmed(l, n) /\ ~IsSaid(l, n, "DELIVERED")
  /\ \A m \in Of(l, n, "PAYMENT_REQUIRED") : m.fields.reference = Order(l, n)
  /\ Say(l, n, ProcurementLeg(l, n))

Deliver(l, n) ==
  /\ Confirmed(l, n) /\ ~IsSaid(l, n, "DELIVERED")
  /\ Say(l, n, <<Msg("DELIVERED", [round |-> n])>>)

Verify(l, n, verdict) ==
  /\ IsSaid(l, n, "DELIVERED") /\ ~IsSaid(l, n, "VERIFIED")
  /\ Say(l, n, <<Msg("VERIFIED", [round |-> n, verdict |-> verdict, by |-> "verifier"])>>)

Ended(l, n) == IsSaid(l, n, "SETTLED") \/ IsSaid(l, n, "REFUNDED")

End(l, n, verb) == Say(l, n, <<Msg(verb, [round |-> n, rail |-> RailOf(l, n), reference |-> Order(l, n)])>>)

Settle(l, n) ==
  /\ Current(l, n) /\ IsSaid(l, n, "DELIVERED") /\ ~Ended(l, n)
  /\ RailOf(l, n) = "escrow" => \E m \in Of(l, n, "VERIFIED") : m.fields.verdict = "pass"
  /\ End(l, n, "SETTLED")

Refund(l, n) ==
  /\ Current(l, n) /\ Confirmed(l, n) /\ ~Ended(l, n)
  /\ RailOf(l, n) = "escrow"
  /\ End(l, n, "REFUNDED")

(* The buyer's process ends and another begins, in a thread of its own. *)
Restart ==
  /\ life < Lives /\ said[life] # <<>> /\ life' = life + 1
  /\ UNCHANGED <<said, shown>>

Init == said = [l \in 1..Lives |-> <<>>] /\ life = 1 /\ shown = <<>>

Conversation(l, n) ==
  \/ \E s \in Sellers : Award(l, n, s) \/ \E note \in Notes : Bid(l, n, s, note)
  \/ \E rail \in Rails : Terms(l, n, rail)
  \/ Pay(l, n) \/ \E paid \in BOOLEAN : Confirm(l, n, paid)
  \/ Procure(l, n) \/ Deliver(l, n) \/ \E verdict \in {"pass", "fail"} : Verify(l, n, verdict)
  \/ Settle(l, n) \/ Refund(l, n)

Next ==
  \/ \E n \in Rounds : Want(n) \/ \E l \in 1..life : Conversation(l, n)
  \/ Restart

Spec == Init /\ [][Next]_vars

-----------------------------------------------------------------------------
(* Properties. *)

TypeOK ==
  /\ life \in 1..Lives /\ \A l \in 1..Lives : \A i \in DOMAIN said[l] : said[l][i].verb \in Verbs
  /\ \A l \in 1..Lives : \A i \in DOMAIN said[l] : said[l][i].fields.round \in Rounds

(* What the messages of a round come to, without folding them. *)
LastOf(ms, verbs) == LET at == {i \in DOMAIN ms : ms[i].verb \in verbs} IN IF at = {} THEN 0 ELSE Max(at)

FirstTerms(ms) ==
  LET at == {i \in DOMAIN ms : ms[i].verb = "PAYMENT_REQUIRED" /\ ms[i].fields.rail = "x402"} IN
  IF at = {} THEN None ELSE ms[Min(at)].fields.reference

StatusOf(ms) ==
  LET end       == LastOf(ms, {"SETTLED", "REFUNDED"})
      delivered == LastOf(ms, {"DELIVERED"})
  IN IF end > 0 /\ ms[end].verb = "SETTLED" THEN "settled"
     ELSE IF delivered > end THEN "delivered"
     ELSE IF end > 0 THEN "refunded"
     ELSE IF \E i \in DOMAIN ms : ms[i].verb = "PAYMENT_CONFIRMED" /\ ms[i].fields.paid /\ ms[i].fields.reference = FirstTerms(ms)
          THEN "paid"
     ELSE IF LastOf(ms, {"AWARD"}) > 0 THEN "awarded" ELSE "bidding"

FoldsRight(ms, r) ==
  LET bids  == {i \in DOMAIN ms : ms[i].verb = "BID"}
      award == LastOf(ms, {"AWARD"})
  IN /\ r.status = StatusOf(ms)
     /\ (IF r.payment = None THEN None ELSE r.payment.reference) = FirstTerms(ms)
     /\ r.award = IF award = 0 THEN None ELSE ms[award].fields.to
     /\ {r.bids[i].by : i \in DOMAIN r.bids} = {ms[j].fields.by : j \in bids}
     /\ \A i, j \in DOMAIN r.bids : r.bids[i].by = r.bids[j].by => i = j
     /\ \A i \in DOMAIN r.bids : \E j \in bids :
          /\ ms[j].fields.by = r.bids[i].by /\ ms[j].fields.price = r.bids[i].price
          /\ \A k \in bids : k < j => ms[k].fields.by # r.bids[i].by

(* foldRounds, which reads the messages in one pass, shows what the agents    *)
(* said: one bid of each seller, its first; the award; as payment the first   *)
(* terms on the x402 rail; and as status the last settlement or refund, unless *)
(* a delivery follows the refund (foldRounds.ts:226). This holds although     *)
(* bids come late, notes hold what looks like fields, legs of procurements    *)
(* lie between the others, and a restarted buyer counts its rounds anew.      *)
FoldIsRight ==
  /\ TypeOK /\ DOMAIN shown = {n \in Rounds : RoundSaid(n) # <<>>}
  /\ \A n \in DOMAIN shown : FoldsRight(RoundSaid(n), shown[n])

(* With CoralOS down the feed replays its folders: it then answers with the   *)
(* very rounds it answered with before, and the bus view shows each thread's  *)
(* messages about a round in the order they were said.                        *)
ReplayIsLive ==
  /\ ReplaySession = shown
  /\ LET texts == Transcripts IN
       \A l \in 1..Lives : LET replayed == ReplayThread(texts, l) IN
         \A n \in Rounds : RoundTranscript(replayed, n) = RoundTranscript(said[l], n)

(* Of an order on the x402 rail the fold keeps the payment and the seller's   *)
(* own purchase apart: the payment is the order's, and the receipts are those *)
(* of confirmed upstream purchases, one each and with their proof. (On the    *)
(* escrow rail the order's terms are no payment to the fold, so there it      *)
(* takes the upstream purchase for one: foldRounds.ts:155.)                   *)
Procured(l, n) == \E m \in Of(l, n, "PAYMENT_CONFIRMED") : m.fields.reference = Upstream(l, n)

ToldApart(r, l, n) ==
  LET order    == <<"x402", Order(l, n)>>
      upstream == <<"x402", Upstream(l, n)>>
      keys     == {r.receipts[i].key : i \in DOMAIN r.receipts} IN
  /\ r.paid = Confirmed(l, n)
  /\ order \notin keys /\ (upstream \in keys <=> Procured(l, n))
  /\ \A i, j \in DOMAIN r.receipts : r.receipts[i].key = r.receipts[j].key => i = j
  /\ \A i \in DOMAIN r.receipts : r.receipts[i].key = upstream => r.receipts[i].paid /\ r.receipts[i].proof = "tx"

LegsAreToldApart ==
  \A n \in DOMAIN shown : \A l \in 1..life :
    (shown[n].payment # None /\ shown[n].payment.reference = Order(l, n)) => ToldApart(shown[n], l, n)

-----------------------------------------------------------------------------
(* What a record keeps of a round, and what reputation and clearingPrices     *)
(* make of a session's records. A round counts as settled by a transaction of *)
(* kind "release"; toRunRecord writes none, so that the settle rate, 60       *)
(* points of the score, is always zero.                                       *)

RunRecord(r) == [award |-> r.award, want |-> r.want, bids |-> r.bids, status |-> r.status, delivery |-> r.delivered,
                 verification |-> r.verdict, txs |-> IF r.paid THEN {"payment"} ELSE {}]

Records(rounds) == [n \in DOMAIN rounds |-> RunRecord(rounds[n])]

Won(runs, s) == {n \in DOMAIN runs : runs[n].award = s}

Reputation(runs, s) ==
  [awarded   |-> Cardinality(Won(runs, s)),
   delivered |-> Cardinality({n \in Won(runs, s) : runs[n].delivery}),
   settled   |-> Cardinality({n \in Won(runs, s) : "release" \in runs[n].txs}),
   failed    |-> Cardinality({n \in Won(runs, s) : runs[n].verification = "fail"}),
   refunded  |-> Cardinality({n \in Won(runs, s) : runs[n].status = "refunded"})]

(* Of a hundred points (the quotients are whole for up to two rounds). *)
Score(rep) ==
  (60 * rep.settled + 30 * rep.delivered) \div rep.awarded
    + (10 * ((IF rep.delivered > 0 THEN rep.delivered ELSE 1) - rep.failed)) \div (IF rep.delivered > 0 THEN rep.delivered ELSE 1)

ClearingRounds(runs, service) ==
  {n \in DOMAIN runs : runs[n].want = service /\ \E i \in DOMAIN runs[n].bids : runs[n].bids[i].by = runs[n].award}

Rank(status) == CHOOSE i \in 1..6 : <<"bidding", "awarded", "paid", "delivered", "refunded", "settled">>[i] = status

FallsBack(old, new) == Rank(new) < Rank(old) /\ ~(old = "refunded" /\ new = "delivered")

TrackRecord(runs, s) ==
  LET rep == Reputation(runs, s) IN <<rep.awarded, rep.delivered, rep.failed, Cardinality(ClearingRounds(runs, "edge"))>>

(* As long as the buyer is not restarted, nothing said later takes anything   *)
(* back: no round's status falls behind what was shown before, but for the    *)
(* late delivery of a refunded round, and no seller's record loses a round    *)
(* won, delivered or failed, nor the price record a round (reputation.ts).    *)
(* After a restart a late seller's terms in the old thread can do both.       *)
StatusGrows(old, new) == \A n \in DOMAIN old : n \in DOMAIN new /\ ~FallsBack(old[n].status, new[n].status)

RecordsGrow(old, new) ==
  \A s \in Sellers :
    /\ \A i \in 1..4 : TrackRecord(new, s)[i] >= TrackRecord(old, s)[i]
    /\ Won(new, s) # {} => Score(Reputation(new, s)) \in 0..40

HistoryOnlyGrows == [][life' = 1 => StatusGrows(shown, shown') /\ RecordsGrow(Records(shown), Records(shown'))]_vars
=============================================================================
