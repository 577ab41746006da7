-------------------------------- MODULE Watch --------------------------------
(* From TxLINE's odds to the reads that are sold: the proxy's board of the    *)
(* fixtures with odds, cached through TxLINE's gaps, the watcher that polls   *)
(* it and queues an event for what has changed, the buyer that takes a job    *)
(* from the queue and the seller that reads the fixture's market then. The    *)
(* proxy answers several calls at a time, and its scan of the fixtures takes  *)
(* a while: the odds move on under it.                                        *)
EXTENDS Odds

CONSTANTS Fixtures,       \* TxLINE's list of fixtures
          Offers,         \* the odds each fixture has, one after the other
          Callers,        \* the proxy's calls that may overlap: polls of the
                          \* watcher, browsers, buyers of a read
          Fresh, Keep,    \* how long a board is served, and kept through a gap
          MaxQueue, MovePct,
          Results         \* how a match may end: its score events and its winner

ASSUME WatchAssumption ==
  /\ Fixtures \in Seq(Ids) /\ Ids = ToSet(Fixtures)
  /\ {Fresh, Keep, MaxQueue, MovePct} \subseteq Nat \ {0} /\ Fresh < Keep
  /\ \A f \in Ids : /\ DOMAIN Offers[f] = 1..Len(Offers[f]) /\ Len(Offers[f]) \in Nat \ {0}
                    /\ \A offer \in DOMAIN Offers[f] : AreOdds(Offers[f][offer])

VARIABLES
  offered,   \* TxLINE: how many odds each fixture has had
  apiToken,  \* the proxy's: "none", "good" or "bad"
  cache,     \* boardCache: the last board that was not empty, and its age
  calls,     \* how far each call of the proxy is
  snapshot,  \* the watcher's: the odds it saw last, by fixture
  queue,     \* the watcher's events
  (* History. *)
  good,      \* the time since a scan found a board
  followed,  \* one of the watcher's events, and what has become of it
  crossed    \* two calls of the proxy have overlapped

proxy == <<apiToken, cache, calls, good, crossed>>
watcher == <<snapshot, queue, followed>>
watchVars == <<offered, proxy, watcher>>

(* A line of a board names the odds by their place among a fixture's.         *)
OddsAt(f, offer) == Offers[f][offer]
OddsOf(line) == OddsAt(line.fixture, line.offer)
OddsNow(f) == OddsAt(f, offered[f])

Priced(odds) == \E i \in DOMAIN odds : HasNamedPrice(odds[i])

Resting == [at |-> "idle"]
EventKinds == {"new-fixture", "odds-move"}

WatchInit ==
  /\ offered = [f \in Ids |-> 1]
  /\ apiToken = "none" /\ cache = [age |-> Keep, board |-> <<>>] /\ calls = [c \in Callers |-> Resting]
  /\ snapshot = <<>> /\ queue = <<>>
  /\ good = Keep /\ followed = [at |-> "none", newer |-> 0] /\ crossed = FALSE

-----------------------------------------------------------------------------
(* TxLINE and the clock.                                                      *)

Offer(f) ==
  /\ offered[f] < Len(Offers[f])
  /\ offered' = [offered EXCEPT ![f] = @ + 1]
  /\ UNCHANGED <<proxy, watcher>>

Tick ==
  /\ cache.age < Keep \/ good < Keep
  /\ cache' = [cache EXCEPT !.age = IF @ < Keep THEN @ + 1 ELSE @]
  /\ good' = IF good < Keep THEN good + 1 ELSE good
  /\ UNCHANGED <<offered, apiToken, calls, crossed, watcher>>

-----------------------------------------------------------------------------
(* The proxy. Every request to TxLINE may fail, and does with a bad token.    *)

To(c, stage) == calls' = [calls EXCEPT ![c] = stage]
Answers(c, board) == To(c, [at |-> "answered", board |-> board])

IsFresh(age) == age < Fresh
IsKept(age) == age < Keep

LastGood == IF cache.board # <<>> /\ IsKept(cache.age) THEN cache.board ELSE <<>>

(* board(): a fresh board is served, else TxLINE is asked, first for a token. *)
Ask(c) ==
  /\ calls[c] = Resting
  /\ IF cache.board # <<>> /\ IsFresh(cache.age) THEN Answers(c, cache.board)
     ELSE To(c, [at |-> IF apiToken = "none" THEN "activating" ELSE "listing"])
  /\ crossed' = (crossed \/ \E d \in Callers : calls[d] # Resting)
  /\ UNCHANGED <<offered, apiToken, cache, good, watcher>>

(* ensureToken: what the activation answers is kept before it is looked at.   *)
Activate(c) ==
  /\ calls[c].at = "activating"
  /\ apiToken' = "good" /\ To(c, [at |-> "listing"])
  /\ UNCHANGED <<offered, cache, good, crossed, watcher>>

MisActivate(c) ==
  /\ calls[c].at = "activating"
  /\ apiToken' = "bad" /\ Answers(c, LastGood)
  /\ UNCHANGED <<offered, cache, good, crossed, watcher>>

List(c) ==
  /\ calls[c].at = "listing" /\ apiToken = "good"
  /\ To(c, [at |-> "scanning", todo |-> Ids, seen |-> <<>>])
  /\ UNCHANGED <<offered, apiToken, cache, good, crossed, watcher>>

Unavailable(c) ==
  /\ calls[c].at \in {"activating", "listing"}
  /\ Answers(c, LastGood)
  /\ UNCHANGED <<offered, apiToken, cache, good, crossed, watcher>>

(* The workers take the fixtures at the same time: one answers before another. *)
ScanTo(c, f, seen) ==
  /\ calls[c].at = "scanning" /\ f \in calls[c].todo
  /\ To(c, [calls[c] EXCEPT !.todo = @ \ {f}, !.seen = seen])
  /\ UNCHANGED <<offered, apiToken, cache, good, crossed, watcher>>

Seeing(seen, f, offer) == [g \in {f} \cup DOMAIN seen |-> IF g = f THEN offer ELSE seen[g]]

Scan(c, f) ==
  /\ apiToken = "good"
  /\ ScanTo(c, f, IF Priced(OddsNow(f)) THEN Seeing(calls[c].seen, f, offered[f]) ELSE calls[c].seen)

Skip(c, f) == ScanTo(c, f, calls[c].seen)

(* Fixtures with a 1X2 market first, each kind as TxLINE lists it.            *)
BoardOf(seen) ==
  LET lines  == [i \in DOMAIN Fixtures |-> [fixture |-> Fixtures[i], offer |-> IF Fixtures[i] \in DOMAIN seen THEN seen[Fixtures[i]] ELSE 0]]
      found  == Only(lines, {line \in ToSet(lines) : line.offer > 0})
      first  == {line \in ToSet(found) : Has1x2(OddsOf(line))}
  IN Only(found, first) \o Only(found, ToSet(found) \ first)

MutCacheAll(board) == [age |-> 0, board |-> board]

Cached(board) == IF board = <<>> THEN cache ELSE [age |-> 0, board |-> board]

Finish(c) ==
  /\ calls[c].at = "scanning" /\ calls[c].todo = {}
  /\ LET board == BoardOf(calls[c].seen) IN
     /\ cache' = Cached(board)
     /\ Answers(c, IF board = <<>> THEN LastGood ELSE board)
     /\ good' = IF board = <<>> THEN good ELSE 0
  /\ UNCHANGED <<offered, apiToken, crossed, watcher>>

-----------------------------------------------------------------------------
(* The watcher.                                                               *)

HasAnswered(c) == calls[c].at = "answered"

(* toBoardFixtures, pcts: the numbers of the market the watcher looks at.     *)
PctsOf == [f \in Ids |-> [offer \in DOMAIN Offers[f] |-> Pcts(Select1x2Market(OddsAt(f, offer)))]]

Seen(board) == {board[i].fixture : i \in {j \in DOMAIN board : PctsOf[board[j].fixture][board[j].offer] # <<>>}}
Shown(board, f) == board[CHOOSE i \in DOMAIN board : board[i].fixture = f].offer
Snapshot(board) == [f \in Seen(board) |-> Shown(board, f)]

IsNew(f) == f \notin DOMAIN snapshot
HasMoved(f, offer) == Moved(PctsOf[f][snapshot[f]], PctsOf[f][offer], MovePct)

(* detectEvents: in the order of the board.                                   *)
Events(board) ==
  LET changed == Only(board, {line \in ToSet(board) :
                    line.fixture \in Seen(board) /\ (IsNew(line.fixture) \/ HasMoved(line.fixture, line.offer))})
  IN [i \in DOMAIN changed |->
        [kind |-> IF IsNew(changed[i].fixture) THEN "new-fixture" ELSE "odds-move", fixture |-> changed[i].fixture, followed |-> FALSE]]

MutRefuses(events) == SubSeq(events, 1, IF Len(events) < MaxQueue THEN Len(events) ELSE MaxQueue)

(* Events beyond MaxQueue push the oldest out.                                *)
Newest(events) == SubSeq(events, 1 + (IF Len(events) > MaxQueue THEN Len(events) - MaxQueue ELSE 0), Len(events))

IsFollowed(events) == \E i \in DOMAIN events : events[i].followed

AtMost(n, bound) == IF n < bound THEN n ELSE bound

(* History: event i of these is the one to follow, or none is.                *)
Follow(i, events) ==
  IF i > 0 THEN
    /\ followed.at = "none"
    /\ followed' = [at |-> IF IsFollowed(queue') THEN "queued" ELSE "aged", newer |-> AtMost(Len(events) - i, MaxQueue)]
  ELSE IF followed.at = "queued" THEN
    followed' = [at |-> IF IsFollowed(queue') THEN "queued" ELSE "aged", newer |-> AtMost(followed.newer + Len(events), MaxQueue)]
  ELSE UNCHANGED followed

Marked(events, i) == [j \in DOMAIN events |-> [events[j] EXCEPT !.followed = (j = i)]]

Poll(c) ==
  /\ HasAnswered(c)
  /\ To(c, Resting)
  /\ LET board == calls[c].board IN
     /\ snapshot' = Snapshot(board)
     /\ \E i \in 0..Len(Events(board)) :
          LET events == Marked(Events(board), i) IN queue' = Newest(queue \o events) /\ Follow(i, events)
  /\ UNCHANGED <<offered, apiToken, cache, good, crossed>>

(* The answer does not arrive, or is only looked at.                          *)
Leave(c) ==
  /\ HasAnswered(c)
  /\ To(c, Resting)
  /\ UNCHANGED <<offered, apiToken, cache, good, crossed, watcher>>

-----------------------------------------------------------------------------
(* GET /next: the event is the buyer's, whether the answer arrives or not.    *)
Pop ==
  /\ queue # <<>>
  /\ queue' = Tail(queue)
  /\ followed' = IF Head(queue).followed THEN [at |-> "handed", newer |-> 0] ELSE followed
  /\ UNCHANGED <<offered, proxy, snapshot>>

(* The job the event is handed out as, the WANT the buyer makes of it (none   *)
(* if the answer does not arrive), and the words the seller is asked with.    *)
Job(event) == [service |-> IF event.kind = "odds-move" THEN "sharp-movement" ELSE "txline", arg |-> event.fixture]

FetchNextWant(jobs, arrives) == IF jobs = <<>> \/ ~arrives THEN Unknown ELSE Head(jobs)

Request(want) == <<want.service, want.arg>>

(* readEdge: the odds TxLINE has now, if they have a price, else those of the *)
(* board, if it has the fixture.                                              *)
ReadEdge(f, board) ==
  LET lines == {i \in DOMAIN board : board[i].fixture = f}
  IN AnalyzeEdge(f, IF Priced(OddsNow(f)) THEN OddsNow(f) ELSE IF lines = {} THEN <<>> ELSE OddsOf(board[Min(lines)]))

-----------------------------------------------------------------------------
Call(c) == Ask(c) \/ Activate(c) \/ MisActivate(c) \/ List(c) \/ Unavailable(c) \/ Finish(c)

WatchNext ==
  \/ \E f \in Ids : Offer(f)
  \/ Tick
  \/ \E c \in Callers : Call(c) \/ Poll(c) \/ Leave(c)
  \/ \E c \in Callers, f \in Ids : Scan(c, f) \/ Skip(c, f)
  \/ Pop

WatchSpec == WatchInit /\ [][WatchNext]_watchVars

-----------------------------------------------------------------------------
(* Properties. *)

WatchTypeOK ==
  /\ \A f \in Ids : offered[f] \in 1..Len(Offers[f])
  /\ apiToken \in {"none", "good", "bad"}
  /\ cache.age \in 0..Keep /\ good \in 0..Keep
  /\ \A c \in Callers : calls[c].at \in {"idle", "activating", "listing", "scanning", "answered"}
  /\ DOMAIN snapshot \subseteq Ids /\ Len(queue) <= MaxQueue
  /\ \A i \in DOMAIN queue : queue[i].kind \in EventKinds /\ queue[i].fixture \in Ids
  /\ crossed \in BOOLEAN

(* board(): "never let a transient upstream outage surface". Once a scan has  *)
(* found a board, no call that starts or goes on is answered with an empty    *)
(* one before Keep is over, whichever requests of it fail.                    *)
BoardSurvivesOutages ==
  [][\A c \in Callers : HasAnswered(c)' /\ ~HasAnswered(c) /\ calls'[c].board = <<>> => good' >= Keep]_watchVars

(* The watcher's queue: "stale events age out, newest research wins". An      *)
(* event that was raised is still queued, with just the later ones behind it, *)
(* or has been handed to the buyer, or gave way to MaxQueue later ones.       *)
QueueKeepsNewest ==
  /\ WatchTypeOK
  /\ IsFollowed(queue) <=> followed.at = "queued"
  /\ \A i \in DOMAIN queue : queue[i].followed => Len(queue) - i = followed.newer
  /\ followed.at = "aged" => followed.newer = MaxQueue

(* board, detectEvents: as long as the proxy's calls do not overlap, a move   *)
(* the watcher raises is from one offer of TxLINE to a later one, through     *)
(* every gap, failure and cached board. (Overlapping scans may put an older   *)
(* board back in the cache, and what then "moves" goes back in time.)         *)
MovesAreBacked ==
  [][\A c \in Callers : Poll(c) =>
       \A i \in DOMAIN Events(calls[c].board) :
         LET event == Events(calls[c].board)[i] IN
         event.kind = "odds-move" => crossed \/ snapshot[event.fixture] < Shown(calls[c].board, event.fixture)]_watchVars

(* How a match ended: the last of its events says so, by the goals of the     *)
(* latest period that each side has some for.                                 *)
IsLast(events, i) ==
  \A j \in DOMAIN events : events[j].seq < events[i].seq \/ (events[j].seq = events[i].seq /\ i <= j)

IsLatest(p, total) == PeriodOrder[p] \in DOMAIN total /\ \A q \in 1..p-1 : PeriodOrder[q] \notin DOMAIN total

EndedWith(events, winner) ==
  \E i \in DOMAIN events, p, q \in DOMAIN PeriodOrder :
    /\ IsLast(events, i) /\ events[i].ended /\ IsLatest(p, events[i].part1) /\ IsLatest(q, events[i].part2)
    /\ winner = Winner(events[i].part1[PeriodOrder[p]], events[i].part2[PeriodOrder[q]])

Winners == {"home", "away", "draw"}

ASSUME ResultsAssumption ==
  /\ Unknown \notin Winners /\ Unknown \notin Int
  /\ \A result \in Results :
       /\ result.events \in Seq(ToSet(result.events))
       /\ \A event \in ToSet(result.events) :
            /\ event.seq \in Int
            /\ \A total \in {event.part1, event.part2} : \A period \in DOMAIN total : total[period] \in Int
       /\ result.winner \in Winners \cup {Unknown}
       /\ \A winner \in Winners : result.winner = winner <=> EndedWith(result.events, winner)

(* A market with a price for every outcome.                                   *)
IsFull(market) == /\ DOMAIN market.names = DOMAIN market.pct /\ market.pct # <<>>
                  /\ \A i \in DOMAIN market.pct : market.pct[i] # NA

IsFavourite(market, name) ==
  \E i \in DOMAIN market.names : market.names[i] = name /\ \A j \in DOMAIN market.pct : market.pct[j] <= market.pct[i]

RightGrade(read, result) ==
  LET grade == GradeRun(read, result.events)
      side  == LabelToWinner(read.favourite) IN
  /\ (grade.status = "graded") = (result.winner # Unknown)
  /\ grade.status = "graded" => grade.correct = IF side = Unknown THEN Unknown ELSE side = result.winner

(* A read names a favourite of the 1X2 market, if that is priced.             *)
Agrees(odds, read) ==
  IsFull(EdgeMarket(odds)) =>
    /\ IsFavourite(EdgeMarket(odds), read.favourite)
    /\ read.service = "sharp-movement" => read.leading = read.favourite /\ \A result \in Results : RightGrade(read, result)

(* What is delivered for an event of a fixture, by the seller and by the      *)
(* standalone service, which is asked with the fixture alone.                 *)
Delivered(kind, f, odds, up) ==
  LET want == FetchNextWant(<<Job([kind |-> kind, fixture |-> f])>>, TRUE)
  IN {DeliverService(Request(want), odds, up), DeliverStandalone(<<want.arg>>, odds, up)}

SoundOdds(f, odds) ==
  \A kind \in EventKinds :
    /\ \A read \in Delivered(kind, f, odds, TRUE) : read.fixture = f /\ Agrees(odds[f], read)
    /\ \A read \in Delivered(kind, f, odds, FALSE) : read.favourite = Unknown

Sound == [f \in Ids |-> [offer \in DOMAIN Offers[f] |-> SoundOdds(f, [g \in Ids |-> IF g = f THEN OddsAt(f, offer) ELSE <<>>])]]

(* The seller's three ways to read a market, the standalone service's and the *)
(* proxy's: a fixture's id finds its way through each program's dispatch, of  *)
(* a 1X2 market with a price for each outcome all name the same favourite, of *)
(* TxLINE's errors none is made, and the grade of a sharp-movement read is    *)
(* right exactly if that side has won. A read off the board is of odds that   *)
(* TxLINE has had.                                                            *)
ReadsAgree ==
  /\ \A f \in Ids : Sound[f][offered[f]]
  /\ \A c \in Callers, f \in Ids :
       HasAnswered(c) => LET read == ReadEdge(f, calls[c].board) IN
         \/ \E offer \in 1..offered[f] : Agrees(OddsAt(f, offer), read) /\ read.favourite # Unknown
         \/ read.favourite = Unknown /\ ~Priced(OddsNow(f))
=============================================================================
