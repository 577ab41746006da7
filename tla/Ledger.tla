------------------------------- MODULE Ledger -------------------------------
(***************************************************************************)
(* The run ledger of a TxODDS session: one folder per round, written by    *)
(* two processes that know nothing of each other.  The feed (feed/src)     *)
(* folds the session's transcript on every poll and writes each round it   *)
(* finds; the proxy's grading passes (research/grade.ts) read a folder,    *)
(* add the outcome of the match and write the folder back.                 *)
(*                                                                         *)
(* A round's fold depends only on how many of its messages were seen, and  *)
(* that number stands for it: the session has posted[r] messages of round  *)
(* r, a run.json holds the fold of `view` of them, a transcript.jsonl      *)
(* holds the first lines[r] of them.  No other file of a folder is read.   *)
(*                                                                         *)
(* Each process runs one thread: between two awaits a poll (a pass) is     *)
(* interleaved with the other process but not with its own kind.  A file   *)
(* is written in one step, unless the process stops in the middle of it.   *)
(***************************************************************************)
EXTENDS Integers, FiniteSets, FiniteSetsExt

CONSTANTS
    LastRound,    \* rounds are 1 .. LastRound
    MaxMessages,  \* bound: messages of a round
    Polls,        \* requests for /api/feed that may overlap
    Passes,       \* grading passes that may overlap
    MaxCrashes,   \* bound: how often a process may stop
    Idle,
    NoFile,       \* no file
    Torn          \* a file truncated and never filled: JSON.parse throws on it

Folders == 1 .. LastRound

Outcomes == {"none", "pending", "graded"}
RunJsons == [view : 1 .. MaxMessages, outcome : Outcomes]

ASSUME LedgerAssumption ==
    /\ LastRound \in Nat /\ MaxMessages \in Nat \ {0} /\ MaxCrashes \in Nat
    /\ Torn \notin RunJsons

VARIABLES
    posted,   \* round -> messages of the round in the session
    match,    \* the match the rounds are about
    run,      \* round -> its run.json
    lines,    \* round -> messages in its transcript.jsonl
    poll,     \* poll -> how far the request is
    pass,     \* pass -> how far the grading is
    crashes,
    \* History, read by the properties only.
    raced     \* polls whose round was graded between their read and their write

session == <<posted, match>>
folder == <<run, lines>>
ledgerVars == <<session, folder, poll, pass, crashes, raced>>

PollStages ==
    {Idle}
    \cup [at : {"asked"}]
    \cup [at : {"answered", "read", "write", "lines", "merge"}, outcome : Outcomes,
          seen : [Folders -> 0 .. MaxMessages], todo : SUBSET Folders]
PassStages ==
    {Idle}
    \cup [at : {"scores"}, todo : SUBSET Folders]
    \cup [at : {"scored"}, todo : SUBSET Folders, outcome : Outcomes]
    \cup [at : {"write", "lines"}, todo : SUBSET Folders, outcome : Outcomes,
          view : 1 .. MaxMessages, lines : 0 .. MaxMessages]

LedgerTypeOK ==
    /\ posted \in [Folders -> 0 .. MaxMessages]
    /\ match \in {"ahead", "playing", "ended"}
    /\ run \in [Folders -> {NoFile, Torn} \cup RunJsons]
    /\ lines \in [Folders -> 0 .. MaxMessages]
    /\ \A p \in Polls : poll[p] \in PollStages
    /\ \A g \in Passes : pass[g] \in PassStages
    /\ crashes \in 0 .. MaxCrashes
    /\ raced \subseteq Polls

LedgerInit ==
    /\ posted = [r \in Folders |-> 0]
    /\ match = "ahead"
    /\ run = [r \in Folders |-> NoFile]
    /\ lines = [r \in Folders |-> 0]
    /\ poll = [p \in Polls |-> Idle]
    /\ pass = [g \in Passes |-> Idle]
    /\ crashes = 0
    /\ raced = {}

-----------------------------------------------------------------------------
(* The world.                                                              *)

\* The agents write; a message of a round may still arrive in the next one.
Post(r) == /\ posted[r] < MaxMessages
           /\ r > 1 => posted[r - 1] > 0
           /\ posted' = [posted EXCEPT ![r] = @ + 1]
           /\ UNCHANGED <<match, folder, poll, pass, crashes, raced>>

MatchGoesOn == /\ match # "ended"
               /\ match' = IF match = "ahead" THEN "playing" ELSE "ended"
               /\ UNCHANGED <<posted, folder, poll, pass, crashes, raced>>

-----------------------------------------------------------------------------
(* Reading the ledger.                                                     *)

HasRecord(r) == run[r] \in RunJsons
AnyTorn(rs) == \E r \in rs : run[r] = Torn

\* The rounds a fold of these messages yields.
Folded(seen) == {r \in Folders : seen[r] > 0}

-----------------------------------------------------------------------------
(* A poll of the feed: GET /api/feed.                                      *)

PollAt(p, stage) == poll[p] # Idle /\ poll[p].at = stage
PollTo(p, stage) == poll' = [poll EXCEPT ![p] = stage]
FeedIsFree(p) ==
    \A q \in Polls \ {p} : \A s \in {"read", "write", "lines", "merge"} : ~PollAt(q, s)

Ask(p) == /\ poll[p] = Idle
          /\ PollTo(p, [at |-> "asked"])
          /\ UNCHANGED <<session, folder, pass, crashes, raced>>

MutOnlyNew(seen) == {r \in Folded(seen) : run[r] = NoFile}

\* Every round is written again on every poll.
ToPersist(seen) == Folded(seen)

\* Coral reads the session's state; the response is on its way.
Answer(p) ==
    /\ PollAt(p, "asked")
    /\ PollTo(p, [at |-> "answered", outcome |-> "none", seen |-> posted,
                  todo |-> ToPersist(posted)])
    /\ UNCHANGED <<session, folder, pass, crashes, raced>>

\* Coral is down, or answers with an error: the ledger is served, which
\* changes nothing.
Unreachable(p) ==
    /\ PollAt(p, "asked")
    /\ PollTo(p, Idle)
    /\ UNCHANGED <<session, folder, pass, crashes, raced>>

MutDropsOutcome(r) == "none"

\* The outcome a new record of the round must not lose.
ExistingOutcome(r) == IF HasRecord(r) THEN run[r].outcome ELSE "none"

\* persistRounds, for the next round: read the outcome there is.  A record
\* that cannot be read ends the loop.
ReadOutcome(p) ==
    /\ PollAt(p, "answered") \/ PollAt(p, "read")
    /\ FeedIsFree(p)
    /\ LET todo == poll[p].todo IN
       IF todo = {} \/ run[Min(todo)] = Torn
         THEN PollTo(p, [poll[p] EXCEPT !.at = "merge"])
         ELSE PollTo(p, [poll[p] EXCEPT !.at = "write", !.outcome = ExistingOutcome(Min(todo))])
    /\ UNCHANGED <<session, folder, pass, crashes, raced>>

WriteRecord(p) ==
    /\ PollAt(p, "write")
    /\ LET r == Min(poll[p].todo) IN
       run' = [run EXCEPT ![r] = [view |-> poll[p].seen[r], outcome |-> poll[p].outcome]]
    /\ PollTo(p, [poll[p] EXCEPT !.at = "lines"])
    /\ raced' = raced \ {p}
    /\ UNCHANGED <<session, lines, pass, crashes>>

WriteTranscript(p) ==
    /\ PollAt(p, "lines")
    /\ LET r == Min(poll[p].todo) IN
       /\ lines' = [lines EXCEPT ![r] = poll[p].seen[r]]
       /\ PollTo(p, [poll[p] EXCEPT !.at = "read", !.todo = @ \ {r}])
    /\ UNCHANGED <<session, run, pass, crashes, raced>>

\* mergeOutcomes reads every record again, and the live rounds are served.
ServeLive(p) ==
    /\ PollAt(p, "merge")
    /\ ~AnyTorn(Folded(poll[p].seen))
    /\ PollTo(p, Idle)
    /\ UNCHANGED <<session, folder, pass, crashes, raced>>

\* A record it cannot read throws, into the handler that serves the ledger,
\* and throws there again: the request gets no rounds.
FailToMerge(p) ==
    /\ PollAt(p, "merge")
    /\ AnyTorn(Folded(poll[p].seen))
    /\ PollTo(p, Idle)
    /\ UNCHANGED <<session, folder, pass, crashes, raced>>

-----------------------------------------------------------------------------
(* A grading pass of the proxy: gradeRuns.                                 *)

PassAt(g, stage) == pass[g] # Idle /\ pass[g].at = stage
PassTo(g, stage) == pass' = [pass EXCEPT ![g] = stage]
ProxyIsFree(g) == \A h \in Passes \ {g} : ~PassAt(h, "write") /\ ~PassAt(h, "lines")

\* No outcome yet, or one that was found before the match was over.
NeedsGrading(r) == run[r].outcome # "graded"

\* On to the next candidate; the round at hand is done with.
Proceed(g) ==
    LET rest == pass[g].todo \ {Min(pass[g].todo)} IN
    PassTo(g, IF rest = {} THEN Idle ELSE [at |-> "scores", todo |-> rest])

\* A pass that cannot read the whole ledger fails and leaves no trace.
ListCandidates(g) ==
    /\ pass[g] = Idle
    /\ ~AnyTorn(Folders)
    /\ LET todo == {r \in Folders : HasRecord(r) /\ NeedsGrading(r)} IN
       /\ todo # {}
       /\ PassTo(g, [at |-> "scores", todo |-> todo])
    /\ UNCHANGED <<session, folder, poll, crashes, raced>>

\* The scores as they are now decide the outcome; the response is on its way.
FetchScores(g, r) ==
    /\ PassAt(g, "scores")
    /\ r = Min(pass[g].todo)
    /\ IF match = "ahead"
         THEN Proceed(g)
         ELSE PassTo(g, [at |-> "scored", todo |-> pass[g].todo,
                         outcome |-> IF match = "ended" THEN "graded" ELSE "pending"])
    /\ UNCHANGED <<session, folder, poll, crashes, raced>>

ScoresFail(g) ==
    /\ PassAt(g, "scores")
    /\ Proceed(g)
    /\ UNCHANGED <<session, folder, poll, crashes, raced>>

\* readRun, after the await: whatever the folder holds by now.
ReadBack(g) ==
    /\ PassAt(g, "scored")
    /\ ProxyIsFree(g)
    /\ LET r == Min(pass[g].todo) IN
       IF run[r] = Torn
         THEN Proceed(g)
         ELSE PassTo(g, [at |-> "write", todo |-> pass[g].todo, outcome |-> pass[g].outcome,
                         view |-> run[r].view, lines |-> lines[r]])
    /\ UNCHANGED <<session, folder, poll, crashes, raced>>

WriteGrade(g) ==
    /\ PassAt(g, "write")
    /\ run' = [run EXCEPT ![Min(pass[g].todo)] =
                  [view |-> pass[g].view, outcome |-> pass[g].outcome]]
    /\ PassTo(g, [pass[g] EXCEPT !.at = "lines"])
    /\ raced' = raced \cup {p \in Polls : PollAt(p, "write") /\ Min(poll[p].todo) = Min(pass[g].todo)}
    /\ UNCHANGED <<session, lines, poll, crashes>>

WriteBackTranscript(g) ==
    /\ PassAt(g, "lines")
    /\ lines' = [lines EXCEPT ![Min(pass[g].todo)] = pass[g].lines]
    /\ Proceed(g)
    /\ UNCHANGED <<session, run, poll, crashes, raced>>

-----------------------------------------------------------------------------
(* A process stops and is started again.  What it was writing may be left  *)
(* empty.                                                                  *)

MayTear(writing, truncating) ==
    /\ run' \in {run} \cup {[run EXCEPT ![r] = Torn] : r \in writing}
    /\ lines' \in {lines} \cup {[lines EXCEPT ![r] = 0] : r \in truncating}

FeedStops ==
    /\ crashes < MaxCrashes
    /\ \E p \in Polls : poll[p] # Idle
    /\ MayTear({Min(poll[p].todo) : p \in {q \in Polls : PollAt(q, "write")}},
               {Min(poll[p].todo) : p \in {q \in Polls : PollAt(q, "lines")}})
    /\ poll' = [p \in Polls |-> Idle]
    /\ crashes' = crashes + 1
    /\ raced' = {}
    /\ UNCHANGED <<session, pass>>

ProxyStops ==
    /\ crashes < MaxCrashes
    /\ \E g \in Passes : pass[g] # Idle
    /\ MayTear({Min(pass[g].todo) : g \in {h \in Passes : PassAt(h, "write")}},
               {Min(pass[g].todo) : g \in {h \in Passes : PassAt(h, "lines")}})
    /\ pass' = [g \in Passes |-> Idle]
    /\ crashes' = crashes + 1
    /\ UNCHANGED <<session, poll, raced>>

-----------------------------------------------------------------------------
FeedRuns(p) == ReadOutcome(p) \/ WriteRecord(p) \/ WriteTranscript(p) \/ ServeLive(p) \/ FailToMerge(p)
ProxyRuns(g) == ReadBack(g) \/ WriteGrade(g) \/ WriteBackTranscript(g)

LedgerNext ==
    \/ \E r \in Folders : Post(r)
    \/ MatchGoesOn
    \/ \E p \in Polls : Ask(p) \/ Answer(p) \/ Unreachable(p) \/ FeedRuns(p)
    \/ \E g \in Passes : ListCandidates(g) \/ ScoresFail(g) \/ ProxyRuns(g)
    \/ \E g \in Passes, r \in Folders : FetchScores(g, r)
    \/ FeedStops
    \/ ProxyStops

\* Browsers poll and the proxy grades at intervals, code that runs goes on,
\* the match ends, and Coral does not fail every request, nor TxLINE
\* every request about the same round.
Fairness ==
    /\ WF_ledgerVars(MatchGoesOn)
    /\ \A p \in Polls : WF_ledgerVars(Ask(p)) /\ SF_ledgerVars(Answer(p)) /\ WF_ledgerVars(FeedRuns(p))
    /\ \A g \in Passes : WF_ledgerVars(ListCandidates(g)) /\ WF_ledgerVars(ProxyRuns(g))
    /\ \A g \in Passes, r \in Folders : SF_ledgerVars(FetchScores(g, r))

LedgerSpec == LedgerInit /\ [][LedgerNext]_ledgerVars /\ Fairness

-----------------------------------------------------------------------------
(* Properties *)

IsGraded(r) == HasRecord(r) /\ run[r].outcome = "graded"

\* A grade in the ledger is lost to a race or a crash only: to a poll that read
\* the record before the grade was in it, to a pass that asked for the scores
\* before the match was over, or to a process that stopped while writing.
GradesAreOnlyRacedAway ==
    [][LedgerTypeOK' /\ \A r \in Folders : IsGraded(r) /\ ~IsGraded(r)' =>
          \/ \E p \in raced : WriteRecord(p)
          \/ \E g \in Passes : WriteGrade(g) /\ pass[g].outcome # "graded"
          \/ run'[r] = Torn]_ledgerVars

InSync(r) == posted[r] > 0 =>
                 HasRecord(r) /\ run[r].view = posted[r] /\ lines[r] = posted[r]

\* Whatever polls and passes overwrite and wherever a process stops, each
\* round's folder catches up with the session again, record and transcript
\* alike, as long as it is polled, and once the match is over every round that
\* was played ends up graded, however often it was found pending or its grade
\* was lost: unless a record was left torn.
LedgerCatchesUp ==
    \A r \in Folders :
        /\ []<>(InSync(r) \/ AnyTorn(Folders))
        /\ posted[r] > 0 ~> (IsGraded(r) \/ AnyTorn(Folders))
=============================================================================
