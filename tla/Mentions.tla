------------------------------ MODULE Mentions ------------------------------
(* The CoralOS client of an agent (CoralMcpAgent, startCoralAgent): how the   *)
(* mentions CoralOS holds for the agent reach its code, and what happens to   *)
(* the threads it opens. A message is its place in `sent`. An answer of       *)
(* CoralOS to a wait is a sequence of messages, several when it coalesces.    *)
EXTENDS Naturals, SequencesExt, FiniteSets, Filters

CONSTANTS Peers,       \* the agents that mention this one
          Threads,     \* the threads they do it in
          Nothing,     \* no thread
          Scenarios,   \* bound: the sequences of messages they send
          MaxOpened,   \* bound: threads this agent opens
          MaxBroken    \* bound: calls whose connection breaks

Message == [sender : Peers, thread : Threads \cup {Nothing}, text : BOOLEAN]

ASSUME MentionsAssumption ==
  /\ Nothing \notin Peers \cup Threads \cup Nat /\ "main" \notin Peers
  /\ Scenarios \subseteq Seq(Message) /\ {MaxOpened, MaxBroken} \subseteq Nat

VARIABLES
  scenario,        \* what the peers will send
  sent,            \* the messages that mention the agent, in order
  inbox,           \* those no answer has taken yet
  responder,       \* whether the agent's code is runLoop, or a program of its own
  call,            \* what each strand of the agent's code waits for or does
  answer,          \* the answer on its way to a strand, if any: at most one
  pendingMentions, \* mentions read with an earlier one and not yet handed out
  lastThread,      \* lastThreadId
  opened,          \* CoralOS: the number of threads the agent opened
  closed,          \* CoralOS: those of them that are closed
  exiting,         \* how far the process is: starting, running, or how far its shutdown handler is
  handed,          \* history: the mentions the agent's code was given, each with the kind of wait
  carried,         \* history: the kind of wait whose answer took a message
  awaited,         \* history: the threads waitForMentionInThread was called for
  broken           \* history: the messages and threads of answers that broke off

server     == <<scenario, sent, inbox, opened, closed>>
threads    == <<lastThread, opened, closed, exiting>>
history    == <<handed, carried, awaited, broken>>
clientVars == <<server, responder, call, answer, pendingMentions, lastThread, exiting, history>>

HasText(i) == sent[i].text

Main    == "main"
Strands == {Main} \cup Peers   \* a wait for each peer runs beside the main strand
Waits   == {"mention", "inThread", "agent"}
Free    == [kind |-> "idle", for |-> Nothing]

Contents(answers) == UNION {ToSet(batch) : batch \in ToSet(answers)}

ClientInit ==
  /\ scenario \in Scenarios /\ sent = <<>> /\ inbox = <<>> /\ responder \in BOOLEAN
  /\ call = [s \in Strands |-> Free] /\ answer = [s \in Strands |-> <<>>]
  /\ pendingMentions = <<>> /\ lastThread = Nothing /\ opened = 0 /\ closed = {} /\ exiting = "starting"
  /\ handed = <<>> /\ carried = <<>> /\ awaited = {}
  /\ broken = [messages |-> {}, threads |-> {}, times |-> 0]

-----------------------------------------------------------------------------
(* CoralOS. *)

Post ==
  /\ Len(sent) < Len(scenario) /\ exiting # "exited"
  /\ sent' = Append(sent, scenario[Len(sent) + 1])
  /\ inbox' = Append(inbox, Len(sent) + 1) /\ carried' = Append(carried, "idle")
  /\ UNCHANGED <<scenario, responder, call, answer, pendingMentions, threads, handed, awaited, broken>>

(* waitForMention asks CoralOS only when no mention is left of an earlier answer. *)
Asked(s) ==
  /\ call[s].kind \in Waits /\ answer[s] = <<>>
  /\ call[s].kind # "agent" => pendingMentions = <<>>

From(p) == {i \in DOMAIN sent : sent[i].sender = p}
Wanted(s) == IF call[s].kind = "agent" THEN Only(inbox, From(call[s].for)) ELSE inbox

(* An answer takes one or more of the messages the wait is about. *)
Deliver(s) ==
  /\ Asked(s)
  /\ \E n \in 1..Len(Wanted(s)) :
       LET batch == SubSeq(Wanted(s), 1, n) IN
       /\ answer' = [answer EXCEPT ![s] = <<batch>>]
       /\ inbox' = Only(inbox, DOMAIN sent \ ToSet(batch))
       /\ carried' = [i \in DOMAIN carried |-> IF i \in ToSet(batch) THEN call[s].kind ELSE carried[i]]
  /\ UNCHANGED <<scenario, sent, responder, call, pendingMentions, threads, handed, awaited, broken>>

(* A thread is opened at once; the agent learns of it with the answer. *)
OpenThread ==
  /\ call[Main].kind = "create" /\ answer[Main] = <<>>
  /\ opened' = opened + 1 /\ answer' = [answer EXCEPT ![Main] = <<<<opened + 1>>>>]
  /\ UNCHANGED <<scenario, sent, inbox, responder, call, pendingMentions, lastThread, closed, exiting, history>>

-----------------------------------------------------------------------------
(* The agent's code: runLoop, or a program of its own that calls what it      *)
(* likes, with a wait for every peer beside its main strand.                  *)

(* startCoralAgent connects before it hands control to the agent's code, and  *)
(* handles signals from then on only; without CoralOS the process ends.       *)
Connect ==
  /\ exiting = "starting" /\ exiting' = "no"
  /\ UNCHANGED <<server, responder, call, answer, pendingMentions, lastThread, history>>

Exit ==
  /\ exiting' = "exited" /\ call' = [s \in Strands |-> [kind |-> "ended", for |-> Nothing]]
  /\ UNCHANGED <<server, responder, answer, pendingMentions, lastThread, history>>

FailToConnect == exiting = "starting" /\ Exit

Enter(s, kind, for) ==
  /\ exiting \notin {"starting", "exited"} /\ call[s] = Free
  /\ call' = [call EXCEPT ![s] = [kind |-> kind, for |-> for]]
  /\ UNCHANGED <<scenario, sent, inbox, responder, answer, pendingMentions, threads, handed, carried, broken>>

WaitForMention == Enter(Main, "mention", Nothing) /\ UNCHANGED awaited

WaitForMentionInThread(t) == ~responder /\ Enter(Main, "inThread", t) /\ awaited' = awaited \cup {t}

WaitForAgent(p) == ~responder /\ Enter(p, "agent", p) /\ UNCHANGED awaited

CreateThread == ~responder /\ opened < MaxOpened /\ Enter(Main, "create", Nothing) /\ UNCHANGED awaited

Return(s) == call' = [call EXCEPT ![s] = Free]

(* A wait without an answer in time gives null; a wait for a thread goes on. *)
TimeUp(s) ==
  /\ Asked(s) /\ call[s].kind # "inThread" /\ Return(s)
  /\ UNCHANGED <<server, responder, answer, pendingMentions, lastThread, exiting, history>>

(* A mention is given to the program, or to the handler of runLoop. A wait    *)
(* for a thread passes over the mentions of other threads and goes on.        *)
Hand(s, i) ==
  IF call[s].kind = "inThread" /\ sent[i].thread # call[s].for
  THEN UNCHANGED <<handed, call>>
  ELSE /\ handed' = Append(handed, [msg |-> i, by |-> call[s].kind])
       /\ IF responder THEN call' = [call EXCEPT ![s] = [kind |-> "handle", for |-> i]] ELSE Return(s)

MutTakesNewest ==
  /\ call[Main].kind \in {"mention", "inThread"} /\ pendingMentions # <<>>
  /\ pendingMentions' = Front(pendingMentions) /\ Hand(Main, Last(pendingMentions))
  /\ UNCHANGED <<server, responder, answer, lastThread, exiting, carried, awaited, broken>>

TakePending ==
  /\ call[Main].kind \in {"mention", "inThread"} /\ pendingMentions # <<>>
  /\ pendingMentions' = Tail(pendingMentions) /\ Hand(Main, Head(pendingMentions))
  /\ UNCHANGED <<server, responder, answer, lastThread, exiting, carried, awaited, broken>>

(* parseMention: the first message of an answer, if that has a text. *)
FirstOf(batch) == IF HasText(Head(batch)) THEN <<Head(batch)>> ELSE <<>>

(* parseMentions: the messages of an answer that have a text. *)
Parsed(batch) == Only(batch, {i \in DOMAIN sent : HasText(i)})

Answered(s) == answer[s] # <<>> /\ answer' = [answer EXCEPT ![s] = <<>>]

ReceiveMentions ==
  /\ call[Main].kind \in {"mention", "inThread"} /\ Answered(Main)
  /\ LET mentions == Parsed(Head(answer[Main])) IN
       IF mentions = <<>>
       THEN /\ IF call[Main].kind = "mention" THEN Return(Main) ELSE UNCHANGED call
            /\ UNCHANGED <<pendingMentions, handed>>
       ELSE pendingMentions' = pendingMentions \o Tail(mentions) /\ Hand(Main, Head(mentions))
  /\ UNCHANGED <<server, responder, lastThread, exiting, carried, awaited, broken>>

ReceiveFromAgent(p) ==
  /\ call[p].kind = "agent" /\ Answered(p)
  /\ LET mentions == FirstOf(Head(answer[p])) IN
       IF mentions = <<>> THEN Return(p) /\ UNCHANGED handed ELSE Hand(p, Head(mentions))
  /\ UNCHANGED <<server, responder, pendingMentions, lastThread, exiting, carried, awaited, broken>>

MutForgetsThread ==
  /\ call[Main].kind = "create" /\ Answered(Main) /\ Return(Main)
  /\ UNCHANGED <<server, responder, pendingMentions, lastThread, exiting, history>>

ReceiveThread ==
  /\ call[Main].kind = "create" /\ Answered(Main)
  /\ lastThread' = Head(Head(answer[Main])) /\ Return(Main)
  /\ UNCHANGED <<server, responder, pendingMentions, exiting, history>>

(* The deadline of a wait for a thread, which it looks at between two waits. *)
Expire ==
  /\ call[Main].kind = "inThread" /\ answer[Main] = <<>> /\ Return(Main)
  /\ UNCHANGED <<server, responder, answer, pendingMentions, lastThread, exiting, history>>

MutLoopEnds(s) == IF responder THEN call' = [call EXCEPT ![s] = [kind |-> "ended", for |-> Nothing]] ELSE Return(s)

(* runLoop pauses after an error, and gives up on the mention it was at. *)
Throw(s) == IF responder THEN call' = [call EXCEPT ![s] = [kind |-> "sleep", for |-> Nothing]] ELSE Return(s)

(* A call whose connection breaks throws; what its answer had taken is lost. *)
Break(s) ==
  /\ call[s].kind \in Waits \cup {"create", "reply"} /\ broken.times < MaxBroken
  /\ Asked(s) \/ answer[s] # <<>> \/ call[s].kind \in {"create", "reply"}
  /\ LET taken == Contents(answer[s]) IN
       broken' = [times    |-> broken.times + 1,
                  messages |-> broken.messages \cup IF call[s].kind \in Waits THEN taken ELSE {},
                  threads  |-> broken.threads \cup IF call[s].kind = "create" THEN taken ELSE {}]
  /\ answer' = [answer EXCEPT ![s] = <<>>] /\ Throw(s)
  /\ UNCHANGED <<server, responder, pendingMentions, lastThread, exiting, handed, carried, awaited>>

(* The handler returns; a mention without a thread is not replied to. *)
Handled ==
  /\ call[Main].kind = "handle"
  /\ IF sent[call[Main].for].thread = Nothing THEN Return(Main)
     ELSE call' = [call EXCEPT ![Main].kind = "reply"]
  /\ UNCHANGED <<server, responder, answer, pendingMentions, lastThread, exiting, history>>

HandlerThrows ==
  /\ call[Main].kind = "handle" /\ Throw(Main)
  /\ UNCHANGED <<server, responder, answer, pendingMentions, lastThread, exiting, history>>

(* sendMessage returns, and so does the pause after an error. *)
GoOn ==
  /\ call[Main].kind \in {"reply", "sleep"} /\ Return(Main)
  /\ UNCHANGED <<server, responder, answer, pendingMentions, lastThread, exiting, history>>

(* SIGTERM: shutdown closes the thread opened last, whatever the strands are doing. *)
Shutdown ==
  /\ exiting = "no" /\ exiting' = "closing"
  /\ UNCHANGED <<server, responder, call, answer, pendingMentions, lastThread, history>>

CloseThread ==
  /\ exiting = "closing" /\ exiting' = "closed"
  /\ IF lastThread = Nothing THEN UNCHANGED <<closed, lastThread, broken>>
     ELSE \/ closed' = closed \cup {lastThread} /\ lastThread' = Nothing /\ UNCHANGED broken
          \/ /\ broken.times < MaxBroken
             /\ broken' = [broken EXCEPT !.times = @ + 1, !.threads = @ \cup {lastThread}]
             /\ UNCHANGED <<closed, lastThread>>
  /\ UNCHANGED <<scenario, sent, inbox, opened, responder, call, answer, pendingMentions, handed, carried, awaited>>

Disconnect == exiting = "closed" /\ Exit

Step ==
  \/ Connect
  \/ WaitForMention \/ \E t \in Threads : WaitForMentionInThread(t)
  \/ \E p \in Peers : WaitForAgent(p) \/ ReceiveFromAgent(p)
  \/ CreateThread \/ ReceiveThread
  \/ TakePending \/ ReceiveMentions \/ Expire
  \/ Handled \/ HandlerThrows \/ GoOn
  \/ CloseThread \/ Disconnect

ClientNext ==
  \/ Step \/ Shutdown \/ FailToConnect
  \/ Post
  \/ \E s \in Strands : Deliver(s) \/ TimeUp(s) \/ Break(s)
  \/ OpenThread

(* CoralOS does not let every wait time out in front of a message. *)
Fairness == WF_clientVars(Step) /\ SF_clientVars(Deliver(Main))

ClientSpec == ClientInit /\ [][ClientNext]_clientVars /\ Fairness

-----------------------------------------------------------------------------
ClientTypeOK ==
  /\ sent \in Seq(Message)
  /\ {inbox, pendingMentions} \subseteq Seq(DOMAIN sent)
  /\ DOMAIN call = Strands /\ DOMAIN answer = Strands
  /\ \A s \in Strands : call[s].kind \in Waits \cup {"idle", "handle", "reply", "sleep", "create", "ended"}
  /\ lastThread \in {Nothing} \cup 1..opened /\ closed \subseteq 1..opened /\ opened <= MaxOpened
  /\ exiting \in {"starting", "no", "closing", "closed", "exited"}

Given == {handed[n].msg : n \in DOMAIN handed}

Held == ToSet(inbox) \cup ToSet(pendingMentions) \cup 
        UNION {Contents(answer[s]) : s \in {r \in Strands : call[r].kind \in Waits}}

(* No mention is handed out twice, and those that waitForMention hands out   *)
(* come in the order they were sent, however CoralOS coalesces them and       *)
(* whatever other waits take in between. Waits for an agent overtake, but     *)
(* never another mention that a wait for the same agent hands out.            *)
HandedOnceInOrder ==
  ClientTypeOK /\ \A m, n \in DOMAIN handed : m < n =>
    /\ handed[m].msg # handed[n].msg
    /\ handed[m].msg > handed[n].msg =>
         \/ "agent" \in {handed[m].by, handed[n].by} /\ handed[m].by # handed[n].by
         \/ handed[m].by = "agent" /\ sent[handed[m].msg].sender # sent[handed[n].msg].sender

(* A mention with a text that CoralOS let go of reaches the agent's code,     *)
(* unless its answer broke off, a wait for another thread passed over it, or  *)
(* it came behind an earlier one in the answer to a wait for its sender: no   *)
(* seller's message hides another seller's, and runLoop loses none.           *)
LostForAReason ==
  exiting # "exited" => \A i \in DOMAIN sent : HasText(i) =>
    \/ i \in Given \cup Held \cup broken.messages
    \/ carried[i] # "agent" /\ \E t \in awaited : t # sent[i].thread
    \/ carried[i] = "agent" /\ \E j \in 1..i-1 : sent[j].sender = sent[i].sender /\ carried[j] = "agent"

(* An agent that ends leaves a thread open only if it opened another since,   *)
(* never learned of the thread before it closed its last, or could not close. *)
ThreadsAreClosed ==
  exiting = "exited" => \A t \in 1..opened :
    t \in closed \cup broken.threads \/ t < opened \/ lastThread = t \/ t \in Contents(answer[Main])

(* Under runLoop every mention with a text reaches the handler in the end,    *)
(* unless a connection took it down, or the agent was told to end or could    *)
(* not start.                                                                *)
MentionsReachTheHandler ==
  \A i \in UNION {DOMAIN s : s \in Scenarios} :
    (responder /\ i \in DOMAIN sent /\ HasText(i)) ~> (i \in Given \cup broken.messages \/ exiting \notin {"starting", "no"})
=============================================================================
