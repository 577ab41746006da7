---------------------------- MODULE AgentProofs ----------------------------
(* The launchers around CoralOS, for any number of users, scripts, ports and  *)
(* sessions: no service is lost to scripts that start at once                 *)
(* (ServicesAreServed), and no round is left in part or beside a later one    *)
(* (RoundsAreWhole, OldRoundsAreStopped).                                     *)
(* And the client of CoralOS, for any number of peers, threads, messages and  *)
(* broken calls: mentions keep their order (HandedOnceInOrder), none is lost  *)
(* without a reason (LostForAReason), and the thread opened last is closed    *)
(* (ThreadsAreClosed). And the proxy and its watcher, for any fixtures, odds  *)
(* and overlapping calls: the queue keeps the newest (QueueKeepsNewest), a    *)
(* board outlives TxLINE's outages (BoardSurvivesOutages), moves go forward   *)
(* in time (MovesAreBacked), and all services name the same favourite, whose  *)
(* grade is right (ReadsAgree). The three modules share no variable, but what *)
(* their filters do (FilterLemma).                                            *)
EXTENDS Sessions, Mentions, Watch, SequenceTheorems, WellFoundedInduction, TLAPS

-----------------------------------------------------------------------------
(* The launchers' services.                                                   *)

(* A port is served for a script, or will be, or has been taken from it.      *)
Served(s, p) ==
  listening[p] # None \/ p \in bereft[s] \/ \E t \in Scripts : <<t, p>> \in starting

AtPorts == [at : {"probe", "spawn"}, ports : Seq(PortSet)]
AtRound == [at : {"round", "retry"}, left : Int]
Still   == [at : {"down", "up", "closing", "gone"}]

ServicesTypeOK ==
  /\ script \in [Scripts -> AtPorts \cup AtRound \cup Still]
  /\ listening \in [PortSet -> Scripts \cup {None}]
  /\ starting \subseteq Scripts \X PortSet
  /\ bereft \in [Scripts -> SUBSET PortSet]

(* A script at its ports leaves those served that it has passed.              *)
PassedAreServed ==
  \A s \in Scripts : script[s].at \in {"probe", "spawn"} =>
    \A p \in PortSet : Served(s, p) \/ \E i \in DOMAIN script[s].ports : script[s].ports[i] = p

IInv == ServicesTypeOK /\ PassedAreServed /\ ServicesAreServed

-----------------------------------------------------------------------------
LEMMA PortsAreASequence == Ports \in Seq(PortSet)
  BY SessionsAssumption DEF SessionsAssumption, PortSet

LEMMA NoneIsNoScript == None \notin Scripts
  BY SessionsAssumption DEF SessionsAssumption

(* What is behind the head of a sequence is in its tail.                      *)
LEMMA BehindTheHead ==
  ASSUME NEW S, NEW ports \in Seq(S), ports # <<>>
  PROVE  /\ Head(ports) \in S /\ Tail(ports) \in Seq(S)
         /\ \A i \in DOMAIN ports : ports[i] = Head(ports) \/ \E j \in DOMAIN Tail(ports) : Tail(ports)[j] = ports[i]
<1>1. Head(ports) \in S /\ Tail(ports) \in Seq(S) /\ Len(ports) \in Nat \ {0}
  BY HeadTailProperties, EmptySeq, LenProperties
<1>2. ASSUME NEW i \in DOMAIN ports, i # 1
      PROVE  i - 1 \in DOMAIN Tail(ports) /\ Tail(ports)[i - 1] = ports[i]
  <2>1. i \in 2..Len(ports)
    BY <1>1, <1>2, LenProperties
  <2>2. DOMAIN Tail(ports) = 1..Len(ports) - 1 /\ \A j \in 1..Len(ports) - 1 : Tail(ports)[j] = ports[j + 1]
    BY HeadTailProperties, LenProperties
  <2> QED
    BY <2>1, <2>2
<1>3. ports[1] = Head(ports)
  BY <1>1, HeadTailProperties
<1> QED
  BY <1>1, <1>2, <1>3

(* An instance of a state in which nothing of the services changes.           *)
LEMMA OthersKeepServices == IInv /\ UNCHANGED services => IInv'
<1> SUFFICES ASSUME IInv, UNCHANGED services PROVE IInv'
  OBVIOUS
<1>1. ServicesTypeOK'
  BY DEF IInv, services, ServicesTypeOK
<1>2. \A s \in Scripts, p \in PortSet : Served(s, p) <=> Served(s, p)'
  BY DEF services, Served
<1>3. PassedAreServed'
  BY <1>2 DEF IInv, services, PassedAreServed
<1>4. ServicesAreServed'
  BY DEF IInv, services, ServicesAreServed
<1> QED
  BY <1>1, <1>3, <1>4 DEF IInv

-----------------------------------------------------------------------------
(* The actions that move a script or a service.                               *)

(* A script that goes to a stage without ports and before or after its rounds *)
(* is served as before, if the services stay as they are.                     *)
LEMMA StagePreserves ==
  ASSUME IInv, NEW s \in Scripts, NEW stage \in AtRound \cup Still, ScriptTo(s, stage),
         UNCHANGED <<listening, starting, bereft>>,
         stage.at \in {"round", "retry", "up"} => \A p \in PortSet : Served(s, p)
  PROVE  IInv'
<1>1. ServicesTypeOK'
  BY DEF IInv, ServicesTypeOK, ScriptTo
<1>2. \A t \in Scripts, p \in PortSet : Served(t, p) <=> Served(t, p)'
  BY DEF Served
<1>3. script' = [script EXCEPT ![s] = stage] /\ script \in [Scripts -> AtPorts \cup AtRound \cup Still]
  BY DEF IInv, ServicesTypeOK, ScriptTo
<1>4. stage.at \notin {"probe", "spawn"}
  BY DEF AtRound, Still
<1>5. PassedAreServed'
  <2> SUFFICES ASSUME NEW t \in Scripts, script'[t].at \in {"probe", "spawn"}, NEW p \in PortSet
               PROVE  Served(t, p)' \/ \E i \in DOMAIN script'[t].ports : script'[t].ports[i] = p
    BY DEF PassedAreServed
  <2>1. t # s /\ script'[t] = script[t]
    BY <1>3, <1>4
  <2> QED
    BY <2>1, <1>2 DEF IInv, PassedAreServed
<1>6. ServicesAreServed'
  <2> SUFFICES ASSUME NEW t \in Scripts, script'[t].at \in {"round", "retry", "up"}, NEW p \in PortSet
               PROVE  Served(t, p)'
    BY DEF ServicesAreServed, Served
  <2>1. CASE t = s
    BY <2>1, <1>2, <1>3
  <2>2. CASE t # s
    BY <2>2, <1>2, <1>3 DEF IInv, ServicesAreServed, Served
  <2> QED
    BY <2>1, <2>2
<1> QED
  BY <1>1, <1>5, <1>6 DEF IInv

(* All ports of a script that has come to their end are served.               *)
LEMMA StartedIsServed ==
  ASSUME IInv, NEW s \in Scripts, Started(s)
  PROVE  \A p \in PortSet : Served(s, p)
  BY DEF IInv, PassedAreServed, Started

(* A script that goes from one stage at its ports to another.                 *)
LEMMA PortStagePreserves ==
  ASSUME IInv, NEW s \in Scripts, NEW stage \in AtPorts, ScriptTo(s, stage), UNCHANGED <<listening, bereft>>,
         starting \subseteq starting', starting' \subseteq Scripts \X PortSet,
         \A p \in PortSet : Served(s, p)' \/ \E i \in DOMAIN stage.ports : stage.ports[i] = p
  PROVE  IInv'
<1>1. ServicesTypeOK'
  BY DEF IInv, ServicesTypeOK, ScriptTo
<1>2. \A t \in Scripts, p \in PortSet : Served(t, p) => Served(t, p)'
  BY DEF Served
<1>3. script' = [script EXCEPT ![s] = stage] /\ script \in [Scripts -> AtPorts \cup AtRound \cup Still]
  BY DEF IInv, ServicesTypeOK, ScriptTo
<1>4. stage.at \in {"probe", "spawn"}
  BY DEF AtPorts
<1>5. PassedAreServed'
  <2> SUFFICES ASSUME NEW t \in Scripts, script'[t].at \in {"probe", "spawn"}, NEW p \in PortSet
               PROVE  Served(t, p)' \/ \E i \in DOMAIN script'[t].ports : script'[t].ports[i] = p
    BY DEF PassedAreServed
  <2>1. CASE t = s
    BY <2>1, <1>3
  <2>2. CASE t # s
    BY <2>2, <1>2, <1>3 DEF IInv, PassedAreServed
  <2> QED
    BY <2>1, <2>2
<1>6. ServicesAreServed'
  <2> SUFFICES ASSUME NEW t \in Scripts, script'[t].at \in {"round", "retry", "up"}, NEW p \in PortSet
               PROVE  Served(t, p)'
    BY DEF ServicesAreServed, Served
  <2>1. t # s /\ script'[t] = script[t]
    BY <1>3, <1>4
  <2> QED
    BY <2>1, <1>2 DEF IInv, ServicesAreServed, Served
<1> QED
  BY <1>1, <1>5, <1>6 DEF IInv

LEMMA StartPreserves == ASSUME IInv, NEW s \in Scripts, Start(s) PROVE IInv'
<1>1. [at |-> "probe", ports |-> Ports] \in AtPorts
  BY PortsAreASequence DEF AtPorts
<1>2. \A p \in PortSet : \E i \in DOMAIN Ports : Ports[i] = p
  BY DEF PortSet
<1>3. starting' \subseteq Scripts \X PortSet
  BY DEF IInv, ServicesTypeOK, Start
<1> QED
  BY <1>1, <1>2, <1>3, PortStagePreserves DEF Start

(* A script at a port has it in its hands, and others behind it.              *)
LEMMA AtAPort ==
  ASSUME IInv, NEW s \in Scripts, NEW at \in {"probe", "spawn"}, AtPort(s, at)
  PROVE  /\ script[s] \in AtPorts /\ script[s].at = at
         /\ Head(script[s].ports) \in PortSet /\ Tail(script[s].ports) \in Seq(PortSet)
         /\ \A p \in PortSet : \/ Served(s, p) \/ p = Head(script[s].ports)
                               \/ \E i \in DOMAIN Tail(script[s].ports) : Tail(script[s].ports)[i] = p
<1>1. script[s] \in AtPorts /\ script[s].ports # <<>>
  BY DEF IInv, ServicesTypeOK, AtPort, AtPorts, AtRound, Still
<1>2. script[s].ports \in Seq(PortSet)
  BY <1>1 DEF AtPorts
<1>3. \A p \in PortSet : Served(s, p) \/ \E i \in DOMAIN script[s].ports : script[s].ports[i] = p
  BY DEF IInv, PassedAreServed, AtPort
<1> QED
  BY <1>1, <1>2, <1>3, BehindTheHead DEF AtPort

LEMMA ProbePreserves == ASSUME IInv, NEW s \in Scripts, Probe(s) PROVE IInv'
<1> DEFINE ports == script[s].ports
<1>1. /\ script[s] \in AtPorts
      /\ Head(ports) \in PortSet /\ Tail(ports) \in Seq(PortSet)
      /\ \A p \in PortSet : Served(s, p) \/ p = Head(ports) \/ \E i \in DOMAIN Tail(ports) : Tail(ports)[i] = p
  BY AtAPort DEF Probe
<1>2. /\ \A p \in PortSet : Served(s, p)' <=> Served(s, p)
      /\ starting \subseteq starting' /\ starting' \subseteq Scripts \X PortSet /\ UNCHANGED <<listening, bereft>>
  BY DEF Probe, Served, IInv, ServicesTypeOK
<1>3. CASE PortIsOpen(Head(ports))
  <2> DEFINE stage == [script[s] EXCEPT !.ports = Tail(@)]
  <2>1. stage \in AtPorts /\ stage.ports = Tail(ports) /\ ScriptTo(s, stage)
    BY <1>1, <1>3 DEF AtPorts, Probe
  <2>2. Served(s, Head(ports))
    BY <1>3 DEF PortIsOpen, Served
  <2>3. \A p \in PortSet : Served(s, p)' \/ \E i \in DOMAIN stage.ports : stage.ports[i] = p
    BY <1>1, <1>2, <2>1, <2>2
  <2> HIDE DEF stage
  <2> QED
    BY <1>2, <2>1, <2>3, PortStagePreserves
<1>4. CASE ~PortIsOpen(Head(ports))
  <2> DEFINE stage == [script[s] EXCEPT !.at = "spawn"]
  <2>1. stage \in AtPorts /\ stage.ports = ports /\ ScriptTo(s, stage)
    BY <1>1, <1>4 DEF AtPorts, Probe
  <2>2. \A p \in PortSet : Served(s, p) \/ \E i \in DOMAIN ports : ports[i] = p
    BY DEF IInv, PassedAreServed, Probe, AtPort
  <2>3. \A p \in PortSet : Served(s, p)' \/ \E i \in DOMAIN stage.ports : stage.ports[i] = p
    BY <1>2, <2>1, <2>2
  <2> HIDE DEF stage
  <2> QED
    BY <1>2, <2>1, <2>3, PortStagePreserves
<1> QED
  BY <1>3, <1>4

LEMMA SpawnServicePreserves == ASSUME IInv, NEW s \in Scripts, SpawnService(s) PROVE IInv'
<1> DEFINE ports == script[s].ports
           stage == [script[s] EXCEPT !.at = "probe", !.ports = Tail(@)]
<1>1. /\ script[s] \in AtPorts
      /\ Head(ports) \in PortSet /\ Tail(ports) \in Seq(PortSet)
      /\ \A p \in PortSet : Served(s, p) \/ p = Head(ports) \/ \E i \in DOMAIN Tail(ports) : Tail(ports)[i] = p
  BY AtAPort DEF SpawnService
<1>2. /\ starting' = starting \cup {<<s, Head(ports)>>} /\ UNCHANGED <<listening, bereft>>
      /\ starting \subseteq Scripts \X PortSet
  BY DEF SpawnService, IInv, ServicesTypeOK
<1>3. starting \subseteq starting' /\ starting' \subseteq Scripts \X PortSet
  BY <1>1, <1>2
<1>4. \A p \in PortSet : Served(s, p) \/ p = Head(ports) => Served(s, p)'
  BY <1>2 DEF Served
<1>5. stage \in AtPorts /\ stage.ports = Tail(ports) /\ ScriptTo(s, stage)
  BY <1>1 DEF AtPorts, SpawnService
<1>6. \A p \in PortSet : Served(s, p)' \/ \E i \in DOMAIN stage.ports : stage.ports[i] = p
  BY <1>1, <1>4, <1>5
<1> HIDE DEF stage
<1> QED
  BY <1>2, <1>3, <1>5, <1>6, PortStagePreserves

LEMMA StagesPreserve ==
  ASSUME IInv, NEW s \in Scripts,
         Up(s) \/ ImagesFail(s) \/ RoundEnded(s) \/ Closed(s) \/ \E left \in 0..Attempts : Attempt(s, left)
  PROVE  IInv'
<1>1. CASE Up(s)
  BY <1>1, StartedIsServed, StagePreserves DEF Up, Still
<1>2. CASE ImagesFail(s)
  BY <1>2, StagePreserves DEF ImagesFail, Still
<1>3. CASE RoundEnded(s)
  <2>1. \A p \in PortSet : Served(s, p)
    BY <1>3 DEF IInv, ServicesAreServed, Served, RoundEnded
  <2>2. script[s] \in AtRound
    BY <1>3 DEF IInv, ServicesTypeOK, RoundEnded, AtPorts, AtRound, Still
  <2>3. PICK stage \in AtRound \cup Still : ScriptTo(s, stage)
    BY <1>3, <2>2 DEF RoundEnded, AtRound, Still
  <2> QED
    BY <1>3, <2>1, <2>3, StagePreserves DEF RoundEnded
<1>4. CASE Closed(s)
  BY <1>4, StagePreserves DEF Closed, Still
<1>5. ASSUME NEW left \in 0..Attempts, Attempt(s, left)
      PROVE  IInv'
  <2>1. \A p \in PortSet : Served(s, p)
    <3>1. CASE Started(s)
      BY <3>1, StartedIsServed
    <3>2. CASE script[s].at = "retry"
      BY <3>2 DEF IInv, ServicesAreServed, Served
    <3> QED
      BY <1>5, <3>1, <3>2 DEF Attempt
  <2>2. [at |-> "round", left |-> left] \in AtRound
    BY SessionsAssumption DEF SessionsAssumption, AtRound
  <2> QED
    BY <1>5, <2>1, <2>2, StagePreserves DEF Attempt
<1> QED
  BY <1>1, <1>2, <1>3, <1>4, <1>5

(* A service that starts to listen still serves, or its port is served.       *)
LEMMA ListenPreserves == ASSUME IInv, NEW s \in Scripts, NEW p \in PortSet, Listen(s, p) PROVE IInv'
<1>1. /\ listening' = IF listening[p] = None THEN [listening EXCEPT ![p] = s] ELSE listening
      /\ starting' = starting \ {<<s, p>>} /\ UNCHANGED <<script, bereft>>
      /\ listening \in [PortSet -> Scripts \cup {None}] /\ starting \subseteq Scripts \X PortSet
  BY DEF IInv, ServicesTypeOK, Listen
<1>2. ServicesTypeOK'
  BY <1>1 DEF IInv, ServicesTypeOK
<1>3. ASSUME NEW t \in Scripts, NEW q \in PortSet, Served(t, q)
      PROVE  Served(t, q)'
  <2>1. CASE q = p
    BY <1>1, <2>1, NoneIsNoScript DEF Served
  <2>2. CASE q # p
    BY <1>1, <1>3, <2>2 DEF Served
  <2> QED
    BY <2>1, <2>2
<1>4. PassedAreServed'
  BY <1>1, <1>3 DEF IInv, PassedAreServed
<1>5. ServicesAreServed'
  BY <1>1, <1>3 DEF IInv, ServicesAreServed, Served
<1> QED
  BY <1>2, <1>4, <1>5 DEF IInv

(* A script that stops takes its services from the others, and notes it.      *)
LEMMA StopPreserves == ASSUME IInv, NEW s \in Scripts, Stop(s) PROVE IInv'
<1>1. /\ listening' = [p \in PortSet |-> IF listening[p] = s THEN None ELSE listening[p]]
      /\ starting' = {e \in starting : e[1] # s}
      /\ bereft' = [t \in Scripts |-> IF t = s THEN {} ELSE bereft[t] \cup {p \in PortSet : listening[p] = s \/ <<s, p>> \in starting}]
  BY DEF Stop, Own
<1>2. /\ script \in [Scripts -> AtPorts \cup AtRound \cup Still]
      /\ listening \in [PortSet -> Scripts \cup {None}] /\ starting \subseteq Scripts \X PortSet
      /\ bereft \in [Scripts -> SUBSET PortSet]
  BY DEF IInv, ServicesTypeOK
<1>3. script'[s].at \in {"closing", "gone"} /\ \A t \in Scripts \ {s} : script'[t] = script[t]
  BY <1>2 DEF Stop, ScriptTo
<1>4. ServicesTypeOK'
  <2>1. script' \in [Scripts -> AtPorts \cup AtRound \cup Still]
    BY <1>2 DEF Stop, ScriptTo, Still
  <2>2. listening' \in [PortSet -> Scripts \cup {None}] /\ starting' \subseteq Scripts \X PortSet
    BY <1>1, <1>2
  <2>3. bereft' \in [Scripts -> SUBSET PortSet]
    BY <1>1, <1>2
  <2> QED
    BY <2>1, <2>2, <2>3 DEF ServicesTypeOK
<1>5. ASSUME NEW t \in Scripts \ {s}, NEW q \in PortSet, Served(t, q)
      PROVE  Served(t, q)'
  <2>1. bereft'[t] = bereft[t] \cup {p \in PortSet : listening[p] = s \/ <<s, p>> \in starting}
    BY <1>1
  <2>2. CASE listening[q] = s
    BY <2>1, <2>2 DEF Served
  <2>3. CASE listening[q] # s /\ listening[q] # None
    BY <1>1, <2>3 DEF Served
  <2>4. CASE q \in bereft[t]
    BY <2>1, <2>4 DEF Served
  <2>5. ASSUME NEW u \in Scripts, <<u, q>> \in starting
        PROVE  Served(t, q)'
    <3>1. CASE u = s
      BY <2>1, <2>5, <3>1 DEF Served
    <3>2. CASE u # s
      BY <1>1, <2>5, <3>2 DEF Served
    <3> QED
      BY <3>1, <3>2
  <2> QED
    BY <1>5, <2>2, <2>3, <2>4, <2>5 DEF Served
<1>6. PassedAreServed'
  <2> SUFFICES ASSUME NEW t \in Scripts, script'[t].at \in {"probe", "spawn"}, NEW p \in PortSet
               PROVE  Served(t, p)' \/ \E i \in DOMAIN script'[t].ports : script'[t].ports[i] = p
    BY DEF PassedAreServed
  <2>1. t \in Scripts \ {s} /\ script'[t] = script[t]
    BY <1>3
  <2> QED
    BY <2>1, <1>5 DEF IInv, PassedAreServed
<1>7. ServicesAreServed'
  <2> SUFFICES ASSUME NEW t \in Scripts, script'[t].at \in {"round", "retry", "up"}, NEW p \in PortSet
               PROVE  Served(t, p)'
    BY DEF ServicesAreServed, Served
  <2>1. t \in Scripts \ {s} /\ script'[t] = script[t]
    BY <1>3
  <2> QED
    BY <2>1, <1>5 DEF IInv, ServicesAreServed, Served
<1> QED
  BY <1>4, <1>6, <1>7 DEF IInv

-----------------------------------------------------------------------------
LEMMA InitHolds == Init => IInv
  BY DEF Init, IInv, ServicesTypeOK, PassedAreServed, ServicesAreServed, Down, Still

LEMMA NextPreserves == IInv /\ [Next]_vars => IInv'
<1> SUFFICES ASSUME IInv, [Next]_vars PROVE IInv'
  OBVIOUS
<1>1. CASE UNCHANGED services
  BY <1>1, OthersKeepServices
<1>2. ASSUME NEW l \in Users, NEW kind \in Kinds, Begin(l, kind) PROVE IInv'
  BY <1>2, <1>1 DEF Begin
<1>3. ASSUME NEW l \in Launchers,
             ListImage(l) \/ RemoveImage(l) \/ SkipImage(l) \/ CleanupEnds(l) \/ Create(l) \/ LaunchFails(l)
      PROVE  IInv'
  BY <1>3, <1>1 DEF ListImage, RemoveImage, SkipImage, CleanupEnds, Create, LaunchFails, services
<1>4. ASSUME NEW c \in pending, Spawned(c) PROVE IInv'
  BY <1>4, <1>1 DEF Spawned
<1>5. ASSUME NEW s \in Scripts,
             \/ Start(s) \/ Probe(s) \/ SpawnService(s) \/ Up(s) \/ ImagesFail(s) \/ RoundEnded(s) \/ Stop(s) \/ Closed(s)
             \/ \E left \in 0..Attempts : Attempt(s, left)
      PROVE  IInv'
  BY <1>5, StartPreserves, ProbePreserves, SpawnServicePreserves, StagesPreserve, StopPreserves
<1>6. ASSUME NEW s \in Scripts, NEW p \in PortSet, Listen(s, p) PROVE IInv'
  BY <1>6, ListenPreserves
<1>7. CASE UNCHANGED vars
  BY <1>7, <1>1 DEF vars
<1> QED
  BY <1>2, <1>3, <1>4, <1>5, <1>6, <1>7 DEF Next

(* A script that is up has each of its services, its own or another's, unless *)
(* the script that had started it was stopped since (spawnService,            *)
(* stopCoreServices), however many scripts start and stop at the same time.   *)
THEOREM NoServiceIsLost == Spec => []ServicesAreServed
<1>1. IInv => ServicesAreServed
  BY DEF IInv
<1> QED
  BY InitHolds, NextPreserves, <1>1, PTL DEF Spec

-----------------------------------------------------------------------------
(* The rounds.                                                                *)

Images    == {"buyer", "seller", "verifier"}
Container == [image : Images, session : 1..MaxSessions]

CleaningStage == [at : {"cleaning"}, kind : Kinds, images : Seq(Images), ids : {None} \cup SUBSET Container]
EndedStage    == [at : {"ended"}, ok : BOOLEAN]

RoundsTypeOK ==
  /\ sessions \in 0..MaxSessions
  /\ pending \subseteq Container /\ containers \subseteq Container
  /\ excused \subseteq 1..MaxSessions
  /\ launch \in [Launchers -> {Idle} \cup CleaningStage \cup EndedStage]

(* An agent runs, or will.                                                    *)
Has(image, n) == [image |-> image, session |-> n] \in containers \cup pending

Agents == {"buyer", "seller"}

Regular == {n \in 1..sessions : n \notin excused}

Gone(image) == \A n \in Regular : ~Has(image, n)

IsLeft(images, image) == \E i \in DOMAIN images : images[i] = image

(* A cleanup has done away with the images behind it, and what it has listed  *)
(* of the image it is at is all there is.                                     *)
CleanupIsGood(stage) ==
  /\ \A image \in Agents : ~IsLeft(stage.images, image) => Gone(image)
  /\ stage.ids # None /\ stage.images # <<>> => \A n \in Regular :
       LET c == [image |-> Head(stage.images), session |-> n]
       IN c \notin pending /\ (c \in containers => c \in stage.ids)

CleanupsAreGood == \A l \in Launchers : launch[l].at = "cleaning" => CleanupIsGood(launch[l])

(* No earlier round has an agent; the last has both or none while no launch   *)
(* cleans up.                                                                 *)
LastIsWhole ==
  \A n \in Regular :
    /\ n # sessions => ~Has("buyer", n) /\ ~Has("seller", n)
    /\ UnderWay = {} => (Has("buyer", n) <=> Has("seller", n))

RInv == RoundsTypeOK /\ CleanupsAreGood /\ LastIsWhole

LEMMA SessionsBound == MaxSessions \in Nat
  BY SessionsAssumption DEF SessionsAssumption

(* A launch's list begins with both agents.                                   *)
LEMMA CleaningIsGood ==
  ASSUME NEW kind \in Kinds
  PROVE  /\ Cleaning(kind) \in CleaningStage
         /\ Cleaning(kind).ids = None /\ Cleaning(kind).at = "cleaning"
         /\ \A image \in Agents : IsLeft(Cleaning(kind).images, image)
<1>1. AgentImages(kind) \in Seq(Images)
  <2>1. <<"buyer", "seller", "verifier">> \in Seq(Images) /\ <<"buyer", "seller">> \in Seq(Images)
    BY DEF Images
  <2> QED
    BY <2>1 DEF AgentImages
<1>2. AgentImages(kind)[1] = "buyer" /\ AgentImages(kind)[2] = "seller" /\ 1 \in DOMAIN AgentImages(kind) /\ 2 \in DOMAIN AgentImages(kind)
  BY DEF AgentImages
<1> QED
  BY <1>1, <1>2 DEF Cleaning, CleaningStage, IsLeft, Agents

(* No session of a container is regular once all of theirs are excused.       *)
LEMMA ExcusedAreNotRegular ==
  ASSUME NEW cs, NEW n, NEW image, [image |-> image, session |-> n] \in cs
  PROVE  n \in SessionsOf(cs) /\ n \in SessionsOf(OfImage(image, cs))
  BY DEF SessionsOf, OfImage

LEMMA SessionsOfContainers ==
  ASSUME NEW cs, cs \subseteq Container, NEW image
  PROVE  /\ SessionsOf(cs) \subseteq 1..MaxSessions /\ SessionsOf(OfImage(image, cs)) \subseteq 1..MaxSessions
         /\ OfImage(image, cs) \subseteq Container
  BY DEF SessionsOf, OfImage, Container

(* A launch that begins to clean up, whatever it was at.                      *)
LEMMA CleaningPreserves ==
  ASSUME RInv, NEW l \in Launchers, NEW kind \in Kinds, LaunchTo(l, Cleaning(kind)), UNCHANGED coral
  PROVE  RInv'
<1>1. Cleaning(kind) \in CleaningStage /\ Cleaning(kind).ids = None /\ Cleaning(kind).at = "cleaning"
      /\ \A image \in Agents : IsLeft(Cleaning(kind).images, image)
  BY CleaningIsGood
<1>2. launch' = [launch EXCEPT ![l] = Cleaning(kind)] /\ launch \in [Launchers -> {Idle} \cup CleaningStage \cup EndedStage]
  BY DEF RInv, RoundsTypeOK, LaunchTo
<1>3. RoundsTypeOK'
  BY <1>1, <1>2 DEF RInv, RoundsTypeOK, coral
<1>4. launch'[l] = Cleaning(kind) /\ \A k \in Launchers : k # l => launch'[k] = launch[k]
  BY <1>2
<1>5. UNCHANGED <<Regular, sessions, containers, pending>> /\ \A image, n : Has(image, n) <=> Has(image, n)'
  BY DEF coral, Regular, Has
<1>6. CleanupsAreGood'
  <2> SUFFICES ASSUME NEW k \in Launchers, launch'[k].at = "cleaning" PROVE CleanupIsGood(launch[k])'
    BY DEF CleanupsAreGood
  <2>1. CASE k = l
    BY <2>1, <1>1, <1>4 DEF CleanupIsGood
  <2>2. CASE k # l
    BY <2>2, <1>4, <1>5 DEF RInv, CleanupsAreGood, CleanupIsGood, Gone
  <2> QED
    BY <2>1, <2>2
<1>7. LastIsWhole'
  <2>1. UnderWay' # {}
    BY <1>1, <1>4 DEF UnderWay
  <2> QED
    BY <2>1, <1>5 DEF RInv, LastIsWhole
<1> QED
  BY <1>3, <1>6, <1>7 DEF RInv

LEMMA OthersKeepRounds == RInv /\ UNCHANGED <<coral, launch>> => RInv'
<1> SUFFICES ASSUME RInv, UNCHANGED <<coral, launch>> PROVE RInv'
  OBVIOUS
<1>1. RoundsTypeOK'
  BY DEF RInv, RoundsTypeOK, coral
<1>2. UNCHANGED <<Regular, sessions, containers, pending, UnderWay>> /\ \A image, n : Has(image, n) <=> Has(image, n)'
  BY DEF coral, Regular, Has, UnderWay
<1>3. CleanupsAreGood' /\ LastIsWhole'
  BY <1>2 DEF RInv, CleanupsAreGood, CleanupIsGood, Gone, LastIsWhole
<1> QED
  BY <1>1, <1>3 DEF RInv

(* A launch that ends, or is made ready to be used again, leaves nothing half *)
(* removed.                                                                   *)
LEMMA EndPreserves ==
  ASSUME RInv, NEW l \in Launchers, NEW stage \in {Idle} \cup EndedStage, LaunchTo(l, stage), UNCHANGED coral,
         launch[l].at = "cleaning" => launch[l].images = <<>>
  PROVE  RInv'
<1>1. launch' = [launch EXCEPT ![l] = stage] /\ launch \in [Launchers -> {Idle} \cup CleaningStage \cup EndedStage]
  BY DEF RInv, RoundsTypeOK, LaunchTo
<1>2. launch'[l].at # "cleaning" /\ \A k \in Launchers : k # l => launch'[k] = launch[k]
  BY <1>1 DEF Idle, EndedStage
<1>3. RoundsTypeOK'
  BY <1>1 DEF RInv, RoundsTypeOK, coral
<1>4. UNCHANGED <<Regular, sessions, containers, pending>> /\ \A image, n : Has(image, n) <=> Has(image, n)'
  BY DEF coral, Regular, Has
<1>5. CleanupsAreGood'
  <2> SUFFICES ASSUME NEW k \in Launchers, launch'[k].at = "cleaning" PROVE CleanupIsGood(launch[k])'
    BY DEF CleanupsAreGood
  <2> QED
    BY <1>2, <1>4 DEF RInv, CleanupsAreGood, CleanupIsGood, Gone
<1>6. LastIsWhole'
  <2>1. CASE launch[l].at = "cleaning"
    <3>1. \A image \in Agents : Gone(image)
      BY <2>1 DEF RInv, CleanupsAreGood, CleanupIsGood, IsLeft
    <3> QED
      BY <3>1, <1>4 DEF Gone, LastIsWhole, Agents
  <2>2. CASE launch[l].at # "cleaning"
    <3>1. UnderWay' = UnderWay
      BY <1>2, <2>2 DEF UnderWay
    <3> QED
      BY <3>1, <1>4 DEF RInv, LastIsWhole
  <2> QED
    BY <2>1, <2>2
<1> QED
  BY <1>3, <1>5, <1>6 DEF RInv

(* A cleanup's step from one stage to another, with containers taken away or  *)
(* sessions excused.                                                          *)
LEMMA CleanupStepPreserves ==
  ASSUME RInv, NEW l \in Launchers, launch[l].at = "cleaning",
         NEW stage \in CleaningStage, LaunchTo(l, stage), CleanupIsGood(stage)',
         UNCHANGED <<sessions, pending>>, containers' \subseteq containers,
         excused \subseteq excused', excused' \subseteq 1..MaxSessions
  PROVE  RInv'
<1>1. launch' = [launch EXCEPT ![l] = stage] /\ launch \in [Launchers -> {Idle} \cup CleaningStage \cup EndedStage]
  BY DEF RInv, RoundsTypeOK, LaunchTo
<1>2. launch'[l] = stage /\ launch'[l].at = "cleaning" /\ \A k \in Launchers : k # l => launch'[k] = launch[k]
  BY <1>1 DEF CleaningStage
<1>3. RoundsTypeOK'
  BY <1>1 DEF RInv, RoundsTypeOK
<1>4. Regular' \subseteq Regular /\ \A image, n : Has(image, n)' => Has(image, n)
  BY DEF Regular, Has
<1>5. CleanupsAreGood'
  <2> SUFFICES ASSUME NEW k \in Launchers, launch'[k].at = "cleaning" PROVE CleanupIsGood(launch[k])'
    BY DEF CleanupsAreGood
  <2>1. CASE k = l
    BY <2>1, <1>2 DEF CleanupIsGood
  <2>2. CASE k # l
    BY <2>2, <1>2, <1>4 DEF RInv, CleanupsAreGood, CleanupIsGood, Gone
  <2> QED
    BY <2>1, <2>2
<1>6. LastIsWhole'
  <2>1. UnderWay' # {}
    BY <1>2 DEF UnderWay
  <2> QED
    BY <2>1, <1>4 DEF RInv, LastIsWhole
<1> QED
  BY <1>3, <1>5, <1>6 DEF RInv

(* What a launch at an image has in its hands.                                *)
LEMMA AtAnImage ==
  ASSUME RInv, NEW l \in Launchers, IsCleaning(l)
  PROVE  /\ launch[l] \in CleaningStage /\ launch[l].at = "cleaning" /\ CleanupIsGood(launch[l])
         /\ launch[l].images \in Seq(Images) /\ launch[l].images # <<>>
         /\ NextImage(l) \in Images /\ Tail(launch[l].images) \in Seq(Images)
         /\ \A image : IsLeft(launch[l].images, image) => image = NextImage(l) \/ IsLeft(Tail(launch[l].images), image)
         /\ [launch[l] EXCEPT !.images = Tail(@), !.ids = None] \in CleaningStage
<1>1. launch[l] \in CleaningStage /\ launch[l].at = "cleaning" /\ CleanupIsGood(launch[l]) /\ launch[l].images # <<>>
  BY DEF RInv, RoundsTypeOK, CleanupsAreGood, IsCleaning, Idle, EndedStage
<1>2. launch[l].images \in Seq(Images)
  BY <1>1 DEF CleaningStage
<1>3. /\ Head(launch[l].images) \in Images /\ Tail(launch[l].images) \in Seq(Images)
      /\ \A i \in DOMAIN launch[l].images :
           launch[l].images[i] = Head(launch[l].images) \/ IsLeft(Tail(launch[l].images), launch[l].images[i])
  BY <1>1, <1>2, BehindTheHead DEF IsLeft
<1> QED
  BY <1>1, <1>2, <1>3 DEF NextImage, IsLeft, CleaningStage

LEMMA ListImagePreserves == ASSUME RInv, NEW l \in Launchers, ListImage(l) PROVE RInv'
<1>1. launch[l] \in CleaningStage /\ launch[l].at = "cleaning" /\ CleanupIsGood(launch[l])
  BY AtAnImage DEF ListImage
<1>2. containers \subseteq Container /\ pending \subseteq Container /\ excused \subseteq 1..MaxSessions
  BY DEF RInv, RoundsTypeOK
<1>3. PICK images : images = launch[l].images
  OBVIOUS
<1>4. PICK ids : ids = OfImage(Head(images), containers)
  OBVIOUS
<1>5. PICK stage \in CleaningStage : stage = [launch[l] EXCEPT !.ids = ids]
  BY <1>1, <1>2, <1>4, SessionsOfContainers DEF CleaningStage
<1>6. stage.images = images /\ stage.ids = ids
  BY <1>1, <1>3, <1>5 DEF CleaningStage
<1>7. /\ LaunchTo(l, stage) /\ UNCHANGED <<sessions, pending, containers>>
      /\ excused' = excused \cup SessionsOf(OfImage(Head(images), pending))
  BY <1>3, <1>4, <1>5 DEF ListImage, NextImage
<1>8. excused' \subseteq 1..MaxSessions /\ Regular' \subseteq Regular
  BY <1>2, <1>7, SessionsOfContainers DEF Regular
<1>9. CleanupIsGood(stage)'
  <2>1. ASSUME NEW image \in Agents, ~IsLeft(images, image) PROVE Gone(image)'
    BY <1>1, <1>3, <1>7, <1>8, <2>1 DEF CleanupIsGood, Gone, Has
  <2>2. ASSUME NEW n \in Regular'
        PROVE  LET c == [image |-> Head(images), session |-> n]
               IN c \notin pending' /\ (c \in containers' => c \in ids)
    BY <1>4, <1>7, <2>2, ExcusedAreNotRegular DEF Regular, OfImage
  <2> QED
    BY <1>6, <2>1, <2>2 DEF CleanupIsGood
<1> QED
  BY <1>1, <1>7, <1>8, <1>9, CleanupStepPreserves

(* A cleanup goes on to its next image.                                       *)
LEMMA NextImagePreserves ==
  ASSUME RInv, NEW l \in Launchers, IsCleaning(l),
         LaunchTo(l, [launch[l] EXCEPT !.images = Tail(@), !.ids = None]),
         UNCHANGED <<sessions, pending>>, containers' \subseteq containers,
         excused \subseteq excused', excused' \subseteq 1..MaxSessions,
         NEW done, done = NextImage(l), Gone(done)'
  PROVE  RInv'
<1>1. PICK stage \in CleaningStage : stage = [launch[l] EXCEPT !.images = Tail(@), !.ids = None]
  BY AtAnImage
<1>2. PICK images : images = launch[l].images
  OBVIOUS
<1>3. stage.images = Tail(images) /\ stage.ids = None
  BY <1>1, <1>2, AtAnImage DEF CleaningStage
<1>4. \A image : IsLeft(images, image) => image = done \/ IsLeft(Tail(images), image)
  BY <1>2, AtAnImage
<1>5. Regular' \subseteq Regular /\ \A image, n : Has(image, n)' => Has(image, n)
  BY DEF Regular, Has
<1>6. CleanupIsGood(stage)'
  <2> SUFFICES ASSUME NEW image \in Agents, ~IsLeft(stage.images, image) PROVE Gone(image)'
    BY <1>3 DEF CleanupIsGood
  <2>1. image = done \/ ~IsLeft(images, image)
    BY <1>3, <1>4
  <2>2. ~IsLeft(images, image) => Gone(image)
    BY <1>2, AtAnImage DEF CleanupIsGood
  <2> QED
    BY <2>1, <2>2, <1>5 DEF Gone
<1>7. launch[l].at = "cleaning" /\ LaunchTo(l, stage)
  BY <1>1, AtAnImage
<1> QED
  BY <1>6, <1>7, CleanupStepPreserves

(* Of the sessions that were there and are regular, all containers of the     *)
(* image were listed, and are removed.                                        *)
LEMMA RemoveImagePreserves == ASSUME RInv, NEW l \in Launchers, RemoveImage(l) PROVE RInv'
<1>1. PICK done : done = NextImage(l)
  OBVIOUS
<1>2. /\ IsCleaning(l) /\ launch[l].ids # None /\ containers' = containers \ launch[l].ids
      /\ LaunchTo(l, [launch[l] EXCEPT !.images = Tail(@), !.ids = None])
      /\ UNCHANGED <<sessions, pending, excused>>
  BY DEF RemoveImage, Without
<1>3. \A n \in Regular : LET c == [image |-> done, session |-> n] IN c \notin pending /\ (c \in containers => c \in launch[l].ids)
  BY <1>1, <1>2, AtAnImage DEF CleanupIsGood, NextImage
<1>4. Gone(done)'
  BY <1>2, <1>3 DEF Gone, Has, Regular
<1>5. excused' \subseteq 1..MaxSessions /\ containers' \subseteq containers
  BY <1>2 DEF RInv, RoundsTypeOK
<1> QED
  BY <1>1, <1>2, <1>4, <1>5, NextImagePreserves

LEMMA SkipImagePreserves == ASSUME RInv, NEW l \in Launchers, SkipImage(l) PROVE RInv'
<1>1. PICK done : done = NextImage(l)
  OBVIOUS
<1>2. /\ IsCleaning(l) /\ UNCHANGED <<sessions, pending, containers>>
      /\ LaunchTo(l, [launch[l] EXCEPT !.images = Tail(@), !.ids = None])
      /\ excused' = excused \cup SessionsOf(OfImage(done, containers \cup pending))
  BY <1>1 DEF SkipImage
<1>3. Gone(done)'
  BY <1>2, ExcusedAreNotRegular DEF Gone, Has, Regular
<1>4. excused' \subseteq 1..MaxSessions
  BY <1>2, SessionsOfContainers DEF RInv, RoundsTypeOK
<1> QED
  BY <1>1, <1>2, <1>3, <1>4, NextImagePreserves

(* A session is created when nothing is left of the regular ones before it;   *)
(* it is excused if another launch is under way.                              *)
LEMMA CreatePreserves == ASSUME RInv, NEW l \in Launchers, Create(l) PROVE RInv'
<1>1. /\ launch[l] \in CleaningStage /\ launch[l].at = "cleaning" /\ launch[l].images = <<>> /\ launch[l].kind \in Kinds
      /\ CleanupIsGood(launch[l])
  BY DEF Create, Cleaned, RInv, RoundsTypeOK, CleanupsAreGood, Idle, EndedStage, CleaningStage
<1>2. PICK ok \in BOOLEAN : LaunchTo(l, Ended(ok))
  BY DEF Create
<1>3. launch' = [launch EXCEPT ![l] = Ended(ok)] /\ launch \in [Launchers -> {Idle} \cup CleaningStage \cup EndedStage]
  BY <1>2 DEF RInv, RoundsTypeOK, LaunchTo
<1>4. Ended(ok) \in EndedStage /\ launch'[l].at # "cleaning" /\ \A k \in Launchers : k # l => launch'[k] = launch[k]
  BY <1>3 DEF Ended, EndedStage
<1>5. PICK agents : agents = InDocker(launch[l].kind)
  OBVIOUS
<1>6. agents \subseteq Images /\ "buyer" \in agents /\ "seller" \in agents
  BY <1>1, <1>5 DEF InDocker, AgentsOf, TxOddsAgents, PatchBondAgents, Images, Kinds
<1>7. /\ sessions \in 0..MaxSessions /\ sessions < MaxSessions /\ sessions' = sessions + 1 /\ containers' = containers
      /\ pending' = pending \cup {[image |-> image, session |-> sessions + 1] : image \in agents}
      /\ excused' = excused \cup (IF UnderWay # {l} THEN {sessions + 1} ELSE {})
  BY <1>5 DEF Create, RInv, RoundsTypeOK
<1>8. RoundsTypeOK'
  <2>1. sessions + 1 \in 1..MaxSessions /\ sessions' \in 0..MaxSessions
    BY <1>7, SessionsBound
  <2>2. pending' \subseteq Container /\ containers' \subseteq Container /\ excused' \subseteq 1..MaxSessions
    BY <1>6, <1>7, <2>1 DEF RInv, RoundsTypeOK, Container
  <2>3. launch' \in [Launchers -> {Idle} \cup CleaningStage \cup EndedStage]
    BY <1>3, <1>4
  <2> QED
    BY <2>1, <2>2, <2>3 DEF RoundsTypeOK
<1>9. \A n \in Regular' : n # sessions + 1 => n \in Regular
  BY <1>7, SessionsBound DEF Regular
<1>10. \A image, n : n # sessions + 1 /\ Has(image, n)' => Has(image, n)
  BY <1>7 DEF Has
<1>11. \A n \in Regular : ~Has("buyer", n) /\ ~Has("seller", n)
  BY <1>1 DEF CleanupIsGood, Gone, IsLeft, Agents
<1>12. CleanupsAreGood'
  <2> SUFFICES ASSUME NEW k \in Launchers, launch'[k].at = "cleaning" PROVE CleanupIsGood(launch[k])'
    BY DEF CleanupsAreGood
  <2>1. k # l /\ launch'[k] = launch[k] /\ CleanupIsGood(launch[k])
    BY <1>4 DEF RInv, CleanupsAreGood
  <2>2. sessions + 1 \notin Regular' /\ Regular' \subseteq Regular
    <3>1. k \in UnderWay
      BY <2>1 DEF UnderWay
    <3> QED
      BY <3>1, <2>1, <1>7, <1>9 DEF Regular
  <2>3. \A n \in Regular' : n # sessions + 1 /\ n \in Regular
    BY <2>2
  <2>4. ASSUME NEW image \in Agents, ~IsLeft(launch[k].images, image) PROVE Gone(image)'
    BY <2>1, <2>3, <2>4, <1>10 DEF CleanupIsGood, Gone
  <2>5. ASSUME NEW n \in Regular', NEW image PROVE [image |-> image, session |-> n] \in pending' => [image |-> image, session |-> n] \in pending
    BY <2>3, <1>7
  <2> QED
    BY <2>1, <2>3, <2>4, <2>5, <1>7 DEF CleanupIsGood
<1>13. LastIsWhole'
  <2>1. \A n : n = sessions + 1 => Has("buyer", n)' /\ Has("seller", n)'
    BY <1>6, <1>7 DEF Has
  <2> SUFFICES ASSUME NEW n \in Regular'
               PROVE  /\ n # sessions' => ~Has("buyer", n)' /\ ~Has("seller", n)'
                      /\ Has("buyer", n)' <=> Has("seller", n)'
    BY DEF LastIsWhole
  <2>2. CASE n = sessions + 1
    BY <2>1, <2>2, <1>7
  <2>3. CASE n # sessions + 1
    BY <2>3, <1>9, <1>10, <1>11
  <2> QED
    BY <2>2, <2>3
<1> QED
  BY <1>8, <1>12, <1>13 DEF RInv

LEMMA SpawnedPreserves == ASSUME RInv, NEW c \in pending, Spawned(c) PROVE RInv'
<1>1. /\ pending' = pending \ {c} /\ containers' = containers \cup {c} /\ UNCHANGED <<sessions, excused, launch>>
      /\ pending \subseteq Container /\ containers \subseteq Container
  BY DEF Spawned, RInv, RoundsTypeOK
<1>2. RoundsTypeOK'
  BY <1>1 DEF RInv, RoundsTypeOK
<1>3. UNCHANGED <<Regular, UnderWay, sessions>> /\ \A image, n : Has(image, n) <=> Has(image, n)'
  BY <1>1 DEF Regular, UnderWay, Has
<1>4. CleanupsAreGood'
  <2> SUFFICES ASSUME NEW k \in Launchers, launch[k].at = "cleaning" PROVE CleanupIsGood(launch[k])'
    BY <1>1 DEF CleanupsAreGood
  <2>1. CleanupIsGood(launch[k])
    BY DEF RInv, CleanupsAreGood
  <2> QED
    BY <2>1, <1>1, <1>3 DEF CleanupIsGood, Gone
<1>5. LastIsWhole'
  BY <1>3 DEF RInv, LastIsWhole
<1> QED
  BY <1>2, <1>4, <1>5 DEF RInv

(* When the proxy dies with launches under way, every session is excused.     *)
LEMMA StopKeepsRounds == ASSUME RInv, NEW s \in Scripts, Stop(s) PROVE RInv'
<1>1. /\ launch' = LaunchesAfter(s) /\ UNCHANGED <<sessions, pending, containers>>
      /\ excused' = excused \cup (IF Orphaned(s) = {} THEN {} ELSE SessionsOf(containers \cup pending))
  BY DEF Stop
<1>2. /\ launch \in [Launchers -> {Idle} \cup CleaningStage \cup EndedStage]
      /\ containers \cup pending \subseteq Container /\ excused \subseteq 1..MaxSessions
  BY DEF RInv, RoundsTypeOK
<1>3. PICK begun \in CleaningStage : begun = Cleaning("cleanup")
  BY CleaningIsGood DEF Kinds
<1>4. /\ begun.at = "cleaning" /\ begun.ids = None
      /\ \A image \in Agents : IsLeft(begun.images, image)
  BY <1>3, CleaningIsGood DEF Kinds
<1>5. \A l \in Launchers : launch'[l] = IF l \in Orphaned(s) THEN Ended(FALSE)
                                        ELSE IF l = s /\ s \in Agentic THEN begun ELSE launch[l]
  BY <1>1, <1>3 DEF LaunchesAfter
<1>6. RoundsTypeOK'
  <2>1. launch' \in [Launchers -> {Idle} \cup CleaningStage \cup EndedStage]
    BY <1>1, <1>2, <1>3 DEF LaunchesAfter, Ended, EndedStage
  <2>2. excused' \subseteq 1..MaxSessions
    BY <1>1, <1>2, SessionsOfContainers
  <2> QED
    BY <2>1, <2>2, <1>1 DEF RInv, RoundsTypeOK
<1>7. CASE Orphaned(s) = {}
  <2>1. UNCHANGED <<Regular, sessions, containers, pending>> /\ \A image, n : Has(image, n) <=> Has(image, n)'
    BY <1>1, <1>7 DEF Regular, Has
  <2>2. CleanupsAreGood'
    <3> SUFFICES ASSUME NEW k \in Launchers, launch'[k].at = "cleaning" PROVE CleanupIsGood(launch[k])'
      BY DEF CleanupsAreGood
    <3>1. CASE launch'[k] = begun
      BY <3>1, <1>4 DEF CleanupIsGood
    <3>2. CASE launch'[k] = launch[k]
      BY <3>2, <2>1 DEF RInv, CleanupsAreGood, CleanupIsGood, Gone
    <3> QED
      BY <3>1, <3>2, <1>5, <1>7
  <2>3. UnderWay' = {} => UnderWay = {}
    BY <1>4, <1>5, <1>7 DEF UnderWay
  <2>4. LastIsWhole'
    BY <2>1, <2>3 DEF RInv, LastIsWhole
  <2> QED
    BY <1>6, <2>2, <2>4 DEF RInv
<1>8. CASE Orphaned(s) # {}
  <2>1. excused' = excused \cup SessionsOf(containers \cup pending)
    BY <1>1, <1>8
  <2>2. \A n \in Regular' : \A image : [image |-> image, session |-> n] \notin containers \cup pending
    BY <2>1, ExcusedAreNotRegular DEF Regular
  <2>3. \A image : Gone(image)'
    BY <2>2, <1>1 DEF Gone, Has
  <2>4. CleanupsAreGood'
    BY <2>2, <2>3, <1>1 DEF CleanupsAreGood, CleanupIsGood
  <2>5. LastIsWhole'
    BY <2>3 DEF LastIsWhole, Gone
  <2> QED
    BY <1>6, <2>4, <2>5 DEF RInv
<1> QED
  BY <1>7, <1>8

LEMMA RoundsInit == Init => RInv
<1> SUFFICES ASSUME Init PROVE RInv
  OBVIOUS
<1>1. RoundsTypeOK
  BY SessionsBound DEF Init, RoundsTypeOK
<1>2. CleanupsAreGood
  BY DEF Init, CleanupsAreGood, Idle
<1>3. LastIsWhole
  BY DEF Init, LastIsWhole, Regular
<1> QED
  BY <1>1, <1>2, <1>3 DEF RInv

LEMMA RoundsNext == RInv /\ [Next]_vars => RInv'
<1> SUFFICES ASSUME RInv, [Next]_vars PROVE RInv'
  OBVIOUS
<1>1. Users \subseteq Launchers /\ Scripts \subseteq Launchers
  BY DEF Launchers
<1>2. CASE UNCHANGED <<coral, launch>>
  BY <1>2, OthersKeepRounds
<1>3. ASSUME NEW l \in Users, NEW kind \in Kinds, Begin(l, kind) PROVE RInv'
  BY <1>1, <1>3, CleaningPreserves DEF Begin
<1>4. ASSUME NEW l \in Launchers, CleanupEnds(l) \/ LaunchFails(l) PROVE RInv'
  <2>1. PICK ok \in BOOLEAN : LaunchTo(l, Ended(ok)) /\ UNCHANGED coral /\ launch[l].images = <<>>
    BY <1>4 DEF CleanupEnds, LaunchFails, Cleaned
  <2>2. Ended(ok) \in EndedStage
    BY DEF Ended, EndedStage
  <2> QED
    BY <2>1, <2>2, EndPreserves
<1>5. ASSUME NEW s \in Scripts, RoundEnded(s) \/ Closed(s) PROVE RInv'
  BY <1>1, <1>5, EndPreserves DEF RoundEnded, Closed
<1>6. ASSUME NEW s \in Scripts, NEW left \in 0..Attempts, Attempt(s, left) PROVE RInv'
  BY <1>1, <1>6, CleaningPreserves DEF Attempt, Kinds
<1>7. ASSUME NEW s \in Scripts, Start(s) \/ Probe(s) \/ SpawnService(s) \/ Up(s) \/ ImagesFail(s) PROVE RInv'
  BY <1>7, <1>2 DEF Start, Probe, SpawnService, Up, ImagesFail
<1>8. ASSUME NEW s \in Scripts, NEW p \in PortSet, Listen(s, p) PROVE RInv'
  BY <1>8, <1>2 DEF Listen
<1>9. CASE UNCHANGED vars
  BY <1>9, <1>2 DEF vars
<1> QED
  BY <1>3, <1>4, <1>5, <1>6, <1>7, <1>8, <1>9, ListImagePreserves, RemoveImagePreserves, SkipImagePreserves,
     CreatePreserves, SpawnedPreserves, StopKeepsRounds DEF Next

LEMMA TypesAreRight == IInv /\ RInv => TypeOK
  BY DEF IInv, RInv, ServicesTypeOK, RoundsTypeOK, TypeOK, Container, Images, Idle, CleaningStage, EndedStage,
         AtPorts, AtRound, Still

LEMMA RestIsSound == RInv => OldRoundsAreStopped /\ (AtRest => \A n \in 1..sessions : n \in excused \/ (Runs("buyer", n) <=> Runs("seller", n)))
<1> SUFFICES ASSUME RInv, AtRest, NEW n \in 1..sessions, n \notin excused
             PROVE  /\ Runs("buyer", n) \/ Runs("seller", n) => n = sessions
                    /\ Runs("buyer", n) <=> Runs("seller", n)
  BY DEF OldRoundsAreStopped
<1>1. n \in Regular
  BY DEF Regular
<1>2. \A image : Runs(image, n) <=> Has(image, n)
  BY DEF AtRest, Runs, Has
<1> QED
  BY <1>1, <1>2 DEF AtRest, RInv, LastIsWhole

(* No round is left with just its buyer or just its sellers (stopPreviousRound, *)
(* stopAgentContainers), but for the excused ones, and all variables keep      *)
(* their types, however many launches and scripts there are.                   *)
THEOREM RoundsStayWhole == Spec => []RoundsAreWhole
<1>1. IInv /\ RInv => RoundsAreWhole
  BY TypesAreRight, RestIsSound DEF RoundsAreWhole
<1> QED
  BY InitHolds, NextPreserves, RoundsInit, RoundsNext, <1>1, PTL DEF Spec

(* A launch leaves no agent of an earlier round, but for the excused ones.    *)
THEOREM EarlierRoundsAreStopped == Spec => []OldRoundsAreStopped
<1>1. RInv => OldRoundsAreStopped
  BY RestIsSound
<1> QED
  BY RoundsInit, RoundsNext, <1>1, PTL DEF Spec

-----------------------------------------------------------------------------
(* The client of CoralOS.                                                     *)

(* Sequences, and what the code filters of them.                              *)

Ascending(s) == \A a, b \in DOMAIN s : a < b => s[a] < s[b]

LEMMA LeastNumber ==
  ASSUME NEW T, T \subseteq Nat, T # {}
  PROVE  \E n \in T : \A m \in T : n =< m
<1>1. IsWellFoundedOn(OpToRel(<, Nat), Nat)
  BY NatLessThanWellFounded
<1>2. PICK n \in T : \A m \in T : <<m, n>> \notin OpToRel(<, Nat)
  BY <1>1, WFMin
<1>3. ASSUME NEW m \in T PROVE n =< m
  <2>1. SUFFICES ASSUME m < n PROVE FALSE
    BY <1>3
  <2>2. <<m, n>> \in Nat \X Nat
    BY <1>3
  <2>3. <<m, n>> \in OpToRel(<, Nat)
    BY <2>1, <2>2, Zenon DEF OpToRel
  <2> QED
    BY <1>2, <2>3
<1> QED
  BY <1>3

(* f holds what is left of the first n messages.                              *)
IsFiltering(f, n, s, those) ==
  f = [i \in 0..n |-> IF i = 0 THEN <<>>
                      ELSE IF s[i] \in those THEN Append(f[i - 1], s[i]) ELSE f[i - 1]]

LEMMA FiltersExist ==
  ASSUME NEW s, NEW those, NEW n \in Nat
  PROVE  \E f : IsFiltering(f, n, s, those)
<1> DEFINE T == {k \in Nat : ~ \E f : IsFiltering(f, k, s, those)}
<1> SUFFICES ASSUME T # {} PROVE FALSE
  OBVIOUS
<1>1. PICK k \in T : \A m \in T : k =< m
  <2>1. T \subseteq Nat
    OBVIOUS
  <2> HIDE DEF T
  <2> QED
    BY <2>1, LeastNumber
<1>2. k # 0
  <2> SUFFICES ASSUME k = 0 PROVE FALSE
    OBVIOUS
  <2> DEFINE f == [i \in 0..0 |-> <<>>]
  <2>1. IsFiltering(f, 0, s, those)
    BY DEF IsFiltering
  <2> QED
    BY <1>1, <2>1
<1>3. k - 1 \in Nat /\ k - 1 \notin T
  BY <1>1, <1>2
<1>4. PICK f : IsFiltering(f, k - 1, s, those)
  BY <1>3
<1> DEFINE g == [i \in 0..k |-> IF i < k THEN f[i]
                                ELSE IF s[k] \in those THEN Append(f[k - 1], s[k]) ELSE f[k - 1]]
<1>5. ASSUME NEW i \in 0..k
      PROVE  g[i] = IF i = 0 THEN <<>> ELSE IF s[i] \in those THEN Append(g[i - 1], s[i]) ELSE g[i - 1]
  <2>1. CASE i = k
    <3>1. g[i] = IF s[k] \in those THEN Append(f[k - 1], s[k]) ELSE f[k - 1]
      BY <2>1
    <3>2. g[i - 1] = f[k - 1]
      BY <1>3, <2>1
    <3> QED
      BY <1>2, <2>1, <3>1, <3>2
  <2>2. CASE i # k
    <3>1. i \in 0..(k - 1) /\ g[i] = f[i]
      BY <2>2
    <3>2. i # 0 => g[i - 1] = f[i - 1]
      BY <2>2
    <3>3. f[i] = IF i = 0 THEN <<>> ELSE IF s[i] \in those THEN Append(f[i - 1], s[i]) ELSE f[i - 1]
      BY <1>4, <3>1 DEF IsFiltering
    <3> QED
      BY <3>1, <3>2, <3>3
  <2> QED
    BY <2>1, <2>2
<1>6. IsFiltering(g, k, s, those)
  BY <1>5 DEF IsFiltering
<1> QED
  BY <1>1, <1>6

LEMMA OnlyIsFiltered ==
  ASSUME NEW S, NEW s \in Seq(S), NEW those
  PROVE  \E f : IsFiltering(f, Len(s), s, those) /\ Only(s, those) = f[Len(s)]
<1> DEFINE f == CHOOSE f : IsFiltering(f, Len(s), s, those)
<1>1. Len(s) \in Nat
  BY LenProperties
<1>2. IsFiltering(f, Len(s), s, those)
  BY <1>1, FiltersExist
<1>3. Only(s, those) = f[Len(s)]
  BY DEF Only, IsFiltering
<1> QED
  BY <1>2, <1>3

LEMMA AppendLemma ==
  ASSUME NEW S, NEW s \in Seq(S), NEW x \in S
  PROVE  /\ Append(s, x) \in Seq(S) /\ ToSet(Append(s, x)) = ToSet(s) \cup {x}
         /\ S \subseteq Nat /\ Ascending(s) /\ (\A y \in ToSet(s) : y < x) => Ascending(Append(s, x))
<1>1. Len(s) \in Nat /\ DOMAIN s = 1..Len(s) /\ \A i \in 1..Len(s) : s[i] \in S
  BY LenProperties, ElementOfSeq
<1>2. /\ Append(s, x) \in Seq(S) /\ DOMAIN Append(s, x) = 1..(Len(s) + 1)
      /\ Append(s, x)[Len(s) + 1] = x /\ \A i \in 1..Len(s) : Append(s, x)[i] = s[i]
  BY <1>1, AppendProperties, LenProperties
<1>3. ToSet(Append(s, x)) = ToSet(s) \cup {x}
  BY <1>1, <1>2 DEF ToSet
<1>4. ASSUME S \subseteq Nat, Ascending(s), \A y \in ToSet(s) : y < x PROVE Ascending(Append(s, x))
  BY <1>1, <1>2, <1>4 DEF Ascending, ToSet
<1> QED
  BY <1>2, <1>3, <1>4

LEMMA FilterLemma ==
  ASSUME NEW S, NEW s \in Seq(S), NEW those
  PROVE  /\ Only(s, those) \in Seq(S)
         /\ ToSet(Only(s, those)) = ToSet(s) \cap those
         /\ S \subseteq Nat /\ Ascending(s) => Ascending(Only(s, those))
<1> DEFINE upTo(i) == {s[j] : j \in 1..i} \cap those
           sound(f, i) == /\ f[i] \in Seq(S)
                          /\ ToSet(f[i]) = upTo(i)
                          /\ S \subseteq Nat /\ Ascending(s) => Ascending(f[i])
<1>1. PICK f : IsFiltering(f, Len(s), s, those) /\ Only(s, those) = f[Len(s)]
  BY OnlyIsFiltered
<1>2. Len(s) \in Nat /\ DOMAIN s = 1..Len(s) /\ \A i \in 1..Len(s) : s[i] \in S
  BY LenProperties, ElementOfSeq
<1> DEFINE T == {i \in 0..Len(s) : ~sound(f, i)}
<1>3. T = {}
  <2> SUFFICES ASSUME T # {} PROVE FALSE
    OBVIOUS
  <2>1. PICK k \in T : \A m \in T : k =< m
    <3>1. T \subseteq Nat
      OBVIOUS
    <3> HIDE DEF T
    <3> QED
      BY <3>1, LeastNumber
  <2>2. k # 0
    <3> SUFFICES ASSUME k = 0 PROVE FALSE
      OBVIOUS
    <3>1. f[0] = <<>>
      BY <1>1, <1>2 DEF IsFiltering
    <3>2. sound(f, 0)
      BY <3>1 DEF ToSet, Ascending
    <3> QED
      BY <2>1, <3>2
  <2>3. k \in 1..Len(s) /\ k - 1 \in 0..Len(s) /\ k - 1 \notin T
    <3>1. k \in 0..Len(s) /\ \A m \in T : k =< m
      BY <2>1
    <3> HIDE DEF T
    <3> QED
      BY <1>2, <2>2, <3>1
  <2>4. sound(f, k - 1)
    BY <2>3
  <2>5. f[k] = IF s[k] \in those THEN Append(f[k - 1], s[k]) ELSE f[k - 1]
    <3>1. \A i \in 0..Len(s) : f[i] = IF i = 0 THEN <<>> ELSE IF s[i] \in those THEN Append(f[i - 1], s[i]) ELSE f[i - 1]
      BY <1>1, Zenon DEF IsFiltering
    <3>2. k \in 0..Len(s) /\ k # 0
      BY <1>2, <2>3
    <3> QED
      BY <3>1, <3>2, Zenon
  <2>6. PICK x \in S : x = s[k]
    BY <1>2, <2>3
  <2>7. PICK t \in Seq(S) : t = f[k - 1]
    BY <2>4
  <2>8. {s[j] : j \in 1..k} = {s[j] : j \in 1..(k - 1)} \cup {x}
    <3>1. k \in Nat /\ k > 0 /\ x = s[k]
      BY <1>2, <2>3, <2>6
    <3>2. 1..k = 1..(k - 1) \cup {k}
      BY <3>1
    <3> QED
      BY <3>1, <3>2, Zenon
  <2>9. CASE x \in those
    <3>1. f[k] = Append(t, x)
      BY <2>5, <2>6, <2>7, <2>9
    <3>2. Append(t, x) \in Seq(S) /\ ToSet(Append(t, x)) = ToSet(t) \cup {x}
      BY AppendLemma
    <3>3. ToSet(f[k]) = upTo(k)
      BY <2>4, <2>7, <2>8, <2>9, <3>1, <3>2
    <3>4. ASSUME S \subseteq Nat, Ascending(s) PROVE Ascending(f[k])
      <4>1. \A y \in ToSet(t) : y < x
        <5> SUFFICES ASSUME NEW y \in ToSet(t) PROVE y < x
          OBVIOUS
        <5>1. PICK j \in 1..(k - 1) : y = s[j]
          BY <2>4, <2>7
        <5>2. j \in DOMAIN s /\ k \in DOMAIN s /\ j < k
          BY <1>2, <2>3, <5>1
        <5> QED
          BY <2>6, <3>4, <5>1, <5>2, Zenon DEF Ascending
      <4>2. Ascending(t)
        BY <2>4, <2>7, <3>4
      <4>3. Ascending(Append(t, x))
        BY <3>4, <4>1, <4>2, AppendLemma
      <4> QED
        BY <3>1, <4>3
    <3> QED
      BY <2>1, <3>1, <3>2, <3>3, <3>4
  <2>10. CASE x \notin those
    <3>1. f[k] = t
      BY <2>5, <2>6, <2>7, <2>10
    <3>2. upTo(k) = upTo(k - 1)
      BY <2>8, <2>10
    <3> QED
      BY <2>1, <2>4, <2>7, <3>1, <3>2
  <2> QED
    BY <2>9, <2>10
<1>4. sound(f, Len(s))
  <2>1. Len(s) \in 0..Len(s)
    BY <1>2
  <2> QED
    BY <1>3, <2>1, Zenon
<1>5. ToSet(s) = {s[j] : j \in 1..Len(s)}
  BY <1>2 DEF ToSet
<1> QED
  BY <1>1, <1>4, <1>5

LEMMA OnlyLemma ==
  ASSUME NEW s \in Seq(Nat), NEW those
  PROVE  /\ Only(s, those) \in Seq(Nat)
         /\ ToSet(Only(s, those)) = ToSet(s) \cap those
         /\ Ascending(s) => Ascending(Only(s, those))
  BY FilterLemma

LEMMA PrefixLemma ==
  ASSUME NEW s \in Seq(Nat), NEW n \in 1..Len(s), Ascending(s)
  PROVE  /\ SubSeq(s, 1, n) \in Seq(Nat) /\ SubSeq(s, 1, n) # <<>> /\ Ascending(SubSeq(s, 1, n))
         /\ ToSet(SubSeq(s, 1, n)) \subseteq ToSet(s)
         /\ \A i \in ToSet(SubSeq(s, 1, n)), j \in ToSet(s) \ ToSet(SubSeq(s, 1, n)) : i < j
<1>1. Len(s) \in Nat /\ DOMAIN s = 1..Len(s) /\ \A i \in 1..Len(s) : s[i] \in Nat
  BY LenProperties, ElementOfSeq
<1> DEFINE t == SubSeq(s, 1, n)
<1>2. t \in Seq(Nat) /\ Len(t) = n /\ \A i \in 1..n : t[i] = s[i]
  BY <1>1, SubSeqProperties
<1>3. DOMAIN t = 1..n
  BY <1>2, LenProperties
<1> HIDE DEF t
<1>4. t # <<>>
  BY <1>2, EmptySeq
<1>5. Ascending(t) /\ ToSet(t) \subseteq ToSet(s)
  <2>1. \A i \in 1..n : i \in 1..Len(s)
    BY <1>1
  <2>2. Ascending(t)
    BY <1>1, <1>2, <1>3, <2>1 DEF Ascending
  <2>3. ToSet(t) \subseteq ToSet(s)
    BY <1>1, <1>2, <1>3, <2>1 DEF ToSet
  <2> QED
    BY <2>2, <2>3
<1>6. ASSUME NEW i \in ToSet(t), NEW j \in ToSet(s) \ ToSet(t) PROVE i < j
  <2>1. PICK a \in 1..n : i = s[a]
    BY <1>2, <1>3 DEF ToSet
  <2>2. PICK b \in 1..Len(s) : j = s[b]
    BY <1>1 DEF ToSet
  <2>3. b > n
    BY <1>1, <1>2, <1>3, <1>6, <2>2 DEF ToSet
  <2>4. a \in DOMAIN s /\ b \in DOMAIN s /\ a < b
    BY <1>1, <2>1, <2>2, <2>3
  <2> QED
    BY <2>1, <2>2, <2>4, Zenon DEF Ascending
<1> QED
  BY <1>2, <1>4, <1>5, <1>6 DEF t

LEMMA HeadLemma ==
  ASSUME NEW s \in Seq(Nat), s # <<>>
  PROVE  /\ Head(s) \in Nat /\ Tail(s) \in Seq(Nat) /\ ToSet(s) = {Head(s)} \cup ToSet(Tail(s))
         /\ Ascending(s) => Ascending(Tail(s)) /\ \A j \in ToSet(Tail(s)) : Head(s) < j
<1>1. Len(s) \in Nat \ {0} /\ DOMAIN s = 1..Len(s) /\ \A i \in 1..Len(s) : s[i] \in Nat
  BY LenProperties, ElementOfSeq, EmptySeq
<1>2. /\ Head(s) = s[1] /\ Tail(s) \in Seq(Nat) /\ Len(Tail(s)) = Len(s) - 1
      /\ \A i \in 1..Len(Tail(s)) : Tail(s)[i] = s[i + 1]
  BY HeadTailProperties
<1>3. DOMAIN Tail(s) = 1..(Len(s) - 1)
  BY <1>2, LenProperties
<1>4. ToSet(s) = {Head(s)} \cup ToSet(Tail(s))
  <2>1. ASSUME NEW i \in 1..Len(s) PROVE s[i] \in {Head(s)} \cup ToSet(Tail(s))
    <3>1. CASE i = 1
      BY <1>2, <3>1
    <3>2. CASE i # 1
      <4>1. i - 1 \in 1..(Len(s) - 1) /\ Tail(s)[i - 1] = s[i]
        BY <1>1, <1>2, <3>2
      <4> QED
        BY <1>3, <4>1 DEF ToSet
    <3> QED
      BY <3>1, <3>2
  <2>2. Head(s) \in ToSet(s) /\ ToSet(Tail(s)) \subseteq ToSet(s)
    BY <1>1, <1>2, <1>3 DEF ToSet
  <2> QED
    BY <1>1, <2>1, <2>2 DEF ToSet
<1>5. ASSUME Ascending(s) PROVE Ascending(Tail(s)) /\ \A j \in ToSet(Tail(s)) : Head(s) < j
  <2>1. \A a, b \in 1..Len(s) : a < b => s[a] < s[b]
    BY <1>1, <1>5 DEF Ascending
  <2>2. \A a \in 1..(Len(s) - 1) : Tail(s)[a] = s[a + 1] /\ a + 1 \in 1..Len(s) /\ 1 < a + 1
    BY <1>1, <1>2
  <2>3. Ascending(Tail(s))
    BY <1>1, <1>3, <2>1, <2>2 DEF Ascending
  <2>4. \A j \in ToSet(Tail(s)) : Head(s) < j
    BY <1>1, <1>2, <1>3, <2>1, <2>2 DEF ToSet
  <2> QED
    BY <2>3, <2>4
<1> QED
  BY <1>1, <1>2, <1>4, <1>5

-----------------------------------------------------------------------------
(* The client's invariant.                                                    *)

MainWaits == {"mention", "inThread"}

Calls == [kind : Waits \cup {"idle", "handle", "reply", "sleep", "create", "ended"},
          for : Threads \cup {Nothing} \cup Peers \cup Nat]

ClientTypes ==
  /\ scenario \in Seq(Message) /\ sent \in Seq(Message)
  /\ inbox \in Seq(Nat) /\ pendingMentions \in Seq(Nat)
  /\ call \in [Strands -> Calls]
  /\ answer \in [Strands -> {<<>>} \cup {<<batch>> : batch \in Seq(Nat)}]
  /\ carried \in Seq(Waits \cup {"idle"}) /\ Len(carried) = Len(sent)
  /\ handed \in Seq([msg : Nat, by : Waits])
  /\ lastThread \in {Nothing} \cup 1..opened /\ closed \subseteq 1..opened /\ opened \in 0..MaxOpened
  /\ exiting \in {"starting", "no", "closing", "closed", "exited"}
  /\ broken \in [messages : SUBSET Nat, threads : SUBSET Nat, times : Nat]

(* The strand of a peer only waits for that peer, and an answer is on its way *)
(* only to a strand that called.                                              *)
StrandsCall ==
  /\ call[Main].kind # "agent"
  /\ call[Main].kind = "inThread" => call[Main].for \in awaited
  /\ call[Main].kind = "create" =>
       IF answer[Main] = <<>> THEN opened < MaxOpened ELSE answer[Main] = <<<<opened>>>> /\ opened > 0
  /\ \A p \in Peers : /\ call[p].kind \in {"idle", "agent", "ended"}
                      /\ call[p].kind = "agent" => call[p].for = p /\ ~responder
  /\ \A s \in Strands : answer[s] # <<>> => call[s].kind \in Waits \cup {"create", "ended"}

(* The messages of the answer to a wait.                                      *)
Taken(s) == IF call[s].kind \in Waits THEN Contents(answer[s]) ELSE {}
Batched(s) == call[s].kind \in Waits /\ answer[s] # <<>>

(* Each message has been taken once, by one kind of wait.                     *)
TakenOnce ==
  /\ ToSet(inbox) = {i \in DOMAIN sent : carried[i] = "idle"}
  /\ \A i \in ToSet(pendingMentions) \cup Taken(Main) : i \in DOMAIN sent /\ carried[i] \in MainWaits
  /\ \A p \in Peers : \A i \in Taken(p) : i \in DOMAIN sent /\ carried[i] = "agent" /\ sent[i].sender = p
  /\ \A n \in DOMAIN handed :
       /\ handed[n].msg \in DOMAIN sent
       /\ carried[handed[n].msg] \in IF handed[n].by = "agent" THEN {"agent"} ELSE MainWaits

(* What CoralOS still holds is later than what it let go of, as far as a wait *)
(* could have taken the one before the other, and so on down to the code.     *)
InboxIsLater ==
  \A i, j \in DOMAIN sent : carried[j] = "idle" =>
    /\ carried[i] \in MainWaits => i < j
    /\ carried[i] = "agent" /\ sent[i].sender = sent[j].sender => i < j

QueuesAscend ==
  /\ Ascending(inbox) /\ Ascending(pendingMentions)
  /\ \A s \in Strands : Batched(s) => Head(answer[s]) # <<>> /\ Ascending(Head(answer[s]))
  /\ Batched(Main) => pendingMentions = <<>>

HandedBefore ==
  \A n \in DOMAIN handed :
    IF handed[n].by = "agent"
    THEN \A p \in Peers : \A j \in Taken(p) : sent[handed[n].msg].sender = p => handed[n].msg < j
    ELSE \A j \in ToSet(pendingMentions) \cup Taken(Main) : handed[n].msg < j

HandedInOrder ==
  \A m, n \in DOMAIN handed : m < n =>
    /\ handed[m].by # "agent" /\ handed[n].by # "agent" => handed[m].msg < handed[n].msg
    /\ /\ handed[m].by = "agent" /\ handed[n].by = "agent"
       /\ sent[handed[m].msg].sender = sent[handed[n].msg].sender
       => handed[m].msg < handed[n].msg

Queues == TakenOnce /\ InboxIsLater /\ QueuesAscend /\ HandedBefore /\ HandedInOrder

(* The thread opened last is known, closed or on its way.                     *)
LastIsKnown ==
  opened > 0 =>
    \/ opened \in closed \cup broken.threads
    \/ lastThread = opened
    \/ answer[Main] = <<<<opened>>>> /\ call[Main].kind \in {"create", "ended"}

ClientInv == ClientTypes /\ StrandsCall /\ Queues /\ LostForAReason /\ LastIsKnown

LEMMA StrandLemma == Main \in Strands /\ \A p \in Peers : p \in Strands /\ p # Main
  BY MentionsAssumption DEF Strands, Main

LEMMA ContentsLemma ==
  /\ Contents(<<>>) = {}
  /\ \A batch : Contents(<<batch>>) = ToSet(batch)
<1>1. ToSet(<<>>) = {} /\ \A batch : ToSet(<<batch>>) = {batch}
  BY DEF ToSet
<1> QED
  BY <1>1 DEF Contents

LEMMA FreeIsACall == Free \in Calls /\ \A k \in {"handle", "sleep", "ended", "mention", "inThread", "agent", "create"} :
                       \A f \in Threads \cup {Nothing} \cup Peers \cup Nat : [kind |-> k, for |-> f] \in Calls
  BY DEF Free, Calls, Waits

(* The types and the strands.                                                 *)
ClientShape == ClientTypes /\ StrandsCall

(* One strand goes on, with or without the answer it was given.               *)
LEMMA StrandChanges ==
  ASSUME ClientShape, NEW s \in Strands, NEW c \in Calls, call' = [call EXCEPT ![s] = c],
         answer' = answer \/ answer' = [answer EXCEPT ![s] = <<>>],
         UNCHANGED <<server, responder, exiting, carried>>,
         pendingMentions' \in Seq(Nat), handed' \in Seq([msg : Nat, by : Waits]),
         lastThread' \in {Nothing} \cup 1..opened, awaited \subseteq awaited',
         broken' \in [messages : SUBSET Nat, threads : SUBSET Nat, times : Nat],
         answer'[s] = <<>> \/ c.kind \in Waits,
         s = Main => /\ c.kind # "agent" /\ (c.kind = "inThread" => c.for \in awaited')
                     /\ (c.kind = "create" => opened < MaxOpened /\ answer'[s] = <<>>),
         s \in Peers => /\ c.kind \in {"idle", "agent", "ended"}
                        /\ (c.kind = "agent" => c.for = s /\ ~responder)
  PROVE  ClientShape'
<1>1. call'[s] = c /\ \A r \in Strands \ {s} : call'[r] = call[r] /\ answer'[r] = answer[r]
  BY DEF ClientShape, ClientTypes
<1>2. /\ answer' \in [Strands -> {<<>>} \cup {<<batch>> : batch \in Seq(Nat)}]
      /\ \A r \in Strands : answer'[r] # <<>> => answer'[r] = answer[r]
  BY DEF ClientShape, ClientTypes
<1>3. ClientTypes'
  BY <1>2 DEF ClientShape, ClientTypes, server
<1>4. StrandsCall'
  BY <1>1, <1>2, StrandLemma DEF ClientShape, StrandsCall, server
<1> QED
  BY <1>3, <1>4 DEF ClientShape

LEMMA EnterLemma ==
  ASSUME ClientShape,
         \/ WaitForMention \/ CreateThread
         \/ \E t \in Threads : WaitForMentionInThread(t)
         \/ \E p \in Peers : WaitForAgent(p)
  PROVE  /\ UNCHANGED <<server, responder, answer, pendingMentions, lastThread, exiting, handed, carried, broken>>
         /\ awaited \subseteq awaited'
         /\ \E s \in Strands, c \in Calls :
              /\ call[s] = Free /\ call' = [call EXCEPT ![s] = c] /\ answer[s] = <<>>
              /\ s = Main => /\ c.kind # "agent" /\ (c.kind = "inThread" => c.for \in awaited')
                             /\ (c.kind = "create" => opened < MaxOpened)
              /\ s \in Peers => c.kind = "agent" /\ c.for = s /\ ~responder
<1>1. PICK s \in Strands, kind \in {"mention", "inThread", "agent", "create"}, for \in Threads \cup {Nothing} \cup Peers :
        /\ Enter(s, kind, for) /\ awaited \subseteq awaited'
        /\ s = Main => /\ kind # "agent" /\ (kind = "inThread" => for \in awaited')
                       /\ (kind = "create" => opened < MaxOpened)
        /\ s \in Peers => kind = "agent" /\ for = s /\ ~responder
  <2>1. CASE WaitForMention
    BY <2>1, StrandLemma DEF WaitForMention
  <2>2. CASE CreateThread
    BY <2>2, StrandLemma DEF CreateThread
  <2>3. CASE \E t \in Threads : WaitForMentionInThread(t)
    BY <2>3, StrandLemma DEF WaitForMentionInThread
  <2>4. CASE \E p \in Peers : WaitForAgent(p)
    BY <2>4, StrandLemma DEF WaitForAgent
  <2> QED
    BY <2>1, <2>2, <2>3, <2>4
<1>2. PICK c : c = [kind |-> kind, for |-> for]
  OBVIOUS
<1>3. c \in Calls /\ c.kind = kind /\ c.for = for
  BY <1>2, FreeIsACall
<1>4. /\ call[s] = Free /\ call' = [call EXCEPT ![s] = c]
      /\ UNCHANGED <<server, responder, answer, pendingMentions, lastThread, exiting, handed, carried, broken>>
  BY <1>1, <1>2 DEF Enter, server, threads
<1>5. answer[s] = <<>>
  BY <1>4 DEF ClientShape, StrandsCall, Free, Waits
<1> QED
  BY <1>1, <1>3, <1>4, <1>5

LEMMA EnterShape ==
  ASSUME ClientShape,
         \/ WaitForMention \/ CreateThread
         \/ \E t \in Threads : WaitForMentionInThread(t)
         \/ \E p \in Peers : WaitForAgent(p)
  PROVE  ClientShape'
<1>1. /\ pendingMentions' \in Seq(Nat) /\ handed' \in Seq([msg : Nat, by : Waits])
      /\ lastThread' \in {Nothing} \cup 1..opened
      /\ broken' \in [messages : SUBSET Nat, threads : SUBSET Nat, times : Nat]
  BY EnterLemma DEF ClientShape, ClientTypes
<1> QED
  BY <1>1, EnterLemma, StrandChanges

(* A mention is handed out, or passed over by a wait for a thread.            *)
LEMMA HandLemma ==
  ASSUME ClientShape, NEW s \in Strands, NEW i \in Nat, call[s].kind \in Waits, Hand(s, i)
  PROVE  \E c \in Calls :
           /\ call' = [call EXCEPT ![s] = c]
           /\ handed' \in Seq([msg : Nat, by : Waits])
           /\ s \in Peers => c.kind = "idle"
           /\ \/ /\ c = call[s] /\ c.kind = "inThread" /\ sent[i].thread # c.for /\ handed' = handed
              \/ c.kind \in {"idle", "handle"} /\ handed' = Append(handed, [msg |-> i, by |-> call[s].kind])
<1>1. call \in [Strands -> Calls] /\ handed \in Seq([msg : Nat, by : Waits])
  BY DEF ClientShape, ClientTypes
<1>2. s \in Peers => call[s].kind = "agent" /\ ~responder
  BY DEF ClientShape, StrandsCall, Waits
<1>3. CASE call[s].kind = "inThread" /\ sent[i].thread # call[s].for
  <2>1. call' = [call EXCEPT ![s] = call[s]] /\ handed' = handed
    BY <1>1, <1>3 DEF Hand
  <2> QED
    BY <1>1, <1>2, <1>3, <2>1
<1>4. CASE ~(call[s].kind = "inThread" /\ sent[i].thread # call[s].for)
  <2>1. PICK h : h = [msg |-> i, by |-> call[s].kind]
    OBVIOUS
  <2>2. h \in [msg : Nat, by : Waits]
    BY <2>1
  <2>3. handed' = Append(handed, h)
    BY <1>4, <2>1 DEF Hand
  <2>4. handed' \in Seq([msg : Nat, by : Waits])
    BY <1>1, <2>2, <2>3, AppendProperties
  <2>5. PICK c \in Calls : /\ call' = [call EXCEPT ![s] = c] /\ c.kind \in {"idle", "handle"}
                           /\ s \in Peers => c.kind = "idle"
    <3>1. CASE responder
      <4>1. PICK c : c = [kind |-> "handle", for |-> i]
        OBVIOUS
      <4> QED
        BY <1>2, <1>4, <3>1, <4>1, FreeIsACall DEF Hand
    <3>2. CASE ~responder
      BY <1>4, <3>2, FreeIsACall DEF Hand, Return, Free
    <3> QED
      BY <3>1, <3>2
  <2> QED
    BY <2>1, <2>3, <2>4, <2>5
<1> QED
  BY <1>3, <1>4

LEMMA TakePendingShape == ASSUME ClientShape, QueuesAscend, TakePending PROVE ClientShape'
<1>1. /\ call[Main].kind \in MainWaits /\ pendingMentions # <<>> /\ pendingMentions' = Tail(pendingMentions)
      /\ Hand(Main, Head(pendingMentions))
      /\ UNCHANGED <<server, responder, answer, lastThread, exiting, carried, awaited, broken>>
  BY DEF TakePending, MainWaits
<1>2. /\ lastThread' \in {Nothing} \cup 1..opened /\ pendingMentions \in Seq(Nat)
      /\ broken' \in [messages : SUBSET Nat, threads : SUBSET Nat, times : Nat]
  BY <1>1 DEF ClientShape, ClientTypes
<1>3. pendingMentions' \in Seq(Nat) /\ Head(pendingMentions) \in Nat
  BY <1>1, <1>2, HeadLemma
<1>4. PICK c \in Calls :
        /\ call' = [call EXCEPT ![Main] = c] /\ handed' \in Seq([msg : Nat, by : Waits])
        /\ (c = call[Main] /\ c.kind = "inThread") \/ c.kind \in {"idle", "handle"}
  BY <1>1, <1>3, StrandLemma, HandLemma DEF MainWaits, Waits
<1>5. c.kind = "inThread" => c.for \in awaited'
  BY <1>1, <1>4 DEF ClientShape, StrandsCall
<1>6. answer'[Main] = <<>> \/ c.kind \in Waits
  BY <1>1 DEF QueuesAscend, Batched, MainWaits, Waits
<1> QED
  BY <1>1, <1>2, <1>3, <1>4, <1>5, <1>6, StrandLemma, StrandChanges

LEMMA AnswerLemma ==
  ASSUME ClientShape, NEW s \in Strands, answer[s] # <<>>
  PROVE  \E batch \in Seq(Nat) : answer[s] = <<batch>> /\ Head(answer[s]) = batch /\ Contents(answer[s]) = ToSet(batch)
<1>1. PICK batch \in Seq(Nat) : answer[s] = <<batch>>
  BY DEF ClientShape, ClientTypes
<1> QED
  BY <1>1, ContentsLemma

LEMMA ReceiveMentionsShape == ASSUME ClientShape, ReceiveMentions PROVE ClientShape'
<1>1. /\ call[Main].kind \in MainWaits /\ answer[Main] # <<>> /\ answer' = [answer EXCEPT ![Main] = <<>>]
      /\ UNCHANGED <<server, responder, lastThread, exiting, carried, awaited, broken>>
  BY DEF ReceiveMentions, MainWaits, Answered
<1>2. /\ lastThread' \in {Nothing} \cup 1..opened /\ pendingMentions \in Seq(Nat)
      /\ broken' \in [messages : SUBSET Nat, threads : SUBSET Nat, times : Nat]
      /\ answer'[Main] = <<>> /\ call \in [Strands -> Calls] /\ handed \in Seq([msg : Nat, by : Waits])
  BY <1>1, StrandLemma DEF ClientShape, ClientTypes
<1>3. PICK batch \in Seq(Nat) : Head(answer[Main]) = batch
  BY <1>1, AnswerLemma, StrandLemma
<1>4. PICK mentions \in Seq(Nat) : mentions = Parsed(Head(answer[Main]))
  BY <1>3, OnlyLemma DEF Parsed
<1>5. CASE mentions = <<>>
  <2>1. /\ pendingMentions' \in Seq(Nat) /\ handed' \in Seq([msg : Nat, by : Waits])
        /\ IF call[Main].kind = "mention" THEN Return(Main) ELSE UNCHANGED call
    BY <1>2, <1>4, <1>5 DEF ReceiveMentions
  <2>2. PICK c \in Calls : call' = [call EXCEPT ![Main] = c] /\ (c = Free \/ c = call[Main])
    BY <1>2, <2>1, StrandLemma, FreeIsACall DEF Return
  <2>3. c.kind = "idle" \/ (c.kind \in MainWaits /\ c = call[Main])
    BY <1>1, <2>2 DEF Free
  <2>4. c.kind = "inThread" => c.for \in awaited'
    BY <1>1, <2>3 DEF ClientShape, StrandsCall
  <2> QED
    BY <1>1, <1>2, <2>1, <2>2, <2>3, <2>4, StrandLemma, StrandChanges DEF MainWaits
<1>6. CASE mentions # <<>>
  <2>1. pendingMentions' = pendingMentions \o Tail(mentions) /\ Hand(Main, Head(mentions))
    BY <1>4, <1>6 DEF ReceiveMentions
  <2>2. Head(mentions) \in Nat /\ pendingMentions' \in Seq(Nat)
    BY <1>2, <1>6, <2>1, HeadLemma, ConcatProperties
  <2>3. PICK c \in Calls :
        /\ call' = [call EXCEPT ![Main] = c] /\ handed' \in Seq([msg : Nat, by : Waits])
        /\ (c = call[Main] /\ c.kind = "inThread") \/ c.kind \in {"idle", "handle"}
    BY <1>1, <2>1, <2>2, StrandLemma, HandLemma DEF MainWaits, Waits
  <2>4. c.kind = "inThread" => c.for \in awaited'
    BY <1>1, <2>3 DEF ClientShape, StrandsCall
  <2> QED
    BY <1>1, <1>2, <2>2, <2>3, <2>4, StrandLemma, StrandChanges
<1> QED
  BY <1>5, <1>6

LEMMA ReceiveFromAgentShape == ASSUME ClientShape, QueuesAscend, NEW p \in Peers, ReceiveFromAgent(p) PROVE ClientShape'
<1>1. /\ call[p].kind = "agent" /\ answer[p] # <<>> /\ answer' = [answer EXCEPT ![p] = <<>>]
      /\ UNCHANGED <<server, responder, pendingMentions, lastThread, exiting, carried, awaited, broken>>
  BY DEF ReceiveFromAgent, Answered
<1>2. /\ lastThread' \in {Nothing} \cup 1..opened /\ pendingMentions' \in Seq(Nat)
      /\ broken' \in [messages : SUBSET Nat, threads : SUBSET Nat, times : Nat]
      /\ answer'[p] = <<>> /\ handed \in Seq([msg : Nat, by : Waits])
  BY <1>1, StrandLemma DEF ClientShape, ClientTypes
<1>3. CASE FirstOf(Head(answer[p])) = <<>>
  <2>1. call' = [call EXCEPT ![p] = Free] /\ handed' = handed
    BY <1>3 DEF ReceiveFromAgent, Return
  <2>2. Free \in Calls /\ Free.kind = "idle"
    BY FreeIsACall DEF Free
  <2> QED
    BY <1>1, <1>2, <2>1, <2>2, StrandLemma, StrandChanges
<1>4. CASE FirstOf(Head(answer[p])) # <<>>
  <2>1. Hand(p, Head(FirstOf(Head(answer[p])))) /\ FirstOf(Head(answer[p])) = <<Head(Head(answer[p]))>>
    BY <1>4 DEF ReceiveFromAgent, FirstOf
  <2>2. PICK i : Hand(p, i) /\ HasText(i) /\ i = Head(Head(answer[p]))
    BY <1>4, <2>1 DEF FirstOf
  <2>3. i \in Nat
    <3>1. PICK batch \in Seq(Nat) : answer[p] = <<batch>> /\ Head(answer[p]) = batch
      BY <1>1, AnswerLemma, StrandLemma
    <3>2. batch # <<>>
      BY <1>1, <3>1, StrandLemma DEF QueuesAscend, Batched, Waits
    <3> QED
      BY <2>2, <3>1, <3>2, HeadLemma
  <2>4. PICK c \in Calls :
        /\ call' = [call EXCEPT ![p] = c] /\ handed' \in Seq([msg : Nat, by : Waits]) /\ c.kind = "idle"
    BY <1>1, <2>2, <2>3, StrandLemma, HandLemma DEF Waits
  <2> QED
    BY <1>1, <1>2, <2>4, StrandLemma, StrandChanges
<1> QED
  BY <1>3, <1>4

(* A strand stops waiting or working, and nothing is handed out.              *)
LEMMA StopLemma ==
  ASSUME ClientShape, TimeUp(Main) \/ (\E p \in Peers : TimeUp(p)) \/ Expire \/ Handled \/ HandlerThrows \/ GoOn
  PROVE  /\ UNCHANGED <<server, responder, answer, pendingMentions, lastThread, exiting, handed, carried, awaited, broken>>
         /\ \E s \in Strands, c \in Calls :
              /\ call' = [call EXCEPT ![s] = c] /\ c.kind \in {"idle", "reply", "sleep"} /\ answer[s] = <<>>
              /\ s \in Peers => c.kind = "idle"
<1>1. UNCHANGED <<server, responder, answer, pendingMentions, lastThread, exiting, handed, carried, awaited, broken>>
  BY DEF TimeUp, Expire, Handled, HandlerThrows, GoOn, history
<1>2. PICK s \in Strands, c \in Calls :
        /\ call' = [call EXCEPT ![s] = c] /\ c.kind \in {"idle", "reply", "sleep"} /\ answer[s] = <<>>
        /\ s \in Peers => c.kind = "idle"
  <2>1. CASE (\E p \in Peers : TimeUp(p)) \/ TimeUp(Main) \/ Expire
    BY <2>1, StrandLemma, FreeIsACall DEF TimeUp, Expire, Asked, Return, Free
  <2>2. CASE Handled
    <3>1. call[Main].kind = "handle" /\ answer[Main] = <<>>
      BY <2>2, StrandLemma DEF Handled, ClientShape, StrandsCall, Waits
    <3>2. CASE Return(Main)
      BY <3>1, <3>2, StrandLemma, FreeIsACall DEF Return, Free
    <3>3. CASE call' = [call EXCEPT ![Main].kind = "reply"]
      <4>1. PICK c : c = [call[Main] EXCEPT !.kind = "reply"]
        OBVIOUS
      <4>2. c \in Calls /\ c.kind = "reply"
        BY <4>1, StrandLemma DEF ClientShape, ClientTypes, Calls
      <4>3. call' = [call EXCEPT ![Main] = c]
        BY <3>3, <4>1
      <4> QED
        BY <3>1, <4>2, <4>3, StrandLemma
    <3> QED
      BY <2>2, <3>2, <3>3 DEF Handled
  <2>3. CASE HandlerThrows
    BY <2>3, StrandLemma, FreeIsACall DEF HandlerThrows, Throw, Return, Free, ClientShape, StrandsCall, Waits
  <2>4. CASE GoOn
    BY <2>4, StrandLemma, FreeIsACall DEF GoOn, Return, Free, ClientShape, StrandsCall, Waits
  <2> QED
    BY <2>1, <2>2, <2>3, <2>4
<1> QED
  BY <1>1, <1>2

LEMMA StopShape ==
  ASSUME ClientShape, TimeUp(Main) \/ (\E p \in Peers : TimeUp(p)) \/ Expire \/ Handled \/ HandlerThrows \/ GoOn
  PROVE  ClientShape'
<1>1. /\ pendingMentions' \in Seq(Nat) /\ handed' \in Seq([msg : Nat, by : Waits])
      /\ lastThread' \in {Nothing} \cup 1..opened
      /\ broken' \in [messages : SUBSET Nat, threads : SUBSET Nat, times : Nat]
  BY StopLemma DEF ClientShape, ClientTypes
<1> QED
  BY <1>1, StopLemma, StrandLemma, StrandChanges

LEMMA ReceiveThreadShape == ASSUME ClientShape, ReceiveThread PROVE ClientShape'
<1>1. /\ call[Main].kind = "create" /\ answer[Main] # <<>> /\ answer' = [answer EXCEPT ![Main] = <<>>]
      /\ lastThread' = Head(Head(answer[Main])) /\ call' = [call EXCEPT ![Main] = Free]
      /\ UNCHANGED <<server, responder, pendingMentions, exiting, history>>
  BY DEF ReceiveThread, Answered, Return
<1>2. answer[Main] = <<<<opened>>>> /\ opened > 0
  BY <1>1 DEF ClientShape, StrandsCall
<1>3. lastThread' = opened /\ lastThread' \in 1..opened
  BY <1>1, <1>2 DEF ClientShape, ClientTypes
<1>4. /\ pendingMentions' \in Seq(Nat) /\ handed' \in Seq([msg : Nat, by : Waits]) /\ answer'[Main] = <<>>
      /\ broken' \in [messages : SUBSET Nat, threads : SUBSET Nat, times : Nat]
  BY <1>1, StrandLemma DEF ClientShape, ClientTypes, history
<1> QED
  BY <1>1, <1>3, <1>4, StrandLemma, FreeIsACall, StrandChanges DEF Free, history

LEMMA BreakShape == ASSUME ClientShape, NEW s \in Strands, Break(s) PROVE ClientShape'
<1>1. /\ call[s].kind \in Waits \cup {"create", "reply"} /\ Throw(s) /\ answer' = [answer EXCEPT ![s] = <<>>]
      /\ UNCHANGED <<server, responder, pendingMentions, lastThread, exiting, handed, carried, awaited>>
      /\ broken' = [times    |-> broken.times + 1,
                    messages |-> broken.messages \cup IF call[s].kind \in Waits THEN Contents(answer[s]) ELSE {},
                    threads  |-> broken.threads \cup IF call[s].kind = "create" THEN Contents(answer[s]) ELSE {}]
  BY DEF Break
<1>2. Contents(answer[s]) \subseteq Nat
  <2>1. CASE answer[s] = <<>>
    BY <2>1, ContentsLemma
  <2>2. CASE answer[s] # <<>>
    <3>1. PICK batch \in Seq(Nat) : Contents(answer[s]) = ToSet(batch)
      BY <2>2, AnswerLemma
    <3> QED
      BY <3>1, ElementOfSeq DEF ToSet
  <2> QED
    BY <2>1, <2>2
<1>3. broken' \in [messages : SUBSET Nat, threads : SUBSET Nat, times : Nat]
  BY <1>1, <1>2 DEF ClientShape, ClientTypes
<1>4. /\ pendingMentions' \in Seq(Nat) /\ handed' \in Seq([msg : Nat, by : Waits])
      /\ lastThread' \in {Nothing} \cup 1..opened /\ answer'[s] = <<>>
  BY <1>1 DEF ClientShape, ClientTypes
<1>5. PICK c \in Calls : /\ call' = [call EXCEPT ![s] = c] /\ c.kind \in {"idle", "sleep"}
                         /\ s \in Peers => c.kind = "idle"
  <2>1. s \in Peers => ~responder
    BY <1>1 DEF ClientShape, StrandsCall, Waits
  <2> QED
    BY <1>1, <2>1, FreeIsACall DEF Throw, Return, Free
<1> QED
  BY <1>1, <1>3, <1>4, <1>5, StrandChanges

LEMMA ExitShape == ASSUME ClientShape, Exit PROVE ClientShape'
<1>1. call' \in [Strands -> Calls] /\ \A s \in Strands : call'[s].kind = "ended"
  <2>1. PICK c : c = [kind |-> "ended", for |-> Nothing]
    OBVIOUS
  <2>2. c \in Calls /\ c.kind = "ended" /\ call' = [s \in Strands |-> c]
    BY <2>1, FreeIsACall DEF Exit
  <2> QED
    BY <2>2
<1>2. ClientTypes'
  BY <1>1 DEF ClientShape, ClientTypes, Exit, server, history
<1>3. StrandsCall'
  BY <1>1, StrandLemma DEF ClientShape, StrandsCall, Exit, server, history, Waits
<1> QED
  BY <1>2, <1>3 DEF ClientShape

LEMMA ProcessShape == ASSUME ClientShape, Connect \/ Shutdown \/ CloseThread PROVE ClientShape'
<1>1. CASE Connect \/ Shutdown
  <2>1. /\ UNCHANGED <<scenario, sent, inbox, responder, call, answer, pendingMentions, lastThread, opened, closed>>
        /\ UNCHANGED <<handed, carried, awaited, broken>> /\ exiting' \in {"no", "closing"}
    BY <1>1 DEF Connect, Shutdown, server, history
  <2>2. ClientTypes'
    BY <2>1 DEF ClientShape, ClientTypes
  <2>3. StrandsCall'
    BY <2>1 DEF ClientShape, StrandsCall
  <2> QED
    BY <2>2, <2>3 DEF ClientShape
<1>2. CASE CloseThread
  <2>1. lastThread' \in {Nothing} \cup 1..opened /\ closed' \subseteq 1..opened
    BY <1>2 DEF ClientShape, ClientTypes, CloseThread
  <2>2. broken' \in [messages : SUBSET Nat, threads : SUBSET Nat, times : Nat]
    <3>1. CASE broken' = broken
      BY <3>1 DEF ClientShape, ClientTypes
    <3>2. CASE broken' = [broken EXCEPT !.times = @ + 1, !.threads = @ \cup {lastThread}] /\ lastThread # Nothing
      <4>1. lastThread \in Nat
        BY <3>2 DEF ClientShape, ClientTypes
      <4>2. PICK n \in Nat, ts \in SUBSET Nat : broken' = [broken EXCEPT !.times = n, !.threads = ts]
        <5>1. broken.times + 1 \in Nat /\ broken.threads \cup {lastThread} \in SUBSET Nat
          BY <4>1 DEF ClientShape, ClientTypes
        <5> QED
          BY <3>2, <5>1, Zenon
      <4>3. broken \in [messages : SUBSET Nat, threads : SUBSET Nat, times : Nat]
        BY DEF ClientShape, ClientTypes
      <4> QED
        BY <4>2, <4>3
    <3> QED
      BY <1>2, <3>1, <3>2 DEF CloseThread
  <2> QED
    BY <1>2, <2>1, <2>2 DEF CloseThread, ClientShape, ClientTypes, StrandsCall
<1> QED
  BY <1>1, <1>2

LEMMA OpenThreadShape == ASSUME ClientShape, OpenThread PROVE ClientShape'
<1>1. /\ call[Main].kind = "create" /\ answer[Main] = <<>> /\ opened' = opened + 1 /\ opened' > 0
      /\ answer' = [answer EXCEPT ![Main] = <<<<opened + 1>>>>] /\ opened \in 0..(MaxOpened - 1)
      /\ UNCHANGED <<scenario, sent, inbox, responder, call, pendingMentions, lastThread, closed, exiting, history>>
  <2>1. call[Main].kind = "create" /\ answer[Main] = <<>> /\ opened' = opened + 1
    BY DEF OpenThread
  <2>2. opened < MaxOpened /\ opened \in Nat
    BY <2>1 DEF ClientShape, ClientTypes, StrandsCall
  <2> QED
    BY <2>1, <2>2, MentionsAssumption DEF OpenThread
<1>2. <<opened + 1>> \in Seq(Nat)
  BY <1>1
<1>3. answer' \in [Strands -> {<<>>} \cup {<<batch>> : batch \in Seq(Nat)}] /\ answer'[Main] = <<<<opened'>>>>
  BY <1>1, <1>2, StrandLemma DEF ClientShape, ClientTypes
<1>4. opened' \in 0..MaxOpened /\ lastThread' \in {Nothing} \cup 1..opened' /\ closed' \subseteq 1..opened'
  BY <1>1, MentionsAssumption DEF ClientShape, ClientTypes
<1>5. ClientTypes'
  BY <1>1, <1>3, <1>4 DEF ClientShape, ClientTypes, history
<1>6. answer'[Main] # <<>> /\ \A s \in Strands \ {Main} : answer'[s] = answer[s]
  BY <1>1, <1>3 DEF ClientShape, ClientTypes
<1>7. StrandsCall'
  BY <1>1, <1>3, <1>6, StrandLemma DEF ClientShape, StrandsCall, history
<1> QED
  BY <1>5, <1>7 DEF ClientShape

LEMMA PostShape == ASSUME ClientShape, Post PROVE ClientShape'
<1>1. /\ Len(sent) < Len(scenario) /\ sent' = Append(sent, scenario[Len(sent) + 1])
      /\ inbox' = Append(inbox, Len(sent) + 1) /\ carried' = Append(carried, "idle")
      /\ UNCHANGED <<scenario, responder, call, answer, pendingMentions, threads, handed, awaited, broken>>
  BY DEF Post
<1>2. Len(sent) \in Nat /\ Len(scenario) \in Nat /\ scenario[Len(sent) + 1] \in Message
  <2>1. Len(sent) \in Nat /\ Len(scenario) \in Nat
    BY LenProperties DEF ClientShape, ClientTypes
  <2>2. Len(sent) + 1 \in 1..Len(scenario)
    BY <1>1, <2>1
  <2> QED
    BY <2>1, <2>2, ElementOfSeq DEF ClientShape, ClientTypes
<1>3. /\ sent' \in Seq(Message) /\ Len(sent') = Len(sent) + 1 /\ inbox' \in Seq(Nat)
      /\ carried' \in Seq(Waits \cup {"idle"}) /\ Len(carried') = Len(carried) + 1
  BY <1>1, <1>2, AppendProperties DEF ClientShape, ClientTypes
<1>4. ClientTypes'
  BY <1>1, <1>3 DEF ClientShape, ClientTypes, threads
<1>5. StrandsCall'
  BY <1>1 DEF ClientShape, StrandsCall, threads
<1> QED
  BY <1>4, <1>5 DEF ClientShape

LEMMA WantedLemma ==
  ASSUME ClientShape, NEW s \in Strands
  PROVE  /\ Wanted(s) \in Seq(Nat)
         /\ ToSet(Wanted(s)) = IF call[s].kind = "agent" THEN ToSet(inbox) \cap From(call[s].for) ELSE ToSet(inbox)
         /\ Ascending(inbox) => Ascending(Wanted(s))
  BY OnlyLemma DEF Wanted, ClientShape, ClientTypes

LEMMA DeliverShape == ASSUME ClientShape, NEW s \in Strands, Deliver(s) PROVE ClientShape'
<1>1. PICK n \in 1..Len(Wanted(s)) :
        /\ answer' = [answer EXCEPT ![s] = <<SubSeq(Wanted(s), 1, n)>>]
        /\ inbox' = Only(inbox, DOMAIN sent \ ToSet(SubSeq(Wanted(s), 1, n)))
        /\ carried' = [i \in DOMAIN carried |-> IF i \in ToSet(SubSeq(Wanted(s), 1, n)) THEN call[s].kind ELSE carried[i]]
  BY DEF Deliver
<1>2. /\ call[s].kind \in Waits
      /\ UNCHANGED <<scenario, sent, responder, call, pendingMentions, threads, handed, awaited, broken>>
  BY DEF Deliver, Asked
<1>3. PICK batch \in Seq(Nat) : batch = SubSeq(Wanted(s), 1, n)
  <2>1. Wanted(s) \in Seq(Nat) /\ Len(Wanted(s)) \in Nat
    BY WantedLemma, LenProperties
  <2>2. \A i \in 1..n : i \in 1..Len(Wanted(s)) /\ Wanted(s)[i] \in Nat
    BY <2>1, ElementOfSeq
  <2>3. SubSeq(Wanted(s), 1, n) \in Seq(Nat)
    BY <2>1, <2>2, SubSeqProperties
  <2> QED
    BY <2>3
<1>4. inbox' \in Seq(Nat)
  BY <1>1, OnlyLemma DEF ClientShape, ClientTypes
<1>5. carried' \in Seq(Waits \cup {"idle"}) /\ Len(carried') = Len(carried)
  <2>1. Len(carried) \in Nat /\ DOMAIN carried = 1..Len(carried) /\ \A i \in 1..Len(carried) : carried[i] \in Waits \cup {"idle"}
    BY LenProperties, ElementOfSeq DEF ClientShape, ClientTypes
  <2>2. carried' \in [1..Len(carried) -> Waits \cup {"idle"}]
    BY <1>1, <1>2, <2>1
  <2> QED
    BY <2>1, <2>2, IsASeq, LenProperties
<1>6. answer' \in [Strands -> {<<>>} \cup {<<b>> : b \in Seq(Nat)}] /\ \A r \in Strands \ {s} : answer'[r] = answer[r]
  BY <1>1, <1>3 DEF ClientShape, ClientTypes
<1>7. ClientTypes'
  BY <1>2, <1>4, <1>5, <1>6 DEF ClientShape, ClientTypes, threads
<1>8. StrandsCall'
  BY <1>2, <1>6, StrandLemma DEF ClientShape, StrandsCall, threads, Waits
<1> QED
  BY <1>7, <1>8 DEF ClientShape

LEMMA NextShape ==
  ASSUME ClientShape, QueuesAscend, [ClientNext]_clientVars
  PROVE  ClientShape'
<1>1. CASE Step
  BY <1>1, EnterShape, ReceiveFromAgentShape, ReceiveThreadShape, TakePendingShape, ReceiveMentionsShape,
     StopShape, ProcessShape, ExitShape DEF Step, Disconnect, ClientNext
<1>2. CASE Shutdown \/ FailToConnect \/ Post \/ OpenThread
  BY <1>2, ProcessShape, ExitShape, PostShape, OpenThreadShape DEF FailToConnect
<1>3. ASSUME NEW s \in Strands, Deliver(s) \/ TimeUp(s) \/ Break(s) PROVE ClientShape'
  BY <1>3, DeliverShape, BreakShape, StopShape DEF Strands
<1>4. CASE UNCHANGED clientVars
  BY <1>4 DEF ClientShape, ClientTypes, StrandsCall, clientVars, server, history
<1> QED
  BY <1>1, <1>2, <1>3, <1>4 DEF ClientNext

-----------------------------------------------------------------------------
(* The order in which messages are taken and handed out.                      *)

LEMMA GrowsLemma ==
  ASSUME NEW S, NEW s \in Seq(S), NEW h \in S
  PROVE  /\ Len(s) \in Nat /\ DOMAIN s = 1..Len(s) /\ DOMAIN Append(s, h) = 1..(Len(s) + 1)
         /\ Append(s, h)[Len(s) + 1] = h /\ \A n \in 1..Len(s) : Append(s, h)[n] = s[n] /\ s[n] \in S
  BY AppendProperties, LenProperties, ElementOfSeq

LEMMA HandedLemma ==
  ASSUME ClientShape
  PROVE  Len(handed) \in Nat /\ DOMAIN handed = 1..Len(handed) /\ \A n \in 1..Len(handed) : handed[n].msg \in Nat
<1>1. handed \in Seq([msg : Nat, by : Waits])
  BY DEF ClientShape, ClientTypes
<1>2. Len(handed) \in Nat /\ DOMAIN handed = 1..Len(handed) /\ \A n \in 1..Len(handed) : handed[n] \in [msg : Nat, by : Waits]
  BY <1>1, LenProperties, ElementOfSeq
<1> QED
  BY <1>2

(* What no wait takes and no strand is handed.                                *)
Quiet ==
  /\ UNCHANGED <<sent, inbox, pendingMentions, handed, carried>>
  /\ \A s \in Strands : Batched(s)' => Batched(s) /\ answer'[s] = answer[s]

LEMMA TakenLemma ==
  ASSUME NEW s \in Strands, Batched(s)' => Batched(s) /\ answer'[s] = answer[s]
  PROVE  Taken(s)' \subseteq Taken(s)
<1>1. CASE Batched(s)'
  BY <1>1 DEF Taken, Batched, Contents
<1>2. CASE ~Batched(s)'
  <2>1. Taken(s)' = {}
    <3>1. CASE call'[s].kind \notin Waits
      BY <3>1 DEF Taken
    <3>2. CASE answer'[s] = <<>>
      <4>1. Contents(answer'[s]) = {}
        BY <3>2, ContentsLemma
      <4>2. Taken(s)' = IF call'[s].kind \in Waits THEN Contents(answer'[s]) ELSE {}
        BY DEF Taken, Contents
      <4> QED
        BY <4>1, <4>2
    <3> QED
      BY <1>2, <3>1, <3>2 DEF Batched
  <2> QED
    BY <2>1
<1> QED
  BY <1>1, <1>2

LEMMA QuietQueues == ASSUME Queues, Quiet PROVE Queues'
<1>1. UNCHANGED <<sent, inbox, pendingMentions, handed, carried>>
  BY DEF Quiet
<1>2. \A s \in Strands : Taken(s)' \subseteq Taken(s)
  BY TakenLemma DEF Quiet
<1>3. TakenOnce'
  BY <1>1, <1>2, StrandLemma DEF Queues, TakenOnce
<1>4. InboxIsLater'
  BY <1>1 DEF Queues, InboxIsLater
<1>5. QueuesAscend'
  BY <1>1, StrandLemma DEF Queues, QueuesAscend, Quiet
<1>6. HandedBefore'
  BY <1>1, <1>2, StrandLemma DEF Queues, HandedBefore
<1>7. HandedInOrder'
  BY <1>1 DEF Queues, HandedInOrder
<1> QED
  BY <1>3, <1>4, <1>5, <1>6, <1>7 DEF Queues

(* The main strand takes the first of some mentions, and keeps the others.    *)
LEMMA MainTakes ==
  ASSUME ClientShape, Queues, NEW mentions \in Seq(Nat), mentions # <<>>, Ascending(mentions),
         ToSet(mentions) \subseteq ToSet(pendingMentions) \cup Taken(Main),
         pendingMentions' = Tail(mentions), answer'[Main] = <<>>,
         \A p \in Peers : answer'[p] = answer[p] /\ call'[p] = call[p],
         UNCHANGED <<sent, inbox, carried>>,
         NEW by \in MainWaits, handed' = handed \/ handed' = Append(handed, [msg |-> Head(mentions), by |-> by])
  PROVE  Queues'
<1>1. /\ Head(mentions) \in Nat /\ Tail(mentions) \in Seq(Nat) /\ Ascending(Tail(mentions))
      /\ ToSet(mentions) = {Head(mentions)} \cup ToSet(Tail(mentions))
      /\ \A j \in ToSet(Tail(mentions)) : Head(mentions) < j
  BY HeadLemma
<1> DEFINE x == Head(mentions)
<1>2. /\ x \in ToSet(pendingMentions) \cup Taken(Main)
      /\ ToSet(pendingMentions') \subseteq ToSet(pendingMentions) \cup Taken(Main)
  BY <1>1
<1>3. Taken(Main)' = {} /\ ~Batched(Main)' /\ \A p \in Peers : Taken(p)' = Taken(p) /\ Batched(p)' = Batched(p)
  <2>1. Contents(<<>>) = {}
    BY ContentsLemma
  <2> QED
    BY <2>1 DEF Taken, Batched, Contents
<1>4. handed \in Seq([msg : Nat, by : Waits]) /\ [msg |-> x, by |-> by] \in [msg : Nat, by : Waits]
  BY <1>1 DEF ClientShape, ClientTypes, MainWaits, Waits
<1>5. /\ Len(handed) \in Nat /\ DOMAIN handed = 1..Len(handed) /\ \A n \in 1..Len(handed) : handed[n].msg \in Nat
      /\ \A n \in DOMAIN handed' : \/ n \in 1..Len(handed) /\ handed'[n] = handed[n]
                                   \/ n = Len(handed) + 1 /\ handed'[n] = [msg |-> x, by |-> by]
  <2>1. Len(handed) \in Nat /\ DOMAIN handed = 1..Len(handed) /\ \A n \in 1..Len(handed) : handed[n].msg \in Nat
    BY HandedLemma
  <2>2. CASE handed' = handed
    BY <2>1, <2>2
  <2>3. CASE handed' = Append(handed, [msg |-> x, by |-> by])
    <3>1. PICK h \in [msg : Nat, by : Waits] : h = [msg |-> x, by |-> by]
      BY <1>4
    <3>2. handed' = Append(handed, h)
      BY <2>3, <3>1
    <3>3. DOMAIN handed' = 1..(Len(handed) + 1) /\ handed'[Len(handed) + 1] = h /\ \A n \in 1..Len(handed) : handed'[n] = handed[n]
      <4> HIDE DEF x
      <4> QED
        BY <1>4, <3>2, GrowsLemma
    <3> HIDE DEF x
    <3> QED
      BY <2>1, <3>1, <3>3
  <2> QED
    BY <2>2, <2>3
<1>6. \A n \in 1..Len(handed) : handed[n].by # "agent" => handed[n].msg < x
  BY <1>2, <1>5 DEF Queues, HandedBefore
<1> HIDE DEF x
<1>7. TakenOnce'
  <2>1. \A n \in 1..Len(handed) : /\ handed[n].msg \in DOMAIN sent
                                  /\ carried[handed[n].msg] \in IF handed[n].by = "agent" THEN {"agent"} ELSE MainWaits
    BY <1>5 DEF Queues, TakenOnce
  <2>2. x \in DOMAIN sent /\ carried[x] \in MainWaits /\ by # "agent"
    BY <1>2 DEF Queues, TakenOnce, MainWaits
  <2>3. \A n \in DOMAIN handed' : /\ handed'[n].msg \in DOMAIN sent
                                  /\ carried[handed'[n].msg] \in IF handed'[n].by = "agent" THEN {"agent"} ELSE MainWaits
    BY <1>5, <2>1, <2>2
  <2> QED
    BY <1>2, <1>3, <2>3 DEF Queues, TakenOnce
<1>8. InboxIsLater'
  BY DEF Queues, InboxIsLater
<1>9. QueuesAscend'
  BY <1>1, <1>3, StrandLemma DEF Queues, QueuesAscend, Strands
<1>10. HandedBefore'
  <2>1. \A n \in 1..Len(handed) :
          IF handed[n].by = "agent"
          THEN \A p \in Peers : \A j \in Taken(p) : sent[handed[n].msg].sender = p => handed[n].msg < j
          ELSE \A j \in ToSet(pendingMentions) \cup Taken(Main) : handed[n].msg < j
    BY <1>5 DEF Queues, HandedBefore
  <2>2. by # "agent" /\ \A j \in ToSet(pendingMentions') : x < j
    BY <1>1 DEF MainWaits, x
  <2>3. ASSUME NEW n \in DOMAIN handed'
        PROVE  IF handed'[n].by = "agent"
               THEN \A p \in Peers : \A j \in Taken(p)' : sent[handed'[n].msg].sender = p => handed'[n].msg < j
               ELSE \A j \in ToSet(pendingMentions') : handed'[n].msg < j
    BY <1>2, <1>3, <1>5, <2>1, <2>2
  <2> QED
    BY <1>3, <2>3 DEF HandedBefore
<1>11. HandedInOrder'
  <2>1. \A m, n \in 1..Len(handed) : m < n =>
          /\ handed[m].by # "agent" /\ handed[n].by # "agent" => handed[m].msg < handed[n].msg
          /\ /\ handed[m].by = "agent" /\ handed[n].by = "agent"
             /\ sent[handed[m].msg].sender = sent[handed[n].msg].sender
             => handed[m].msg < handed[n].msg
    BY <1>5 DEF Queues, HandedInOrder
  <2>2. by # "agent"
    BY DEF MainWaits
  <2> SUFFICES ASSUME NEW m \in DOMAIN handed', NEW n \in DOMAIN handed', m < n
               PROVE  /\ handed'[m].by # "agent" /\ handed'[n].by # "agent" => handed'[m].msg < handed'[n].msg
                      /\ /\ handed'[m].by = "agent" /\ handed'[n].by = "agent"
                         /\ sent[handed'[m].msg].sender = sent[handed'[n].msg].sender
                         => handed'[m].msg < handed'[n].msg
    BY DEF HandedInOrder
  <2>3. m \in 1..Len(handed) /\ handed'[m] = handed[m]
    BY <1>5
  <2>4. CASE n \in 1..Len(handed) /\ handed'[n] = handed[n]
    BY <2>1, <2>3, <2>4
  <2>5. CASE handed'[n] = [msg |-> x, by |-> by]
    BY <1>6, <2>2, <2>3, <2>5
  <2> QED
    BY <1>5, <2>4, <2>5
<1> QED
  BY <1>7, <1>8, <1>9, <1>10, <1>11 DEF Queues

LEMMA TakePendingQueues == ASSUME ClientShape, Queues, TakePending PROVE Queues'
<1>1. /\ call[Main].kind \in MainWaits /\ pendingMentions # <<>> /\ pendingMentions' = Tail(pendingMentions)
      /\ Hand(Main, Head(pendingMentions)) /\ pendingMentions \in Seq(Nat)
      /\ UNCHANGED <<sent, inbox, carried, answer>>
  BY DEF TakePending, MainWaits, ClientShape, ClientTypes, server
<1>2. Head(pendingMentions) \in Nat
  BY <1>1, HeadLemma
<1>3. PICK c \in Calls :
        /\ call' = [call EXCEPT ![Main] = c]
        /\ handed' = handed \/ handed' = Append(handed, [msg |-> Head(pendingMentions), by |-> call[Main].kind])
  BY <1>1, <1>2, StrandLemma, HandLemma DEF MainWaits, Waits
<1>4. answer'[Main] = <<>> /\ \A p \in Peers : answer'[p] = answer[p] /\ call'[p] = call[p]
  <2>1. answer[Main] = <<>>
    BY <1>1 DEF Queues, QueuesAscend, Batched, MainWaits, Waits
  <2> QED
    BY <1>1, <1>3, <2>1, StrandLemma DEF ClientShape, ClientTypes
<1>5. Ascending(pendingMentions)
  BY DEF Queues, QueuesAscend
<1> QED
  BY <1>1, <1>3, <1>4, <1>5, MainTakes

LEMMA ReceiveMentionsQueues == ASSUME ClientShape, Queues, ReceiveMentions PROVE Queues'
<1>1. /\ call[Main].kind \in MainWaits /\ answer[Main] # <<>> /\ answer' = [answer EXCEPT ![Main] = <<>>]
      /\ UNCHANGED <<sent, inbox, carried>>
  BY DEF ReceiveMentions, MainWaits, Answered, server
<1>2. PICK batch \in Seq(Nat) : Head(answer[Main]) = batch /\ Contents(answer[Main]) = ToSet(batch)
  BY <1>1, AnswerLemma, StrandLemma
<1>3. PICK mentions \in Seq(Nat) : mentions = Parsed(Head(answer[Main]))
  BY <1>2, OnlyLemma DEF Parsed
<1>4. Batched(Main) /\ pendingMentions = <<>>
  BY <1>1 DEF Queues, QueuesAscend, Batched, MainWaits, Waits
<1>5. ToSet(mentions) \subseteq Taken(Main) /\ Ascending(mentions)
  <2>1. Ascending(batch)
    BY <1>2, <1>4, StrandLemma DEF Queues, QueuesAscend
  <2>2. ToSet(mentions) \subseteq ToSet(batch) /\ Ascending(mentions)
    BY <1>2, <1>3, <2>1, OnlyLemma DEF Parsed
  <2> QED
    BY <1>2, <1>4, <2>2 DEF Taken, Batched
<1>6. answer'[Main] = <<>> /\ \A p \in Peers : answer'[p] = answer[p]
  BY <1>1, StrandLemma DEF ClientShape, ClientTypes
<1>7. CASE mentions = <<>>
  <2>1. UNCHANGED <<pendingMentions, handed>> /\ (call' = call \/ call' = [call EXCEPT ![Main] = Free])
    BY <1>3, <1>7 DEF ReceiveMentions, Return
  <2>2. \A s \in Strands : Batched(s)' => Batched(s) /\ answer'[s] = answer[s]
    <3>1. \A p \in Peers : call'[p] = call[p]
      BY <2>1, StrandLemma DEF ClientShape, ClientTypes
    <3> QED
      BY <1>6, <3>1 DEF Batched, Strands
  <2> QED
    BY <1>1, <2>1, <2>2, QuietQueues DEF Quiet
<1>8. CASE mentions # <<>>
  <2>1. pendingMentions' = pendingMentions \o Tail(mentions) /\ Hand(Main, Head(mentions))
    BY <1>3, <1>8 DEF ReceiveMentions
  <2>2. Head(mentions) \in Nat /\ Tail(mentions) \in Seq(Nat)
    BY <1>8, HeadLemma
  <2>3. pendingMentions' = Tail(mentions)
    BY <1>4, <2>1, <2>2, ConcatEmptySeq
  <2>4. PICK c \in Calls :
        /\ call' = [call EXCEPT ![Main] = c]
        /\ handed' = handed \/ handed' = Append(handed, [msg |-> Head(mentions), by |-> call[Main].kind])
    BY <1>1, <2>1, <2>2, StrandLemma, HandLemma DEF MainWaits, Waits
  <2>5. \A p \in Peers : answer'[p] = answer[p] /\ call'[p] = call[p]
    BY <1>6, <2>4, StrandLemma DEF ClientShape, ClientTypes
  <2> QED
    BY <1>1, <1>5, <1>6, <1>8, <2>3, <2>4, <2>5, MainTakes
<1> QED
  BY <1>7, <1>8

LEMMA ReceiveFromAgentQueues == ASSUME ClientShape, Queues, NEW p \in Peers, ReceiveFromAgent(p) PROVE Queues'
<1>1. /\ call[p].kind = "agent" /\ answer[p] # <<>> /\ answer' = [answer EXCEPT ![p] = <<>>]
      /\ UNCHANGED <<sent, inbox, carried, pendingMentions>>
  BY DEF ReceiveFromAgent, Answered, server
<1>2. answer'[p] = <<>> /\ \A s \in Strands \ {p} : answer'[s] = answer[s]
  BY <1>1, StrandLemma DEF ClientShape, ClientTypes
<1>3. PICK c : /\ call' = [call EXCEPT ![p] = c]
               /\ \/ handed' = handed
                  \/ \E x \in Taken(p) : handed' = Append(handed, [msg |-> x, by |-> "agent"])
  <2>1. CASE FirstOf(Head(answer[p])) = <<>>
    BY <2>1 DEF ReceiveFromAgent, Return
  <2>2. CASE FirstOf(Head(answer[p])) # <<>>
    <3>1. FirstOf(Head(answer[p])) = <<Head(Head(answer[p]))>>
      BY <2>2 DEF FirstOf
    <3>2. PICK x : x = Head(Head(answer[p]))
      OBVIOUS
    <3>3. Hand(p, x)
      BY <2>2, <3>1, <3>2 DEF ReceiveFromAgent
    <3>4. PICK batch \in Seq(Nat) : Head(answer[p]) = batch /\ Contents(answer[p]) = ToSet(batch)
      BY <1>1, AnswerLemma, StrandLemma
    <3>5. batch # <<>>
      BY <1>1, <3>4, StrandLemma DEF Queues, QueuesAscend, Batched, Waits
    <3>6. x \in Taken(p) /\ x \in Nat
      BY <1>1, <3>2, <3>4, <3>5, HeadLemma DEF Taken, Waits
    <3>7. PICK c \in Calls :
            /\ call' = [call EXCEPT ![p] = c]
            /\ handed' = handed \/ handed' = Append(handed, [msg |-> x, by |-> call[p].kind])
      BY <1>1, <3>3, <3>6, StrandLemma, HandLemma DEF Waits
    <3> QED
      BY <1>1, <3>6, <3>7
  <2> QED
    BY <2>1, <2>2
<1>4. \A s \in Strands \ {p} : call'[s] = call[s]
  BY <1>3, StrandLemma DEF ClientShape, ClientTypes
<1>5. \A s \in Strands : Batched(s)' => Batched(s) /\ answer'[s] = answer[s]
  BY <1>2, <1>4 DEF Batched
<1>6. CASE handed' = handed
  BY <1>1, <1>5, <1>6, QuietQueues DEF Quiet
<1>7. ASSUME NEW x \in Taken(p), handed' = Append(handed, [msg |-> x, by |-> "agent"])
      PROVE  Queues'
  <2>1. x \in DOMAIN sent /\ x \in Nat /\ carried[x] = "agent" /\ sent[x].sender = p
    <3>1. x \in DOMAIN sent /\ carried[x] = "agent" /\ sent[x].sender = p
      BY <1>7 DEF Queues, TakenOnce
    <3> QED
      BY <3>1, LenProperties DEF ClientShape, ClientTypes
  <2>2. PICK h \in [msg : Nat, by : Waits] : h = [msg |-> x, by |-> "agent"]
    BY <2>1 DEF Waits
  <2>3. handed \in Seq([msg : Nat, by : Waits]) /\ handed' = Append(handed, h)
    BY <1>7, <2>2 DEF ClientShape, ClientTypes
  <2>4. /\ Len(handed) \in Nat /\ DOMAIN handed = 1..Len(handed) /\ DOMAIN handed' = 1..(Len(handed) + 1)
        /\ handed'[Len(handed) + 1] = h /\ \A n \in 1..Len(handed) : handed'[n] = handed[n]
    BY <2>3, GrowsLemma
  <2>5. h.msg = x /\ h.by = "agent"
    BY <2>2
  <2>6. Taken(p)' = {} /\ \A s \in Strands : Taken(s)' \subseteq Taken(s)
    <3>1. Contents(<<>>) = {}
      BY ContentsLemma
    <3>2. Taken(p)' = {}
      BY <1>2, <3>1 DEF Taken, Contents
    <3> QED
      BY <1>5, <3>2, TakenLemma
  <2>7. TakenOnce'
    BY <1>1, <2>1, <2>4, <2>5, <2>6, StrandLemma DEF Queues, TakenOnce
  <2>8. InboxIsLater'
    BY <1>1 DEF Queues, InboxIsLater
  <2>9. QueuesAscend'
    BY <1>1, <1>5, StrandLemma DEF Queues, QueuesAscend
  <2>10. HandedBefore'
    <3>1. ASSUME NEW n \in 1..Len(handed)
          PROVE  IF handed[n].by = "agent"
                 THEN \A q \in Peers : \A j \in Taken(q)' : sent[handed[n].msg].sender = q => handed[n].msg < j
                 ELSE \A j \in ToSet(pendingMentions) \cup Taken(Main)' : handed[n].msg < j
      BY <2>4, <2>6, StrandLemma DEF Queues, HandedBefore
    <3> QED
      BY <1>1, <2>1, <2>4, <2>5, <2>6, <3>1 DEF HandedBefore
  <2>11. HandedInOrder'
    <3>1. \A n \in 1..Len(handed) : handed[n].by = "agent" /\ sent[handed[n].msg].sender = p => handed[n].msg < x
      BY <1>7, <2>4 DEF Queues, HandedBefore
    <3>2. \A m, n \in 1..Len(handed) : m < n =>
            /\ handed[m].by # "agent" /\ handed[n].by # "agent" => handed[m].msg < handed[n].msg
            /\ /\ handed[m].by = "agent" /\ handed[n].by = "agent"
               /\ sent[handed[m].msg].sender = sent[handed[n].msg].sender
               => handed[m].msg < handed[n].msg
      BY <2>4 DEF Queues, HandedInOrder
    <3> SUFFICES ASSUME NEW m \in 1..(Len(handed) + 1), NEW n \in 1..(Len(handed) + 1), m < n
                 PROVE  /\ handed'[m].by # "agent" /\ handed'[n].by # "agent" => handed'[m].msg < handed'[n].msg
                        /\ /\ handed'[m].by = "agent" /\ handed'[n].by = "agent"
                           /\ sent[handed'[m].msg].sender = sent[handed'[n].msg].sender
                           => handed'[m].msg < handed'[n].msg
      BY <1>1, <2>4 DEF HandedInOrder
    <3>3. m \in 1..Len(handed) /\ handed'[m] = handed[m]
      BY <2>4
    <3>4. CASE n \in 1..Len(handed)
      BY <2>4, <3>2, <3>3, <3>4
    <3>5. CASE n = Len(handed) + 1
      BY <2>1, <2>4, <2>5, <3>1, <3>3, <3>5
    <3> QED
      BY <2>4, <3>4, <3>5
  <2> QED
    BY <2>7, <2>8, <2>9, <2>10, <2>11 DEF Queues
<1> QED
  BY <1>3, <1>6, <1>7

LEMMA SentLemma ==
  ASSUME ClientShape
  PROVE  Len(sent) \in Nat /\ DOMAIN sent = 1..Len(sent) /\ DOMAIN carried = 1..Len(sent)
  BY LenProperties DEF ClientShape, ClientTypes

LEMMA PostQueues == ASSUME ClientShape, Queues, Post PROVE Queues'
<1>1. /\ sent' = Append(sent, scenario[Len(sent) + 1]) /\ Len(sent) < Len(scenario)
      /\ inbox' = Append(inbox, Len(sent) + 1) /\ carried' = Append(carried, "idle")
      /\ UNCHANGED <<call, answer, pendingMentions, handed>>
  BY DEF Post
<1>2. Len(sent) \in Nat /\ DOMAIN sent = 1..Len(sent) /\ DOMAIN carried = 1..Len(sent)
  BY SentLemma
<1> DEFINE N == Len(sent) + 1
<1>3. DOMAIN sent' = 1..N /\ \A i \in DOMAIN sent : sent'[i] = sent[i]
  <2>1. PICK m \in Message : m = scenario[Len(sent) + 1]
    <3>1. scenario \in Seq(Message) /\ Len(scenario) \in Nat
      BY LenProperties DEF ClientShape, ClientTypes
    <3>2. Len(sent) + 1 \in 1..Len(scenario)
      BY <1>1, <1>2, <3>1
    <3> QED
      BY <3>1, <3>2, ElementOfSeq
  <2>2. sent \in Seq(Message)
    BY DEF ClientShape, ClientTypes
  <2> QED
    BY <1>1, <1>2, <2>1, <2>2, GrowsLemma
<1>4. carried'[N] = "idle" /\ \A i \in DOMAIN sent : carried'[i] = carried[i]
  <2>1. carried \in Seq(Waits \cup {"idle"}) /\ Len(carried) = Len(sent)
    BY DEF ClientShape, ClientTypes
  <2> QED
    BY <1>1, <1>2, <2>1, GrowsLemma
<1>5. inbox \in Seq(Nat) /\ N \in Nat /\ \A i \in ToSet(inbox) : i \in DOMAIN sent /\ i < N
  BY <1>2 DEF ClientShape, ClientTypes, Queues, TakenOnce
<1>6. ToSet(inbox') = ToSet(inbox) \cup {N} /\ (Ascending(inbox) => Ascending(inbox'))
  BY <1>1, <1>5, AppendLemma
<1>7. \A s \in Strands : Taken(s)' = Taken(s) /\ Batched(s)' = Batched(s)
  BY <1>1 DEF Taken, Batched, Contents
<1> HIDE DEF N
<1>8. /\ \A i \in DOMAIN sent : i \in DOMAIN sent' /\ i < N
      /\ \A i \in DOMAIN sent' : i \in DOMAIN sent \/ i = N
      /\ N \in DOMAIN sent' /\ N \notin DOMAIN sent
  BY <1>2, <1>3 DEF N
<1>9. TakenOnce'
  <2>1. ToSet(inbox') = {i \in DOMAIN sent' : carried'[i] = "idle"}
    BY <1>4, <1>6, <1>8 DEF Queues, TakenOnce
  <2>2. \A i \in ToSet(pendingMentions) \cup Taken(Main) : i \in DOMAIN sent' /\ carried'[i] \in MainWaits
    BY <1>4, <1>8 DEF Queues, TakenOnce
  <2>3. \A p \in Peers : \A i \in Taken(p) : i \in DOMAIN sent' /\ carried'[i] = "agent" /\ sent'[i].sender = p
    BY <1>3, <1>4, <1>8 DEF Queues, TakenOnce
  <2>4. \A n \in DOMAIN handed :
          /\ handed[n].msg \in DOMAIN sent'
          /\ carried'[handed[n].msg] \in IF handed[n].by = "agent" THEN {"agent"} ELSE MainWaits
    BY <1>4, <1>8 DEF Queues, TakenOnce
  <2>5. handed' = handed /\ pendingMentions' = pendingMentions
    BY <1>1
  <2>6. Taken(Main)' = Taken(Main) /\ \A p \in Peers : Taken(p)' = Taken(p)
    BY <1>7, StrandLemma
  <2> QED
    BY <2>1, <2>2, <2>3, <2>4, <2>5, <2>6 DEF TakenOnce
<1>10. InboxIsLater'
  <2> SUFFICES ASSUME NEW i \in DOMAIN sent', NEW j \in DOMAIN sent', carried'[j] = "idle"
               PROVE  /\ carried'[i] \in MainWaits => i < j
                      /\ carried'[i] = "agent" /\ sent'[i].sender = sent'[j].sender => i < j
    BY DEF InboxIsLater
  <2>1. CASE i = N
    BY <1>4, <2>1 DEF MainWaits
  <2>2. CASE i \in DOMAIN sent /\ j = N
    BY <1>8, <2>2
  <2>3. CASE i \in DOMAIN sent /\ j \in DOMAIN sent
    BY <1>3, <1>4, <2>3 DEF Queues, InboxIsLater
  <2> QED
    BY <1>8, <2>1, <2>2, <2>3
<1>11. QueuesAscend'
  BY <1>1, <1>6, <1>7, StrandLemma DEF Queues, QueuesAscend
<1>12. \A n \in DOMAIN handed : sent'[handed[n].msg] = sent[handed[n].msg]
  BY <1>3 DEF Queues, TakenOnce
<1>13. HandedBefore'
  BY <1>1, <1>7, <1>12, StrandLemma DEF Queues, HandedBefore
<1>14. HandedInOrder'
  <2>1. handed' = handed
    BY <1>1
  <2> SUFFICES ASSUME NEW m \in DOMAIN handed, NEW n \in DOMAIN handed, m < n
               PROVE  /\ handed[m].by # "agent" /\ handed[n].by # "agent" => handed[m].msg < handed[n].msg
                      /\ /\ handed[m].by = "agent" /\ handed[n].by = "agent"
                         /\ sent'[handed[m].msg].sender = sent'[handed[n].msg].sender
                         => handed[m].msg < handed[n].msg
    BY <2>1 DEF HandedInOrder
  <2> QED
    BY <1>12 DEF Queues, HandedInOrder
<1> QED
  BY <1>9, <1>10, <1>11, <1>13, <1>14 DEF Queues

(* A strand's answer takes what it wants of the inbox, from its front.        *)
LEMMA DeliverLemma ==
  ASSUME ClientShape, Queues, NEW s \in Strands, Deliver(s)
  PROVE  /\ call[s].kind \in Waits /\ (call[s].kind # "agent" => pendingMentions = <<>>)
         /\ UNCHANGED <<sent, call, pendingMentions, handed>>
         /\ \E batch \in Seq(Nat) :
              /\ answer' = [answer EXCEPT ![s] = <<batch>>] /\ batch # <<>> /\ Ascending(batch)
              /\ ToSet(batch) \subseteq ToSet(inbox)
              /\ call[s].kind = "agent" => \A i \in ToSet(batch) : sent[i].sender = call[s].for
              /\ ToSet(inbox') = ToSet(inbox) \ ToSet(batch) /\ Ascending(inbox')
              /\ \A i \in DOMAIN sent : carried'[i] = IF i \in ToSet(batch) THEN call[s].kind ELSE carried[i]
              /\ \A i \in ToSet(batch), j \in ToSet(inbox) \ ToSet(batch) :
                   call[s].kind # "agent" \/ sent[j].sender = call[s].for => i < j
<1>1. PICK n \in 1..Len(Wanted(s)) :
        /\ answer' = [answer EXCEPT ![s] = <<SubSeq(Wanted(s), 1, n)>>]
        /\ inbox' = Only(inbox, DOMAIN sent \ ToSet(SubSeq(Wanted(s), 1, n)))
        /\ carried' = [i \in DOMAIN carried |-> IF i \in ToSet(SubSeq(Wanted(s), 1, n)) THEN call[s].kind ELSE carried[i]]
  BY DEF Deliver
<1>2. /\ call[s].kind \in Waits /\ (call[s].kind # "agent" => pendingMentions = <<>>)
      /\ UNCHANGED <<sent, call, pendingMentions, handed>>
  BY DEF Deliver, Asked
<1>3. /\ Wanted(s) \in Seq(Nat) /\ Ascending(Wanted(s)) /\ inbox \in Seq(Nat) /\ Ascending(inbox)
      /\ ToSet(Wanted(s)) = IF call[s].kind = "agent" THEN ToSet(inbox) \cap From(call[s].for) ELSE ToSet(inbox)
  BY WantedLemma DEF Queues, QueuesAscend, ClientShape, ClientTypes
<1>4. PICK batch \in Seq(Nat) :
        /\ batch = SubSeq(Wanted(s), 1, n) /\ batch # <<>> /\ Ascending(batch)
        /\ ToSet(batch) \subseteq ToSet(Wanted(s))
        /\ \A i \in ToSet(batch), j \in ToSet(Wanted(s)) \ ToSet(batch) : i < j
  BY <1>3, PrefixLemma
<1>5. ToSet(inbox) \subseteq DOMAIN sent
  BY DEF Queues, TakenOnce
<1>6. ToSet(inbox') = ToSet(inbox) \ ToSet(batch) /\ Ascending(inbox')
  BY <1>1, <1>3, <1>4, <1>5, OnlyLemma
<1>7. \A i \in DOMAIN sent : carried'[i] = IF i \in ToSet(batch) THEN call[s].kind ELSE carried[i]
  BY <1>1, <1>4, SentLemma
<1>8. \A j \in ToSet(inbox) : j \in ToSet(Wanted(s)) <=> call[s].kind # "agent" \/ sent[j].sender = call[s].for
  BY <1>3, <1>5 DEF From
<1>9. \A i \in ToSet(batch), j \in ToSet(inbox) \ ToSet(batch) :
        call[s].kind # "agent" \/ sent[j].sender = call[s].for => i < j
  BY <1>4, <1>8
<1>10. call[s].kind = "agent" => \A i \in ToSet(batch) : sent[i].sender = call[s].for
  BY <1>3, <1>4 DEF From
<1>11. ToSet(batch) \subseteq ToSet(inbox)
  BY <1>3, <1>4
<1> QED
  BY <1>1, <1>2, <1>4, <1>6, <1>7, <1>9, <1>10, <1>11

LEMMA DeliverQueues == ASSUME ClientShape, Queues, NEW s \in Strands, Deliver(s) PROVE Queues'
<1>1. /\ call[s].kind \in Waits /\ (call[s].kind # "agent" => pendingMentions = <<>>)
      /\ UNCHANGED <<sent, call, pendingMentions, handed>>
  BY DeliverLemma
<1>2. PICK batch \in Seq(Nat) :
        /\ answer' = [answer EXCEPT ![s] = <<batch>>] /\ batch # <<>> /\ Ascending(batch)
        /\ ToSet(batch) \subseteq ToSet(inbox)
        /\ call[s].kind = "agent" => \A i \in ToSet(batch) : sent[i].sender = call[s].for
        /\ ToSet(inbox') = ToSet(inbox) \ ToSet(batch) /\ Ascending(inbox')
        /\ \A i \in DOMAIN sent : carried'[i] = IF i \in ToSet(batch) THEN call[s].kind ELSE carried[i]
        /\ \A i \in ToSet(batch), j \in ToSet(inbox) \ ToSet(batch) :
             call[s].kind # "agent" \/ sent[j].sender = call[s].for => i < j
  BY DeliverLemma
<1>3. /\ (s = Main => call[s].kind \in MainWaits)
      /\ (s \in Peers => call[s].kind = "agent" /\ call[s].for = s)
      /\ (s # Main => s \in Peers)
  BY <1>1 DEF ClientShape, StrandsCall, Waits, MainWaits, Strands
<1>4. answer'[s] = <<batch>> /\ \A r \in Strands \ {s} : answer'[r] = answer[r]
  BY <1>2 DEF ClientShape, ClientTypes
<1>5. Taken(s)' = ToSet(batch) /\ \A r \in Strands \ {s} : Taken(r)' = Taken(r) /\ Batched(r)' = Batched(r)
  BY <1>1, <1>4, ContentsLemma DEF Taken, Batched, Contents
<1>6. \A i \in DOMAIN sent : i \in ToSet(inbox) <=> carried[i] = "idle"
  BY DEF Queues, TakenOnce
<1>7. ToSet(inbox) \subseteq DOMAIN sent
  BY DEF Queues, TakenOnce
<1>8. call[s].kind # "idle"
  BY <1>1 DEF Waits
<1>9. \A i \in DOMAIN sent : carried[i] # "idle" => carried'[i] = carried[i]
  BY <1>2, <1>6
<1>10. TakenOnce'
  <2>1. ToSet(inbox') = {i \in DOMAIN sent : carried'[i] = "idle"}
    BY <1>2, <1>6, <1>7, <1>8
  <2>2. \A i \in ToSet(pendingMentions) \cup Taken(Main)' : i \in DOMAIN sent /\ carried'[i] \in MainWaits
    <3>1. ASSUME NEW i \in ToSet(pendingMentions) \cup Taken(Main)
          PROVE  i \in DOMAIN sent /\ carried'[i] \in MainWaits
      <4>1. i \in DOMAIN sent /\ carried[i] \in MainWaits
        BY DEF Queues, TakenOnce
      <4> QED
        BY <1>9, <4>1 DEF MainWaits
    <3>2. CASE s = Main
      BY <1>2, <1>3, <1>5, <1>7, <3>1, <3>2
    <3>3. CASE s # Main
      BY <1>5, <3>1, <3>3, StrandLemma
    <3> QED
      BY <3>2, <3>3
  <2>3. ASSUME NEW p \in Peers, NEW i \in Taken(p)'
        PROVE  i \in DOMAIN sent /\ carried'[i] = "agent" /\ sent[i].sender = p
    <3>1. CASE p = s
      BY <1>2, <1>3, <1>5, <1>7, <2>3, <3>1
    <3>2. CASE p # s
      <4>1. i \in Taken(p)
        BY <1>5, <2>3, <3>2, StrandLemma
      <4>2. i \in DOMAIN sent /\ carried[i] = "agent" /\ sent[i].sender = p
        BY <4>1 DEF Queues, TakenOnce
      <4> QED
        BY <1>9, <4>2
    <3> QED
      BY <3>1, <3>2
  <2>4. ASSUME NEW n \in DOMAIN handed
        PROVE  /\ handed[n].msg \in DOMAIN sent
               /\ carried'[handed[n].msg] \in IF handed[n].by = "agent" THEN {"agent"} ELSE MainWaits
    <3>1. /\ handed[n].msg \in DOMAIN sent
          /\ carried[handed[n].msg] \in IF handed[n].by = "agent" THEN {"agent"} ELSE MainWaits
      BY DEF Queues, TakenOnce
    <3> QED
      BY <1>9, <3>1 DEF MainWaits
  <2> QED
    BY <1>1, <2>1, <2>2, <2>3, <2>4 DEF TakenOnce
<1>11. InboxIsLater'
  <2> SUFFICES ASSUME NEW i \in DOMAIN sent, NEW j \in DOMAIN sent, carried'[j] = "idle"
               PROVE  /\ carried'[i] \in MainWaits => i < j
                      /\ carried'[i] = "agent" /\ sent[i].sender = sent[j].sender => i < j
    BY <1>1 DEF InboxIsLater
  <2>1. j \in ToSet(inbox) \ ToSet(batch) /\ carried[j] = "idle"
    BY <1>2, <1>6, <1>8
  <2>2. CASE i \in ToSet(batch)
    BY <1>2, <1>3, <2>1, <2>2 DEF MainWaits
  <2>3. CASE i \notin ToSet(batch)
    BY <1>2, <2>1, <2>3 DEF Queues, InboxIsLater
  <2> QED
    BY <2>2, <2>3
<1>12. QueuesAscend'
  <2>1. \A r \in Strands : Batched(r)' => Head(answer'[r]) # <<>> /\ Ascending(Head(answer'[r]))
    BY <1>2, <1>4, <1>5 DEF Queues, QueuesAscend
  <2>2. Batched(Main)' => pendingMentions = <<>>
    BY <1>1, <1>3, <1>5, StrandLemma DEF Queues, QueuesAscend, MainWaits
  <2> QED
    BY <1>1, <1>2, <2>1, <2>2 DEF Queues, QueuesAscend
<1>13. HandedBefore'
  <2> SUFFICES ASSUME NEW n \in DOMAIN handed
               PROVE  IF handed[n].by = "agent"
                      THEN \A p \in Peers : \A j \in Taken(p)' : sent[handed[n].msg].sender = p => handed[n].msg < j
                      ELSE \A j \in ToSet(pendingMentions) \cup Taken(Main)' : handed[n].msg < j
    BY <1>1 DEF HandedBefore
  <2>1. /\ handed[n].msg \in DOMAIN sent
        /\ carried[handed[n].msg] \in IF handed[n].by = "agent" THEN {"agent"} ELSE MainWaits
    BY DEF Queues, TakenOnce
  <2>2. IF handed[n].by = "agent"
        THEN \A p \in Peers : \A j \in Taken(p) : sent[handed[n].msg].sender = p => handed[n].msg < j
        ELSE \A j \in ToSet(pendingMentions) \cup Taken(Main) : handed[n].msg < j
    BY DEF Queues, HandedBefore
  <2>3. \A j \in ToSet(batch) : j \in DOMAIN sent /\ carried[j] = "idle"
    BY <1>2, <1>6, <1>7
  <2>4. CASE handed[n].by = "agent"
    <3> SUFFICES ASSUME NEW p \in Peers, NEW j \in Taken(p)', sent[handed[n].msg].sender = p
                 PROVE  handed[n].msg < j
      BY <2>4
    <3>1. CASE p = s
      <4>1. j \in ToSet(batch) /\ sent[j].sender = p
        BY <1>2, <1>3, <1>5, <3>1
      <4> QED
        BY <2>1, <2>3, <2>4, <4>1 DEF Queues, InboxIsLater
    <3>2. CASE p # s
      BY <1>5, <2>2, <2>4, <3>2, StrandLemma
    <3> QED
      BY <3>1, <3>2
  <2>5. CASE handed[n].by # "agent"
    <3> SUFFICES ASSUME NEW j \in ToSet(pendingMentions) \cup Taken(Main)'
                 PROVE  handed[n].msg < j
      BY <2>5
    <3>1. CASE j \in ToSet(batch)
      BY <2>1, <2>3, <2>5, <3>1 DEF Queues, InboxIsLater
    <3>2. CASE j \notin ToSet(batch)
      BY <1>5, <2>2, <2>5, <3>2, StrandLemma
    <3> QED
      BY <3>1, <3>2
  <2> QED
    BY <2>4, <2>5
<1>14. HandedInOrder'
  BY <1>1 DEF Queues, HandedInOrder
<1> QED
  BY <1>10, <1>11, <1>12, <1>13, <1>14 DEF Queues

(* What no wait takes, drops or hands out.                                    *)
Calm ==
  /\ UNCHANGED <<sent, inbox, pendingMentions, handed, carried>>
  /\ awaited \subseteq awaited' /\ broken.messages \subseteq broken'.messages
  /\ exiting = "exited" => exiting' = "exited"
  /\ \A s \in Strands : (call'[s] = call[s] /\ answer'[s] = answer[s]) \/ (~Batched(s) /\ ~Batched(s)')

LEMMA CalmStrand ==
  ASSUME ClientShape, NEW s \in Strands, NEW c, call' = [call EXCEPT ![s] = c],
         answer' = answer \/ \E a : answer' = [answer EXCEPT ![s] = a],
         (answer[s] = <<>> /\ answer'[s] = <<>>) \/ (call[s].kind \notin Waits /\ c.kind \notin Waits),
         UNCHANGED <<sent, inbox, pendingMentions, handed, carried, exiting, broken>>, awaited \subseteq awaited'
  PROVE  Calm
<1>1. call'[s] = c /\ \A r \in Strands \ {s} : call'[r] = call[r] /\ answer'[r] = answer[r]
  BY DEF ClientShape, ClientTypes
<1> QED
  BY <1>1 DEF Calm, Batched

LEMMA CalmSteps ==
  ASSUME ClientShape,
         \/ WaitForMention \/ CreateThread \/ \E t \in Threads : WaitForMentionInThread(t)
         \/ \E p \in Peers : WaitForAgent(p) \/ TimeUp(p)
         \/ TimeUp(Main) \/ Expire \/ Handled \/ HandlerThrows \/ GoOn
         \/ ReceiveThread \/ OpenThread \/ Connect \/ Shutdown \/ CloseThread \/ UNCHANGED clientVars
  PROVE  Calm
<1>1. CASE \/ WaitForMention \/ CreateThread \/ (\E t \in Threads : WaitForMentionInThread(t))
           \/ \E p \in Peers : WaitForAgent(p)
  <2>1. /\ UNCHANGED <<server, responder, answer, pendingMentions, lastThread, exiting, handed, carried, broken>>
        /\ awaited \subseteq awaited'
    BY <1>1, EnterLemma
  <2>2. PICK s \in Strands, c \in Calls : call' = [call EXCEPT ![s] = c] /\ answer[s] = <<>>
    BY <1>1, EnterLemma
  <2> QED
    BY <2>1, <2>2, CalmStrand DEF server
<1>2. CASE \/ TimeUp(Main) \/ (\E p \in Peers : TimeUp(p)) \/ Expire \/ Handled \/ HandlerThrows \/ GoOn
  <2>1. UNCHANGED <<server, responder, answer, pendingMentions, lastThread, exiting, handed, carried, awaited, broken>>
    BY <1>2, StopLemma
  <2>2. PICK s \in Strands, c \in Calls : call' = [call EXCEPT ![s] = c] /\ answer[s] = <<>>
    BY <1>2, StopLemma
  <2> QED
    BY <2>1, <2>2, CalmStrand DEF server
<1>3. CASE ReceiveThread
  <2>1. /\ call[Main].kind = "create" /\ answer' = [answer EXCEPT ![Main] = <<>>] /\ call' = [call EXCEPT ![Main] = Free]
        /\ UNCHANGED <<sent, inbox, pendingMentions, handed, carried, exiting, broken>> /\ awaited' = awaited
    BY <1>3 DEF ReceiveThread, Answered, Return, server, history
  <2>2. Free.kind \notin Waits /\ "create" \notin Waits
    BY DEF Free, Waits
  <2> QED
    BY <2>1, <2>2, StrandLemma, CalmStrand
<1>4. CASE OpenThread
  <2>1. /\ call[Main].kind = "create" /\ answer' = [answer EXCEPT ![Main] = <<<<opened + 1>>>>] /\ call' = call
        /\ UNCHANGED <<sent, inbox, pendingMentions, handed, carried, exiting, broken>> /\ awaited' = awaited
    BY <1>4 DEF OpenThread, history
  <2>2. call' = [call EXCEPT ![Main] = call[Main]] /\ "create" \notin Waits
    BY <2>1 DEF ClientShape, ClientTypes, Waits
  <2> QED
    BY <2>1, <2>2, StrandLemma, CalmStrand
<1>5. CASE Connect \/ Shutdown \/ CloseThread \/ UNCHANGED clientVars
  <2>1. /\ UNCHANGED <<sent, inbox, pendingMentions, handed, carried, call, answer, awaited>>
        /\ (exiting = "exited" => exiting' = "exited")
    BY <1>5 DEF Connect, Shutdown, CloseThread, clientVars, server, history
  <2>2. broken.messages \subseteq broken'.messages
    <3>1. CASE broken' = broken
      BY <3>1
    <3>2. CASE broken' = [broken EXCEPT !.times = @ + 1, !.threads = @ \cup {lastThread}]
      BY <3>2 DEF ClientShape, ClientTypes
    <3> QED
      BY <1>5, <3>1, <3>2 DEF Connect, Shutdown, CloseThread, clientVars, history
  <2> QED
    BY <2>1, <2>2 DEF Calm
<1> QED
  BY <1>1, <1>2, <1>3, <1>4, <1>5

LEMMA BreakLemma ==
  ASSUME ClientShape, NEW s \in Strands, Break(s)
  PROVE  /\ UNCHANGED <<sent, inbox, pendingMentions, handed, carried, exiting, awaited, opened, closed, lastThread>>
         /\ ~Batched(s)' /\ answer'[s] = <<>> /\ Taken(s) \subseteq broken'.messages
         /\ \A r \in Strands \ {s} : call'[r] = call[r] /\ answer'[r] = answer[r]
         /\ broken.messages \subseteq broken'.messages /\ broken.threads \subseteq broken'.threads
         /\ call[s].kind = "create" => Contents(answer[s]) \subseteq broken'.threads
         /\ call[s].kind # "ended"
<1>1. /\ call[s].kind \in Waits \cup {"create", "reply"} /\ Throw(s) /\ answer' = [answer EXCEPT ![s] = <<>>]
      /\ UNCHANGED <<server, responder, pendingMentions, lastThread, exiting, handed, carried, awaited>>
      /\ broken' = [times    |-> broken.times + 1,
                    messages |-> broken.messages \cup IF call[s].kind \in Waits THEN Contents(answer[s]) ELSE {},
                    threads  |-> broken.threads \cup IF call[s].kind = "create" THEN Contents(answer[s]) ELSE {}]
  BY DEF Break
<1>2. answer'[s] = <<>> /\ \A r \in Strands \ {s} : call'[r] = call[r] /\ answer'[r] = answer[r]
  BY <1>1 DEF ClientShape, ClientTypes, Throw, Return
<1> QED
  BY <1>1, <1>2 DEF server, Batched, Taken, Waits

LEMMA NextQueues ==
  ASSUME ClientShape, Queues, [ClientNext]_clientVars
  PROVE  Queues'
<1>1. CASE Calm
  BY <1>1, QuietQueues DEF Calm, Quiet, Batched
<1>2. CASE Exit
  <2>1. UNCHANGED <<sent, inbox, pendingMentions, handed, carried, answer>> /\ \A s \in Strands : call'[s].kind = "ended"
    BY <1>2 DEF Exit, server, history
  <2> QED
    BY <2>1, QuietQueues DEF Quiet, Batched, Waits
<1>3. ASSUME NEW s \in Strands, Break(s) PROVE Queues'
  <2>1. /\ UNCHANGED <<sent, inbox, pendingMentions, handed, carried>> /\ ~Batched(s)'
        /\ \A r \in Strands \ {s} : call'[r] = call[r] /\ answer'[r] = answer[r]
    BY <1>3, BreakLemma
  <2>2. \A r \in Strands : Batched(r)' => Batched(r) /\ answer'[r] = answer[r]
    BY <2>1 DEF Batched
  <2> QED
    BY <2>1, <2>2, QuietQueues DEF Quiet
<1>4. CASE Step
  BY <1>1, <1>2, <1>4, CalmSteps, TakePendingQueues, ReceiveMentionsQueues, ReceiveFromAgentQueues DEF Step, Disconnect
<1>5. CASE Shutdown \/ FailToConnect \/ Post \/ OpenThread \/ UNCHANGED clientVars
  BY <1>1, <1>2, <1>5, CalmSteps, PostQueues DEF FailToConnect
<1>6. ASSUME NEW s \in Strands, Deliver(s) \/ TimeUp(s) PROVE Queues'
  BY <1>1, <1>6, CalmSteps, DeliverQueues DEF Strands
<1> QED
  BY <1>3, <1>4, <1>5, <1>6 DEF ClientNext

-----------------------------------------------------------------------------
(* What becomes of the messages.                                              *)

(* A wait for another thread, or an earlier message of the same sender in an  *)
(* answer to a wait for it.                                                   *)
Excused(i) ==
  \/ carried[i] # "agent" /\ \E t \in awaited : t # sent[i].thread
  \/ carried[i] = "agent" /\ \E j \in 1..i-1 : sent[j].sender = sent[i].sender /\ carried[j] = "agent"

LEMMA LostMeans ==
  LostForAReason <=> (exiting # "exited" =>
    \A i \in DOMAIN sent : sent[i].text => i \in Given \cup Held \cup broken.messages \/ Excused(i))
  BY DEF LostForAReason, Excused, HasText

LEMMA HeldMeans ==
  /\ \A i : i \in Held <=> i \in ToSet(inbox) \/ i \in ToSet(pendingMentions) \/ \E s \in Strands : i \in Taken(s)
  /\ \A i : i \in Held' <=> i \in ToSet(inbox') \/ i \in ToSet(pendingMentions') \/ \E s \in Strands : i \in Taken(s)'
  BY DEF Held, Taken

LEMMA Kept ==
  ASSUME LostForAReason, UNCHANGED <<sent, carried>>, awaited \subseteq awaited', Given \subseteq Given',
         broken.messages \subseteq broken'.messages, exiting = "exited" => exiting' = "exited",
         \A i \in Held : i \in DOMAIN sent /\ sent[i].text => i \in Given' \cup Held' \cup broken'.messages \/ Excused(i)'
  PROVE  LostForAReason'
<1>1. exiting' # "exited" => \A i \in DOMAIN sent : sent[i].text => i \in Given \cup Held \cup broken.messages \/ Excused(i)
  BY LostMeans
<1>2. \A i : Excused(i) => Excused(i)'
  BY DEF Excused
<1>3. (exiting' # "exited" =>
        \A i \in DOMAIN sent' : sent'[i].text => i \in Given' \cup Held' \cup broken'.messages \/ Excused(i)')
  BY <1>1, <1>2
<1> QED
  BY <1>3 DEF LostForAReason, Excused, HasText

LEMMA GivenLemma ==
  ASSUME ClientShape, NEW h \in [msg : Nat, by : Waits], handed' = Append(handed, h)
  PROVE  Given' = Given \cup {h.msg}
<1>1. handed \in Seq([msg : Nat, by : Waits])
  BY DEF ClientShape, ClientTypes
<1>2. /\ Len(handed) \in Nat /\ DOMAIN handed = 1..Len(handed) /\ DOMAIN handed' = 1..(Len(handed) + 1)
      /\ handed'[Len(handed) + 1] = h /\ \A n \in 1..Len(handed) : handed'[n] = handed[n]
  BY <1>1, GrowsLemma
<1> QED
  BY <1>2 DEF Given

LEMMA CalmLost == ASSUME LostForAReason, Calm PROVE LostForAReason'
<1>1. \A s \in Strands : Taken(s) \subseteq Taken(s)'
  <2> SUFFICES ASSUME NEW s \in Strands PROVE Taken(s) \subseteq Taken(s)'
    OBVIOUS
  <2>1. CASE call'[s] = call[s] /\ answer'[s] = answer[s]
    BY <2>1 DEF Taken, Contents
  <2>2. CASE ~Batched(s)
    BY <2>2, ContentsLemma DEF Taken, Batched
  <2> QED
    BY <2>1, <2>2 DEF Calm
<1>2. Given' = Given /\ Held \subseteq Held'
  BY <1>1, HeldMeans DEF Given, Calm
<1> QED
  BY <1>2, Kept DEF Calm

LEMMA BreakLost == ASSUME ClientShape, LostForAReason, NEW s \in Strands, Break(s) PROVE LostForAReason'
<1>1. /\ UNCHANGED <<sent, inbox, pendingMentions, handed, carried, exiting, awaited>>
      /\ Taken(s) \subseteq broken'.messages /\ broken.messages \subseteq broken'.messages
      /\ \A r \in Strands \ {s} : call'[r] = call[r] /\ answer'[r] = answer[r]
  BY BreakLemma
<1>2. \A r \in Strands \ {s} : Taken(r)' = Taken(r)
  BY <1>1 DEF Taken, Contents
<1>3. Given' = Given /\ \A i \in Held : i \in Held' \cup broken'.messages
  BY <1>1, <1>2, HeldMeans DEF Given
<1> QED
  BY <1>1, <1>3, Kept

(* The main strand is handed the first of the mentions it has, or passes over *)
(* it for the thread it waits for.                                            *)
LEMMA HandLost ==
  ASSUME ClientShape, Queues, LostForAReason, NEW mentions \in Seq(Nat), mentions # <<>>,
         \A i \in ToSet(pendingMentions) \cup Taken(Main) : i \in DOMAIN sent /\ sent[i].text => i \in ToSet(mentions),
         ToSet(mentions) \subseteq ToSet(pendingMentions) \cup Taken(Main),
         call[Main].kind \in MainWaits, Hand(Main, Head(mentions)), pendingMentions' = Tail(mentions),
         \A p \in Peers : answer'[p] = answer[p],
         UNCHANGED <<sent, inbox, carried, awaited, broken, exiting>>
  PROVE  LostForAReason'
<1> DEFINE x == Head(mentions)
<1>1. x \in Nat /\ ToSet(mentions) = {x} \cup ToSet(pendingMentions')
  BY HeadLemma
<1> HIDE DEF x
<1>2. PICK c \in Calls :
        /\ call' = [call EXCEPT ![Main] = c]
        /\ \/ c = call[Main] /\ c.kind = "inThread" /\ sent[x].thread # c.for /\ handed' = handed
           \/ handed' = Append(handed, [msg |-> x, by |-> call[Main].kind])
  BY <1>1, StrandLemma, HandLemma DEF MainWaits, Waits, x
<1>3. \A p \in Peers : Taken(p)' = Taken(p)
  BY <1>2, StrandLemma DEF Taken, Contents, ClientShape, ClientTypes
<1>4. Given \subseteq Given' /\ (x \in Given' \/ Excused(x)')
  <2>1. CASE c = call[Main] /\ c.kind = "inThread" /\ sent[x].thread # c.for /\ handed' = handed
    <3>1. call[Main].for \in awaited
      BY <2>1 DEF ClientShape, StrandsCall
    <3>2. carried[x] # "agent"
      BY <1>1 DEF Queues, TakenOnce, MainWaits
    <3> QED
      BY <2>1, <3>1, <3>2 DEF Excused, Given
  <2>2. CASE handed' = Append(handed, [msg |-> x, by |-> call[Main].kind])
    <3>1. PICK h \in [msg : Nat, by : Waits] : h = [msg |-> x, by |-> call[Main].kind]
      BY <1>1 DEF MainWaits, Waits
    <3> QED
      BY <2>2, <3>1, GivenLemma
  <2> QED
    BY <1>2, <2>1, <2>2
<1>5. ASSUME NEW i \in Held, i \in DOMAIN sent, sent[i].text
      PROVE  i \in Given' \cup Held' \/ Excused(i)'
  <2>1. CASE i \in ToSet(inbox) \/ \E p \in Peers : i \in Taken(p)
    BY <1>3, <2>1, HeldMeans, StrandLemma
  <2>2. CASE i \in ToSet(pendingMentions) \cup Taken(Main)
    BY <1>1, <1>4, <1>5, <2>2, HeldMeans
  <2> QED
    BY <1>5, <2>1, <2>2, HeldMeans DEF Strands
<1> QED
  BY <1>4, <1>5, Kept

LEMMA TakePendingLost == ASSUME ClientShape, Queues, LostForAReason, TakePending PROVE LostForAReason'
<1>1. /\ call[Main].kind \in MainWaits /\ pendingMentions # <<>> /\ pendingMentions' = Tail(pendingMentions)
      /\ Hand(Main, Head(pendingMentions)) /\ pendingMentions \in Seq(Nat)
      /\ UNCHANGED <<sent, inbox, carried, answer, awaited, broken, exiting>>
  BY DEF TakePending, MainWaits, ClientShape, ClientTypes, server
<1>2. Taken(Main) = {}
  <2>1. answer[Main] = <<>>
    BY <1>1 DEF Queues, QueuesAscend, Batched, MainWaits, Waits
  <2> QED
    BY <2>1, ContentsLemma DEF Taken
<1> QED
  BY <1>1, <1>2, HandLost

LEMMA ReceiveMentionsLost == ASSUME ClientShape, Queues, LostForAReason, ReceiveMentions PROVE LostForAReason'
<1>1. /\ call[Main].kind \in MainWaits /\ answer[Main] # <<>> /\ answer' = [answer EXCEPT ![Main] = <<>>]
      /\ UNCHANGED <<sent, inbox, carried, awaited, broken, exiting>>
  BY DEF ReceiveMentions, MainWaits, Answered, server
<1>2. PICK batch \in Seq(Nat) : Head(answer[Main]) = batch /\ Contents(answer[Main]) = ToSet(batch)
  BY <1>1, AnswerLemma, StrandLemma
<1>3. PICK mentions \in Seq(Nat) : mentions = Parsed(Head(answer[Main]))
  BY <1>2, OnlyLemma DEF Parsed
<1>4. Taken(Main) = ToSet(batch) /\ pendingMentions = <<>> /\ ToSet(pendingMentions) = {}
  BY <1>1, <1>2 DEF Queues, QueuesAscend, Batched, MainWaits, Waits, Taken, ToSet
<1>5. ToSet(mentions) = {i \in Taken(Main) : i \in DOMAIN sent /\ sent[i].text}
  BY <1>2, <1>3, <1>4, OnlyLemma DEF Parsed, HasText
<1>6. \A p \in Peers : answer'[p] = answer[p]
  BY <1>1, StrandLemma DEF ClientShape, ClientTypes
<1>7. CASE mentions = <<>>
  <2>1. UNCHANGED <<pendingMentions, handed>> /\ (call' = call \/ call' = [call EXCEPT ![Main] = Free])
    BY <1>3, <1>7 DEF ReceiveMentions, Return
  <2>2. \A p \in Peers : Taken(p)' = Taken(p)
    BY <1>6, <2>1, StrandLemma DEF Taken, Contents, ClientShape, ClientTypes
  <2>3. ToSet(mentions) = {}
    BY <1>7 DEF ToSet
  <2>4. Given' = Given
    BY <2>1 DEF Given
  <2>5. ASSUME NEW i \in Held, i \in DOMAIN sent, sent[i].text
        PROVE  i \in Held'
    <3>1. i \notin Taken(Main) /\ i \notin ToSet(pendingMentions)
      BY <1>4, <1>5, <2>3, <2>5
    <3>2. i \in ToSet(inbox) \/ \E p \in Peers : i \in Taken(p)
      BY <2>5, <3>1, HeldMeans DEF Strands
    <3> QED
      BY <1>1, <2>2, <3>2, HeldMeans, StrandLemma
  <2> QED
    BY <1>1, <2>4, <2>5, Kept
<1>8. CASE mentions # <<>>
  <2>1. pendingMentions' = pendingMentions \o Tail(mentions) /\ Hand(Main, Head(mentions))
    BY <1>3, <1>8 DEF ReceiveMentions
  <2>2. Tail(mentions) \in Seq(Nat)
    BY <1>8, HeadLemma
  <2>3. pendingMentions' = Tail(mentions)
    BY <1>4, <2>1, <2>2, ConcatEmptySeq
  <2> QED
    BY <1>1, <1>4, <1>5, <1>6, <1>8, <2>1, <2>3, HandLost
<1> QED
  BY <1>7, <1>8

LEMMA ReceiveFromAgentLost ==
  ASSUME ClientShape, Queues, LostForAReason, NEW p \in Peers, ReceiveFromAgent(p)
  PROVE  LostForAReason'
<1>1. /\ call[p].kind = "agent" /\ answer[p] # <<>> /\ answer' = [answer EXCEPT ![p] = <<>>]
      /\ UNCHANGED <<sent, inbox, carried, pendingMentions, awaited, broken, exiting>>
  BY DEF ReceiveFromAgent, Answered, server
<1>2. PICK batch \in Seq(Nat) : Head(answer[p]) = batch /\ Contents(answer[p]) = ToSet(batch)
  BY <1>1, AnswerLemma, StrandLemma
<1>3. batch # <<>> /\ Ascending(batch)
  BY <1>1, <1>2, StrandLemma DEF Queues, QueuesAscend, Batched, Waits
<1> DEFINE x == Head(batch)
<1>4. x \in Nat /\ ToSet(batch) = {x} \cup ToSet(Tail(batch)) /\ \A j \in ToSet(Tail(batch)) : x < j
  BY <1>3, HeadLemma
<1> HIDE DEF x
<1>5. Taken(p) = ToSet(batch)
  BY <1>1, <1>2 DEF Taken, Waits
<1>6. \A i \in Taken(p) : i \in DOMAIN sent /\ i \in Nat /\ carried[i] = "agent" /\ sent[i].sender = p
  <2>1. \A i \in Taken(p) : i \in DOMAIN sent /\ carried[i] = "agent" /\ sent[i].sender = p
    BY DEF Queues, TakenOnce
  <2> QED
    BY <2>1, SentLemma
<1>7. PICK c : /\ call' = [call EXCEPT ![p] = c]
               /\ Given \subseteq Given' /\ (sent[x].text => x \in Given')
  <2>1. CASE FirstOf(batch) = <<>>
    <3>1. ~sent[x].text
      BY <2>1 DEF FirstOf, HasText, x
    <3> QED
      BY <1>2, <2>1, <3>1 DEF ReceiveFromAgent, Return, Given
  <2>2. CASE FirstOf(batch) # <<>>
    <3>1. FirstOf(batch) = <<x>>
      BY <2>2 DEF FirstOf, x
    <3>2. Hand(p, x)
      <4>1. FirstOf(Head(answer[p])) = <<x>> /\ <<x>> # <<>> /\ Head(<<x>>) = x
        BY <1>2, <3>1
      <4> QED
        BY <4>1, Zenon DEF ReceiveFromAgent
    <3>3. PICK c \in Calls :
            /\ call' = [call EXCEPT ![p] = c] /\ c.kind = "idle"
            /\ \/ c = call[p] /\ c.kind = "inThread"
               \/ handed' = Append(handed, [msg |-> x, by |-> call[p].kind])
      BY <1>1, <1>4, <3>2, StrandLemma, HandLemma DEF Waits
    <3>4. PICK h \in [msg : Nat, by : Waits] : h = [msg |-> x, by |-> call[p].kind]
      BY <1>1, <1>4 DEF Waits
    <3>5. Given' = Given \cup {x}
      BY <3>3, <3>4, GivenLemma
    <3> QED
      BY <3>3, <3>5
  <2> QED
    BY <2>1, <2>2
<1>8. \A s \in Strands \ {p} : Taken(s)' = Taken(s)
  BY <1>1, <1>7, StrandLemma DEF Taken, Contents, ClientShape, ClientTypes
<1>9. ASSUME NEW i \in Held, sent[i].text
      PROVE  i \in Given' \cup Held' \/ Excused(i)'
  <2>1. CASE i \in Taken(p)
    <3>1. CASE i = x
      BY <1>7, <1>9, <3>1
    <3>2. CASE i # x
      <4>1. x \in 1..i-1 /\ sent[x].sender = sent[i].sender /\ carried[x] = "agent" /\ carried[i] = "agent"
        <5>1. x < i /\ x \in Taken(p)
          BY <1>4, <1>5, <2>1, <3>2
        <5>2. x \in 1..Len(sent) /\ i \in 1..Len(sent) /\ Len(sent) \in Nat
          BY <1>6, <2>1, <5>1, SentLemma
        <5> QED
          BY <1>6, <2>1, <5>1, <5>2
      <4> QED
        BY <1>1, <4>1 DEF Excused
    <3> QED
      BY <3>1, <3>2
  <2>2. CASE i \notin Taken(p)
    BY <1>1, <1>8, <1>9, <2>2, HeldMeans
  <2> QED
    BY <2>1, <2>2
<1> QED
  BY <1>1, <1>7, <1>9, Kept

LEMMA PostLost == ASSUME ClientShape, Queues, LostForAReason, Post PROVE LostForAReason'
<1>1. /\ sent' = Append(sent, scenario[Len(sent) + 1]) /\ Len(sent) < Len(scenario) /\ exiting # "exited"
      /\ inbox' = Append(inbox, Len(sent) + 1) /\ carried' = Append(carried, "idle")
      /\ UNCHANGED <<call, answer, pendingMentions, handed, awaited, broken>>
  BY DEF Post
<1>2. Len(sent) \in Nat /\ DOMAIN sent = 1..Len(sent) /\ DOMAIN carried = 1..Len(sent)
  BY SentLemma
<1> DEFINE N == Len(sent) + 1
<1>3. PICK m \in Message : m = scenario[N]
  <2>1. scenario \in Seq(Message) /\ Len(scenario) \in Nat
    BY LenProperties DEF ClientShape, ClientTypes
  <2>2. N \in 1..Len(scenario)
    BY <1>1, <1>2, <2>1
  <2> QED
    BY <2>1, <2>2, ElementOfSeq
<1>4. DOMAIN sent' = 1..N /\ \A i \in DOMAIN sent : sent'[i] = sent[i]
  <2>1. sent \in Seq(Message) /\ sent' = Append(sent, m)
    BY <1>1, <1>3 DEF ClientShape, ClientTypes
  <2> QED
    BY <1>2, <2>1, GrowsLemma
<1>5. \A i \in DOMAIN sent : carried'[i] = carried[i]
  <2>1. carried \in Seq(Waits \cup {"idle"}) /\ Len(carried) = Len(sent)
    BY DEF ClientShape, ClientTypes
  <2> QED
    BY <1>1, <1>2, <2>1, GrowsLemma
<1>6. ToSet(inbox') = ToSet(inbox) \cup {N}
  <2>1. inbox \in Seq(Nat) /\ N \in Nat
    BY <1>2 DEF ClientShape, ClientTypes
  <2> QED
    BY <1>1, <2>1, AppendLemma
<1>7. Given' = Given /\ Held' = Held \cup {N}
  <2>1. \A s \in Strands : Taken(s)' = Taken(s)
    BY <1>1 DEF Taken, Contents
  <2>2. \A i : i \in Held' <=> i \in Held \cup {N}
    BY <1>1, <1>6, <2>1, HeldMeans
  <2> QED
    BY <1>1, <2>2 DEF Given, Held
<1>8. \A i \in DOMAIN sent : Excused(i) => Excused(i)'
  <2> SUFFICES ASSUME NEW i \in DOMAIN sent, Excused(i) PROVE Excused(i)'
    OBVIOUS
  <2>1. carried'[i] = carried[i] /\ sent'[i] = sent[i] /\ \A j \in 1..i-1 : carried'[j] = carried[j] /\ sent'[j] = sent[j]
    BY <1>2, <1>4, <1>5
  <2> QED
    BY <1>1, <2>1 DEF Excused
<1>9. \A i \in DOMAIN sent : sent[i].text => i \in Given \cup Held \cup broken.messages \/ Excused(i)
  BY <1>1, LostMeans
<1>10. \A i \in DOMAIN sent' : sent'[i].text => i \in Given' \cup Held' \cup broken'.messages \/ Excused(i)'
  <2>1. \A i \in DOMAIN sent' : i \in DOMAIN sent \/ i = N
    BY <1>2, <1>4
  <2> HIDE DEF N
  <2> QED
    BY <1>1, <1>4, <1>7, <1>8, <1>9, <2>1
<1> QED
  BY <1>10 DEF LostForAReason, Excused, HasText

LEMMA DeliverLost ==
  ASSUME ClientShape, Queues, LostForAReason, NEW s \in Strands, Deliver(s)
  PROVE  LostForAReason'
<1>1. /\ call[s].kind \in Waits
      /\ UNCHANGED <<sent, call, pendingMentions, handed, exiting, broken, awaited>>
  BY DeliverLemma DEF Deliver, threads
<1>2. PICK batch \in Seq(Nat) :
        /\ answer' = [answer EXCEPT ![s] = <<batch>>] /\ ToSet(batch) \subseteq ToSet(inbox)
        /\ ToSet(inbox') = ToSet(inbox) \ ToSet(batch)
        /\ \A i \in DOMAIN sent : carried'[i] = IF i \in ToSet(batch) THEN call[s].kind ELSE carried[i]
  BY DeliverLemma
<1>3. answer[s] = <<>> /\ answer'[s] = <<batch>> /\ \A r \in Strands \ {s} : answer'[r] = answer[r]
  BY <1>2 DEF ClientShape, ClientTypes, Deliver, Asked
<1>4. Taken(s) = {} /\ Taken(s)' = ToSet(batch) /\ \A r \in Strands \ {s} : Taken(r)' = Taken(r)
  BY <1>1, <1>3, ContentsLemma DEF Taken, Contents
<1>5. Held \subseteq Held' /\ ToSet(batch) \subseteq Held' /\ Given' = Given
  BY <1>1, <1>2, <1>4, HeldMeans DEF Given
<1>6. \A i \in ToSet(batch) : carried[i] = "idle"
  BY <1>2 DEF Queues, TakenOnce
<1>7. ASSUME NEW i \in DOMAIN sent, Excused(i), i \notin ToSet(batch) PROVE Excused(i)'
  <2>1. carried'[i] = carried[i]
    BY <1>2, <1>7
  <2>2. \A j \in 1..i-1 : carried[j] = "agent" => carried'[j] = "agent"
    <3> SUFFICES ASSUME NEW j \in 1..i-1, carried[j] = "agent" PROVE carried'[j] = "agent"
      OBVIOUS
    <3>1. j \in DOMAIN sent
      BY SentLemma
    <3> QED
      BY <1>2, <1>6, <3>1
  <2> QED
    BY <1>1, <1>7, <2>1, <2>2 DEF Excused
<1>8. exiting' # "exited" =>
        \A i \in DOMAIN sent' : sent'[i].text => i \in Given' \cup Held' \cup broken'.messages \/ Excused(i)'
  BY <1>1, <1>5, <1>7, LostMeans
<1> QED
  BY <1>8 DEF LostForAReason, Excused, HasText

LEMMA NextLost ==
  ASSUME ClientShape, Queues, LostForAReason, [ClientNext]_clientVars
  PROVE  LostForAReason'
<1>1. CASE Exit
  BY <1>1 DEF Exit, LostForAReason
<1>2. CASE Step
  BY <1>1, <1>2, CalmSteps, CalmLost, TakePendingLost, ReceiveMentionsLost, ReceiveFromAgentLost DEF Step, Disconnect
<1>3. CASE Shutdown \/ FailToConnect \/ Post \/ OpenThread \/ UNCHANGED clientVars
  BY <1>1, <1>3, CalmSteps, CalmLost, PostLost DEF FailToConnect
<1>4. ASSUME NEW s \in Strands, Deliver(s) \/ TimeUp(s) \/ Break(s) PROVE LostForAReason'
  BY <1>4, CalmSteps, CalmLost, DeliverLost, BreakLost DEF Strands
<1> QED
  BY <1>2, <1>3, <1>4 DEF ClientNext

-----------------------------------------------------------------------------
(* What becomes of the threads.                                               *)

(* The main strand is not about to learn of a thread, or learns nothing yet.  *)
LEMMA ThreadKept ==
  ASSUME LastIsKnown, opened' = opened, closed \subseteq closed', broken.threads \subseteq broken'.threads,
         lastThread' = lastThread \/ lastThread \in closed' \cup broken'.threads,
         \/ answer[Main] # <<<<opened>>>> \/ call[Main].kind \notin {"create", "ended"}
         \/ answer'[Main] = answer[Main] /\ call'[Main].kind \in {"create", "ended"}
         \/ opened \in broken'.threads
  PROVE  LastIsKnown'
  BY DEF LastIsKnown

LEMMA NextThread ==
  ASSUME ClientShape, Queues, LastIsKnown, [ClientNext]_clientVars
  PROVE  LastIsKnown'
<1>1. CASE \/ WaitForMention \/ CreateThread \/ (\E t \in Threads : WaitForMentionInThread(t))
           \/ \E p \in Peers : WaitForAgent(p)
  <2>1. UNCHANGED <<server, lastThread, broken>>
    BY <1>1, EnterLemma
  <2>2. answer'[Main] = answer[Main] /\ (call'[Main] = call[Main] \/ answer[Main] = <<>>)
    <3>1. PICK s \in Strands, c \in Calls : call' = [call EXCEPT ![s] = c] /\ answer[s] = <<>>
      BY <1>1, EnterLemma
    <3> QED
      BY <1>1, <3>1, EnterLemma, StrandLemma DEF ClientShape, ClientTypes
  <2> QED
    BY <2>1, <2>2, ThreadKept DEF server
<1>2. CASE \/ TimeUp(Main) \/ (\E p \in Peers : TimeUp(p)) \/ Expire \/ Handled \/ HandlerThrows \/ GoOn
  <2>1. UNCHANGED <<server, lastThread, broken>>
    BY <1>2, StopLemma
  <2>2. answer'[Main] = answer[Main] /\ (call'[Main] = call[Main] \/ answer[Main] = <<>>)
    BY <1>2, StopLemma, StrandLemma DEF ClientShape, ClientTypes
  <2> QED
    BY <2>1, <2>2, ThreadKept DEF server
<1>3. CASE ReceiveThread
  <2>1. call[Main].kind = "create" /\ answer[Main] # <<>> /\ lastThread' = Head(Head(answer[Main])) /\ opened' = opened
    BY <1>3 DEF ReceiveThread, Answered, server
  <2>2. answer[Main] = <<<<opened>>>>
    BY <2>1 DEF ClientShape, StrandsCall
  <2> QED
    BY <2>1, <2>2 DEF LastIsKnown
<1>4. CASE OpenThread
  <2>1. call[Main].kind = "create" /\ call' = call /\ answer' = [answer EXCEPT ![Main] = <<<<opened'>>>>]
    BY <1>4 DEF OpenThread
  <2> QED
    BY <2>1, StrandLemma DEF LastIsKnown, ClientShape, ClientTypes
<1>5. CASE Connect \/ Shutdown \/ UNCHANGED clientVars
  BY <1>5, ThreadKept DEF Connect, Shutdown, clientVars, server, history
<1>6. CASE CloseThread
  <2>1. UNCHANGED <<opened, call, answer>>
    BY <1>6 DEF CloseThread
  <2>2. CASE UNCHANGED <<closed, lastThread, broken>>
    BY <2>1, <2>2, ThreadKept
  <2>3. CASE closed' = closed \cup {lastThread} /\ UNCHANGED broken
    BY <2>1, <2>3, ThreadKept
  <2>4. CASE broken' = [broken EXCEPT !.times = @ + 1, !.threads = @ \cup {lastThread}] /\ UNCHANGED <<closed, lastThread>>
    <3>1. broken.threads \subseteq broken'.threads
      BY <2>4 DEF ClientShape, ClientTypes
    <3> QED
      BY <2>1, <2>4, <3>1, ThreadKept
  <2> QED
    BY <1>6, <2>2, <2>3, <2>4 DEF CloseThread
<1>7. CASE Exit
  BY <1>7, StrandLemma DEF Exit, LastIsKnown, server, history
<1>8. CASE TakePending \/ ReceiveMentions
  BY <1>8, ThreadKept DEF TakePending, ReceiveMentions, server
<1>9. ASSUME NEW p \in Peers, ReceiveFromAgent(p) PROVE LastIsKnown'
  <2>1. UNCHANGED <<server, lastThread, broken>> /\ answer' = [answer EXCEPT ![p] = <<>>] /\ call[p].kind = "agent"
    BY <1>9 DEF ReceiveFromAgent, Answered
  <2>2. \E c : call' = [call EXCEPT ![p] = c]
    BY <1>9, <2>1 DEF ReceiveFromAgent, Return, Hand
  <2>3. answer'[Main] = answer[Main] /\ call'[Main] = call[Main]
    BY <2>1, <2>2, StrandLemma DEF ClientShape, ClientTypes
  <2> QED
    BY <2>1, <2>3, ThreadKept DEF server
<1>10. CASE Post
  BY <1>10, ThreadKept DEF Post, threads
<1>11. ASSUME NEW s \in Strands, Deliver(s) PROVE LastIsKnown'
  <2>1. UNCHANGED <<call, broken, opened, closed, lastThread>> /\ call[s].kind \in Waits
    BY <1>11 DEF Deliver, Asked, threads
  <2>2. s = Main \/ answer'[Main] = answer[Main]
    BY <1>11, StrandLemma DEF Deliver, ClientShape, ClientTypes
  <2> QED
    BY <2>1, <2>2, ThreadKept DEF Waits
<1>12. ASSUME NEW s \in Strands, Break(s) PROVE LastIsKnown'
  <2>1. /\ UNCHANGED <<opened, closed, lastThread>> /\ broken.threads \subseteq broken'.threads
        /\ \A r \in Strands \ {s} : call'[r] = call[r] /\ answer'[r] = answer[r]
        /\ call[s].kind = "create" => Contents(answer[s]) \subseteq broken'.threads
        /\ call[s].kind # "ended"
    BY <1>12, BreakLemma
  <2>2. Contents(<<<<opened>>>>) = {opened}
    BY ContentsLemma DEF ToSet
  <2>3. CASE s = Main
    BY <2>1, <2>2, <2>3, ThreadKept
  <2>4. CASE s # Main
    BY <2>1, <2>4, StrandLemma, ThreadKept
  <2> QED
    BY <2>3, <2>4
<1>13. CASE Step
  BY <1>1, <1>2, <1>3, <1>5, <1>6, <1>7, <1>8, <1>9, <1>13 DEF Step, Disconnect
<1>14. CASE Shutdown \/ FailToConnect \/ Post \/ OpenThread \/ UNCHANGED clientVars
  BY <1>4, <1>5, <1>7, <1>10, <1>14 DEF FailToConnect
<1>15. ASSUME NEW s \in Strands, Deliver(s) \/ TimeUp(s) \/ Break(s) PROVE LastIsKnown'
  BY <1>2, <1>11, <1>12, <1>15 DEF Strands
<1> QED
  BY <1>13, <1>14, <1>15 DEF ClientNext

-----------------------------------------------------------------------------
(* The theorems.                                                              *)

LEMMA ClientStarts == ClientInit => ClientInv
<1> SUFFICES ASSUME ClientInit PROVE ClientInv
  OBVIOUS
<1>1. sent = <<>> /\ inbox = <<>> /\ pendingMentions = <<>> /\ handed = <<>> /\ carried = <<>> /\ opened = 0 /\ lastThread = Nothing
  BY DEF ClientInit
<1>2. \A s \in Strands : call[s] = Free /\ answer[s] = <<>>
  BY DEF ClientInit
<1>3. Free \in Calls /\ Free.kind = "idle"
  BY FreeIsACall DEF Free
<1>4. ClientTypes
  <2>1. scenario \in Seq(Message) /\ MaxOpened \in Nat
    BY MentionsAssumption DEF ClientInit
  <2>2. call \in [Strands -> Calls] /\ answer \in [Strands -> {<<>>} \cup {<<batch>> : batch \in Seq(Nat)}]
    BY <1>3 DEF ClientInit
  <2>3. /\ sent \in Seq(Message) /\ inbox \in Seq(Nat) /\ pendingMentions \in Seq(Nat)
        /\ carried \in Seq(Waits \cup {"idle"}) /\ Len(carried) = Len(sent) /\ handed \in Seq([msg : Nat, by : Waits])
    BY <1>1
  <2>4. broken \in [messages : SUBSET Nat, threads : SUBSET Nat, times : Nat]
    BY DEF ClientInit
  <2> QED
    BY <1>1, <2>1, <2>2, <2>3, <2>4 DEF ClientTypes, ClientInit
<1>5. StrandsCall
  BY <1>2, <1>3, StrandLemma DEF StrandsCall, Waits
<1>6. \A s \in Strands : Taken(s) = {} /\ ~Batched(s)
  BY <1>2, <1>3 DEF Taken, Batched, Waits
<1>7. DOMAIN sent = {} /\ DOMAIN handed = {} /\ ToSet(inbox) = {} /\ ToSet(pendingMentions) = {}
  BY <1>1 DEF ToSet
<1>8. Queues
  BY <1>1, <1>6, <1>7, StrandLemma DEF Queues, TakenOnce, InboxIsLater, QueuesAscend, HandedBefore, HandedInOrder, Ascending
<1>9. LostForAReason
  BY <1>7 DEF LostForAReason
<1>10. LastIsKnown
  BY <1>1 DEF LastIsKnown
<1> QED
  BY <1>4, <1>5, <1>8, <1>9, <1>10 DEF ClientInv, ClientShape

LEMMA ClientKeeps == ClientInv /\ [ClientNext]_clientVars => ClientInv'
  BY NextShape, NextQueues, NextLost, NextThread DEF ClientInv, ClientShape, Queues

LEMMA ClientReaches == ClientSpec => []ClientInv
  BY ClientStarts, ClientKeeps, PTL DEF ClientSpec

(* Whatever the scenario, the answers and the breaks: no mention is handed    *)
(* out twice, and mentions overtake each other only as the kinds of wait in   *)
(* mcp.ts allow (pendingMentions is first in, first out).                     *)
THEOREM MentionsKeepTheirOrder == ClientSpec => []HandedOnceInOrder
<1>1. ClientInv => HandedOnceInOrder
  <2> SUFFICES ASSUME ClientInv PROVE HandedOnceInOrder
    OBVIOUS
  <2>1. ClientShape /\ Queues
    BY DEF ClientInv, ClientShape
  <2>2. ToSet(inbox) \subseteq DOMAIN sent /\ ToSet(pendingMentions) \subseteq DOMAIN sent
    BY <2>1 DEF Queues, TakenOnce
  <2>3. {inbox, pendingMentions} \subseteq Seq(DOMAIN sent)
    <3>1. ASSUME NEW s \in Seq(Nat), ToSet(s) \subseteq DOMAIN sent PROVE s \in Seq(DOMAIN sent)
      <4>1. Len(s) \in Nat /\ DOMAIN s = 1..Len(s) /\ s = [i \in 1..Len(s) |-> s[i]]
        BY LenProperties
      <4>2. s \in [1..Len(s) -> DOMAIN sent]
        BY <3>1, <4>1 DEF ToSet
      <4> QED
        BY <4>1, <4>2, IsASeq
    <3> QED
      BY <2>1, <2>2, <3>1 DEF ClientShape, ClientTypes
  <2>4. ClientTypeOK
    <3>1. \A s \in Strands : call[s].kind \in Waits \cup {"idle", "handle", "reply", "sleep", "create", "ended"}
      BY <2>1 DEF ClientShape, ClientTypes, Calls
    <3>2. opened <= MaxOpened
      BY <2>1, MentionsAssumption DEF ClientShape, ClientTypes
    <3> QED
      BY <2>1, <2>3, <3>1, <3>2 DEF ClientShape, ClientTypes, ClientTypeOK
  <2>5. ASSUME NEW m \in DOMAIN handed, NEW n \in DOMAIN handed, m < n
        PROVE  /\ handed[m].msg # handed[n].msg
               /\ handed[m].msg > handed[n].msg =>
                    \/ "agent" \in {handed[m].by, handed[n].by} /\ handed[m].by # handed[n].by
                    \/ handed[m].by = "agent" /\ sent[handed[m].msg].sender # sent[handed[n].msg].sender
    <3>1. handed[m].msg \in Nat /\ handed[n].msg \in Nat
      BY <2>1, HandedLemma
    <3>2. /\ carried[handed[m].msg] \in IF handed[m].by = "agent" THEN {"agent"} ELSE MainWaits
          /\ carried[handed[n].msg] \in IF handed[n].by = "agent" THEN {"agent"} ELSE MainWaits
      BY <2>1 DEF Queues, TakenOnce
    <3>3. /\ handed[m].by # "agent" /\ handed[n].by # "agent" => handed[m].msg < handed[n].msg
          /\ /\ handed[m].by = "agent" /\ handed[n].by = "agent"
             /\ sent[handed[m].msg].sender = sent[handed[n].msg].sender
             => handed[m].msg < handed[n].msg
      BY <2>1, <2>5 DEF Queues, HandedInOrder
    <3>4. CASE handed[m].by = "agent" /\ handed[n].by = "agent"
      BY <3>1, <3>3, <3>4
    <3>5. CASE handed[m].by # "agent" /\ handed[n].by # "agent"
      BY <3>1, <3>3, <3>5
    <3>6. CASE (handed[m].by = "agent") # (handed[n].by = "agent")
      BY <3>2, <3>6 DEF MainWaits
    <3> QED
      BY <3>4, <3>5, <3>6
  <2> QED
    BY <2>4, <2>5 DEF HandedOnceInOrder
<1> QED
  BY <1>1, ClientReaches, PTL

(* A mention with a text that CoralOS gave away reached the agent's code, or  *)
(* was lost to a broken call, to a wait for another thread or to an earlier   *)
(* mention of the same sender (waitForMention, waitForAgent in mcp.ts).       *)
THEOREM NoMentionIsLost == ClientSpec => []LostForAReason
<1>1. ClientInv => LostForAReason
  BY DEF ClientInv
<1> QED
  BY <1>1, ClientReaches, PTL

(* When the process ended, the thread opened last is closed, its closing      *)
(* failed, or the client never learned of it or could not come to close it    *)
(* (createThread, and shutdown in startCoralAgent).                           *)
THEOREM ThreadsDoNotLeak == ClientSpec => []ThreadsAreClosed
<1>1. ClientInv => ThreadsAreClosed
  <2> SUFFICES ASSUME ClientInv, NEW t \in 1..opened,
                      ~(t \in closed \cup broken.threads \/ t < opened \/ lastThread = t)
               PROVE  t \in Contents(answer[Main])
    BY DEF ThreadsAreClosed
  <2>1. t = opened /\ opened > 0
    BY DEF ClientInv, ClientTypes
  <2>2. Contents(<<<<opened>>>>) = {opened}
    BY ContentsLemma DEF ToSet
  <2> QED
    BY <2>1, <2>2 DEF ClientInv, LastIsKnown
<1> QED
  BY <1>1, ClientReaches, PTL

-----------------------------------------------------------------------------
(* The invariant of the watcher and the proxy.                                *)

Boards == Seq([fixture : Ids, offer : Nat])
Snapshots == UNION {[D -> Nat] : D \in SUBSET Ids}
EventsOf == [kind : EventKinds, fixture : Ids, followed : BOOLEAN]

Ready    == [at : {"idle", "activating", "listing"}]
Scanning == [at : {"scanning"}, todo : SUBSET Ids, seen : Snapshots]
Answering   == [at : {"answered"}, board : Boards]

WatchTypes ==
  /\ offered \in [Ids -> Nat] /\ \A f \in Ids : offered[f] \in 1..Len(Offers[f])
  /\ apiToken \in {"none", "good", "bad"}
  /\ cache \in [age : 0..Keep, board : Boards]
  /\ calls \in [Callers -> Ready \cup Scanning \cup Answering]
  /\ snapshot \in Snapshots
  /\ queue \in Seq(EventsOf) /\ Len(queue) <= MaxQueue
  /\ good \in 0..Keep /\ crossed \in BOOLEAN
  /\ followed \in [at : {"none", "queued", "aged", "handed"}, newer : Nat]

(* The board in the cache is as old as the last scan that found one.          *)
CacheIsGood == good < Keep => cache.board # <<>> /\ cache.age =< good

EventIsFollowed ==
  /\ IsFollowed(queue) <=> followed.at = "queued"
  /\ \A i \in DOMAIN queue : queue[i].followed => Len(queue) - i = followed.newer
  /\ followed.at = "aged" => followed.newer = MaxQueue

(* The lines of a board are offers TxLINE has made, one for each fixture.     *)
Honest(board) ==
  /\ \A i \in DOMAIN board : board[i].offer \in 1..offered[board[i].fixture]
  /\ \A i, j \in DOMAIN board : board[i].fixture = board[j].fixture => board[i].offer = board[j].offer

BoardsAreHonest ==
  /\ Honest(cache.board)
  /\ \A c \in Callers : HasAnswered(c) => Honest(calls[c].board)
  /\ \A c \in Callers : calls[c].at = "scanning" =>
       \A f \in DOMAIN calls[c].seen : calls[c].seen[f] \in 1..offered[f]
  /\ \A f \in DOMAIN snapshot : snapshot[f] \in 1..offered[f]

(* Nothing of the board is older than what the watcher saw last.              *)
IsAhead(board) ==
  \A i \in DOMAIN board : board[i].fixture \in DOMAIN snapshot => snapshot[board[i].fixture] =< board[i].offer

NothingGoesBack ==
  crossed \/
    /\ \A c, d \in Callers : calls[c] # Resting /\ calls[d] # Resting => c = d
    /\ IsAhead(cache.board)
    /\ \A c \in Callers : HasAnswered(c) => calls[c].board = <<>> \/ calls[c].board = cache.board
    /\ \A c \in Callers : calls[c].at = "scanning" =>
         \A f \in DOMAIN calls[c].seen \cap DOMAIN snapshot : snapshot[f] =< calls[c].seen[f]

WatchInv == WatchTypes /\ CacheIsGood /\ EventIsFollowed /\ BoardsAreHonest /\ NothingGoesBack

(* The library's facts about sequences, with the domains spelt out.           *)
LEMMA Elements ==
  ASSUME NEW S, NEW s \in Seq(S)
  PROVE  Len(s) \in Nat /\ DOMAIN s = 1..Len(s) /\ \A i \in 1..Len(s) : s[i] \in S
  BY LenProperties, ElementOfSeq

Lines == [fixture : Ids, offer : Nat]

LEMMA NothingSeen == <<>> \in Snapshots /\ DOMAIN <<>> = {} /\ <<>> \in Boards
<1>1. <<>> \in Seq(Nat) /\ DOMAIN <<>> = {} /\ <<>> \in Boards
  BY DEF Boards
<1>2. <<>> = [i \in {} |-> <<>>[i]]
  BY <1>1
<1>3. <<>> \in [{} -> Nat]
  BY <1>2
<1> QED
  BY <1>1, <1>3 DEF Snapshots

LEMMA ScanLemma ==
  ASSUME NEW seen \in Snapshots, NEW f \in Ids, NEW n \in Nat
  PROVE  /\ Seeing(seen, f, n) \in Snapshots
         /\ DOMAIN Seeing(seen, f, n) = {f} \cup DOMAIN seen
         /\ Seeing(seen, f, n)[f] = n
         /\ \A g \in DOMAIN seen \ {f} : Seeing(seen, f, n)[g] = seen[g]
<1>2. PICK D \in SUBSET Ids : seen \in [D -> Nat]
  BY DEF Snapshots
<1>3. Seeing(seen, f, n) \in [{f} \cup D -> Nat] /\ ({f} \cup D) \in SUBSET Ids
  BY <1>2 DEF Seeing
<1> QED
  BY <1>2, <1>3 DEF Snapshots, Seeing

(* A board has the offers that were seen, and no other.                       *)
LEMMA BoardLemma ==
  ASSUME NEW seen \in Snapshots
  PROVE  /\ BoardOf(seen) \in Boards
         /\ \A i \in DOMAIN BoardOf(seen) :
              BoardOf(seen)[i].fixture \in DOMAIN seen /\ BoardOf(seen)[i].offer = seen[BoardOf(seen)[i].fixture]
<1> DEFINE lines == [i \in DOMAIN Fixtures |-> [fixture |-> Fixtures[i], offer |-> IF Fixtures[i] \in DOMAIN seen THEN seen[Fixtures[i]] ELSE 0]]
           found == Only(lines, {line \in ToSet(lines) : line.offer > 0})
           first == {line \in ToSet(found) : Has1x2(OddsOf(line))}
           a == Only(found, first)
           b == Only(found, ToSet(found) \ first)
           Backed(line) == line.fixture \in DOMAIN seen /\ line.offer = seen[line.fixture]
<1>1. BoardOf(seen) = a \o b
  BY DEF BoardOf
<1>2. Fixtures \in Seq(Ids) /\ Len(Fixtures) \in Nat /\ DOMAIN Fixtures = 1..Len(Fixtures)
      /\ \A i \in 1..Len(Fixtures) : Fixtures[i] \in Ids
  BY WatchAssumption, Elements
<1>3. PICK D \in SUBSET Ids : seen \in [D -> Nat]
  BY DEF Snapshots
<1>4. \A i \in 1..Len(Fixtures) : lines[i] \in Lines
  BY <1>2, <1>3 DEF Lines
<1>5. lines \in Seq(Lines) /\ Len(lines) = Len(Fixtures) /\ DOMAIN lines = 1..Len(Fixtures)
  <2>1. lines \in [1..Len(Fixtures) -> Lines]
    BY <1>2, <1>4
  <2> HIDE DEF lines
  <2> QED
    BY <1>2, <2>1
<1>6. \A i \in 1..Len(Fixtures) : lines[i].offer > 0 => Backed(lines[i])
  BY <1>2, <1>3
<1>7. \A line \in ToSet(lines) : line.offer > 0 => Backed(line)
  <2> HIDE DEF lines
  <2> QED
    BY <1>5, <1>6 DEF ToSet
<1> HIDE DEF lines
<1>8. found \in Seq(Lines) /\ \A line \in ToSet(found) : Backed(line)
  BY <1>5, <1>7, FilterLemma
<1> HIDE DEF found
<1>9. /\ a \in Seq(Lines) /\ ToSet(a) \subseteq ToSet(found)
      /\ b \in Seq(Lines) /\ ToSet(b) \subseteq ToSet(found)
  BY <1>8, FilterLemma
<1> HIDE DEF a, b
<1>10. a \o b \in Seq(Lines) /\ \A i \in DOMAIN (a \o b) : (a \o b)[i] \in ToSet(a) \cup ToSet(b)
  <2>1. /\ Len(a) \in Nat /\ DOMAIN a = 1..Len(a)
        /\ Len(b) \in Nat /\ DOMAIN b = 1..Len(b)
    BY <1>9, Elements
  <2>2. a \o b \in Seq(Lines) /\ Len(a \o b) = Len(a) + Len(b)
        /\ \A i \in 1..(Len(a) + Len(b)) : (a \o b)[i] = IF i <= Len(a) THEN a[i] ELSE b[i - Len(a)]
    BY <1>9, ConcatProperties
  <2>3. DOMAIN (a \o b) = 1..(Len(a) + Len(b))
    BY <2>2, Elements
  <2> QED
    BY <2>1, <2>2, <2>3 DEF ToSet
<1> QED
  BY <1>1, <1>8, <1>9, <1>10 DEF Boards, Lines

(* What the watcher remembers of a board with one offer for each fixture.     *)
LEMMA SnapshotLemma ==
  ASSUME WatchTypes, NEW board \in Boards, Honest(board)
  PROVE  /\ Snapshot(board) \in Snapshots
         /\ \A f \in DOMAIN Snapshot(board) : Snapshot(board)[f] \in 1..offered[f]
         /\ \A i \in DOMAIN board : board[i].fixture \in Seen(board) => Shown(board, board[i].fixture) = board[i].offer
         /\ \A f \in DOMAIN Snapshot(board) : \E i \in DOMAIN board : board[i].fixture = f
         /\ DOMAIN Snapshot(board) = Seen(board) /\ \A f \in Seen(board) : Snapshot(board)[f] = Shown(board, f)
<1>1. Len(board) \in Nat /\ DOMAIN board = 1..Len(board) /\ \A i \in 1..Len(board) : board[i] \in Lines
  BY Elements DEF Boards, Lines
<1>2. Seen(board) \subseteq Ids /\ \A f \in Seen(board) : \E i \in DOMAIN board : board[i].fixture = f
  BY <1>1 DEF Seen, Lines
<1>3. ASSUME NEW f \in Seen(board)
      PROVE  \E i \in DOMAIN board : board[i].fixture = f /\ Shown(board, f) = board[i].offer
  BY <1>2, <1>3, Zenon DEF Shown
<1>4. \A f \in Seen(board) : Shown(board, f) \in 1..offered[f] /\ Shown(board, f) \in Nat
  BY <1>1, <1>3 DEF Honest, Lines
<1>5. \A i \in DOMAIN board : board[i].fixture \in Seen(board) => Shown(board, board[i].fixture) = board[i].offer
  BY <1>3 DEF Honest
<1>6. Snapshot(board) \in [Seen(board) -> Nat]
  BY <1>4 DEF Snapshot
<1> QED
  BY <1>2, <1>4, <1>5, <1>6 DEF Snapshot, Snapshots

LEMMA CallTypes ==
  ASSUME WatchTypes, NEW c \in Callers
  PROVE  /\ calls[c].at = "scanning" => calls[c] \in Scanning
         /\ calls[c].at = "answered" => calls[c] \in Answering
         /\ calls[c].at \in {"idle", "activating", "listing", "scanning", "answered"}
  BY DEF WatchTypes, Ready, Scanning, Answering

LEMMA LastGoodLemma ==
  ASSUME WatchTypes
  PROVE  LastGood \in Boards /\ LastGood \in {<<>>, cache.board}
  BY DEF WatchTypes, LastGood, Boards

LEMMA NewestLemma ==
  ASSUME NEW S, NEW s \in Seq(S)
  PROVE  /\ Newest(s) \in Seq(S) /\ DOMAIN Newest(s) = 1..Len(Newest(s))
         /\ Len(Newest(s)) = AtMost(Len(s), MaxQueue)
         /\ \A j \in 1..Len(Newest(s)) : Newest(s)[j] = s[Len(s) - Len(Newest(s)) + j]
<1>1. PICK n \in Nat : n = Len(s)
  BY Elements
<1> DEFINE d == IF n > MaxQueue THEN n - MaxQueue ELSE 0
<1>2. Newest(s) = SubSeq(s, 1 + d, n)
  BY <1>1 DEF Newest
<1>3. d \in Nat /\ n - d = AtMost(n, MaxQueue) /\ d =< n
  <2>1. MaxQueue \in Nat
    BY WatchAssumption
  <2> QED
    BY <2>1 DEF AtMost
<1> HIDE DEF d
<1>4. \A i \in (1 + d)..n : s[i] \in S
  BY <1>1, <1>3, Elements
<1>5. /\ Newest(s) \in Seq(S)
      /\ Len(Newest(s)) = IF 1 + d <= n THEN n - (1 + d) + 1 ELSE 0
      /\ \A i \in 1..(n - (1 + d) + 1) : Newest(s)[i] = s[1 + d + i - 1]
  <2>1. 1 + d \in Int /\ n \in Int
    BY <1>3
  <2> QED
    BY <1>2, <1>4, <2>1, SubSeqProperties
<1>6. Len(Newest(s)) = n - d
  BY <1>3, <1>5
<1>7. \A j \in 1..(n - d) : Newest(s)[j] = s[d + j]
  BY <1>3, <1>5
<1>8. n - (n - d) = d
  BY <1>3
<1> QED
  BY <1>1, <1>3, <1>5, <1>6, <1>7, <1>8, Elements
(* Poll marks one event of the board at the most.                             *)
LEMMA FollowedEvents ==
  ASSUME NEW events \in Seq(EventsOf), NEW i \in 0..Len(events)
  PROVE  /\ Marked(events, i) \in Seq(EventsOf) /\ Len(Marked(events, i)) = Len(events) /\ Len(events) - i \in Nat
         /\ \A j \in 1..Len(events) : Marked(events, i)[j].followed <=> j = i
<1> DEFINE mark(j) == [events[j] EXCEPT !.followed = (j = i)]
           marked == [j \in DOMAIN events |-> mark(j)]
<1>1. Len(events) \in Nat /\ DOMAIN events = 1..Len(events) /\ \A j \in 1..Len(events) : events[j] \in EventsOf
  BY Elements
<1>2. \A j \in 1..Len(events) : mark(j) \in EventsOf /\ (mark(j).followed <=> j = i)
  BY <1>1 DEF EventsOf
<1> HIDE DEF mark
<1>3. marked \in [1..Len(events) -> EventsOf]
  BY <1>1, <1>2
<1>4. marked \in Seq(EventsOf) /\ Len(marked) = Len(events)
  <2> HIDE DEF marked
  <2> QED
    BY <1>1, <1>3
<1>5. \A j \in 1..Len(events) : marked[j].followed <=> j = i
  BY <1>1, <1>2
<1>6. Len(events) - i \in Nat
  BY <1>1
<1> QED
  BY <1>4, <1>5, <1>6 DEF mark, Marked

LEMMA QueueLength ==
  ASSUME WatchTypes, NEW events \in Seq(EventsOf)
  PROVE  Newest(queue \o events) \in Seq(EventsOf) /\ Len(Newest(queue \o events)) =< MaxQueue
<1>1. PICK all \in Seq(EventsOf) : all = queue \o events
  BY ConcatProperties DEF WatchTypes
<1>2. Newest(all) \in Seq(EventsOf) /\ Len(Newest(all)) = AtMost(Len(all), MaxQueue)
  BY NewestLemma
<1>3. PICK n \in Nat : n = Len(all)
  BY Elements
<1>4. AtMost(n, MaxQueue) =< MaxQueue
  BY WatchAssumption DEF AtMost
<1> QED
  BY <1>1, <1>2, <1>3, <1>4

(* Every event is a line of the board, one that the watcher has to report.    *)
LEMMA EventsLemma ==
  ASSUME NEW board \in Boards
  PROVE  /\ Events(board) \in Seq(EventsOf)
         /\ \A i \in DOMAIN Events(board) : Events(board)[i].kind = "odds-move" =>
              \E k \in DOMAIN board :
                /\ board[k].fixture = Events(board)[i].fixture
                /\ board[k].fixture \in Seen(board) /\ board[k].fixture \in DOMAIN snapshot
                /\ HasMoved(board[k].fixture, board[k].offer)
<1> DEFINE those == {line \in ToSet(board) : line.fixture \in Seen(board) /\ (IsNew(line.fixture) \/ HasMoved(line.fixture, line.offer))}
           changed == Only(board, those)
           event(i) == [kind |-> IF IsNew(changed[i].fixture) THEN "new-fixture" ELSE "odds-move", fixture |-> changed[i].fixture, followed |-> FALSE]
<1>1. Events(board) = [i \in DOMAIN changed |-> event(i)]
  BY Zenon DEF Events
<1>2. board \in Seq(Lines)
  BY DEF Boards, Lines
<1>3. changed \in Seq(Lines) /\ ToSet(changed) = ToSet(board) \cap those
  BY <1>2, FilterLemma
<1>4. \A line \in ToSet(changed) :
        /\ \E k \in DOMAIN board : line = board[k]
        /\ line.fixture \in Seen(board) /\ (line.fixture \in DOMAIN snapshot => HasMoved(line.fixture, line.offer))
  <2>1. \A line \in ToSet(board) : \E k \in DOMAIN board : line = board[k]
    BY DEF ToSet
  <2> QED
    BY <1>3, <2>1, Zenon DEF IsNew
<1> HIDE DEF changed
<1>5. Len(changed) \in Nat /\ DOMAIN changed = 1..Len(changed) /\ \A i \in 1..Len(changed) : changed[i] \in Lines
  BY <1>3, Elements
<1>6. \A i \in 1..Len(changed) : event(i) \in EventsOf
  BY <1>5 DEF EventsOf, EventKinds, Lines
<1>7. Events(board) \in Seq(EventsOf)
  <2>1. Events(board) \in [1..Len(changed) -> EventsOf]
    BY <1>1, <1>5, <1>6
  <2> QED
    BY <1>5, <2>1
<1>8. ASSUME NEW i \in DOMAIN Events(board), Events(board)[i].kind = "odds-move"
      PROVE  \E k \in DOMAIN board :
               /\ board[k].fixture = Events(board)[i].fixture
               /\ board[k].fixture \in Seen(board) /\ board[k].fixture \in DOMAIN snapshot
               /\ HasMoved(board[k].fixture, board[k].offer)
  <2>1. i \in DOMAIN changed /\ Events(board)[i] = event(i)
    BY <1>1, <1>8
  <2>2. Events(board)[i].fixture = changed[i].fixture /\ changed[i].fixture \in DOMAIN snapshot
    BY <1>8, <2>1 DEF IsNew
  <2>3. changed[i] \in ToSet(changed)
    BY <2>1, Zenon DEF ToSet
  <2> HIDE DEF event
  <2> QED
    BY <1>4, <2>2, <2>3, Zenon
<1> QED
  BY <1>7, <1>8

LEMMA WatchTypesHold ==
  ASSUME WatchInv, [WatchNext]_watchVars
  PROVE  WatchTypes'
<1> USE DEF WatchInv
<1>0. WatchTypes
  OBVIOUS
<1> USE DEF WatchTypes, proxy, watcher
<1>1. CASE UNCHANGED watchVars
  BY <1>1 DEF watchVars
<1>2. ASSUME NEW f \in Ids, Offer(f) PROVE WatchTypes'
  BY <1>2, WatchAssumption DEF Offer
<1>3. CASE Tick
  <2>1. Keep \in Nat
    BY WatchAssumption
  <2> QED
    BY <1>3, <2>1 DEF Tick
<1>4. ASSUME NEW c \in Callers, Ask(c) PROVE WatchTypes'
  <2>1. /\ [at |-> "answered", board |-> cache.board] \in Answering
        /\ [at |-> IF apiToken = "none" THEN "activating" ELSE "listing"] \in Ready
    BY DEF Answering, Ready
  <2>2. \/ calls' = [calls EXCEPT ![c] = [at |-> "answered", board |-> cache.board]]
        \/ calls' = [calls EXCEPT ![c] = [at |-> IF apiToken = "none" THEN "activating" ELSE "listing"]]
    BY <1>4, Zenon DEF Ask, To, Answers
  <2>3. calls' \in [Callers -> Ready \cup Scanning \cup Answering]
    BY <2>1, <2>2
  <2> QED
    BY <1>4, <2>3 DEF Ask
<1>5. ASSUME NEW c \in Callers, Activate(c) PROVE WatchTypes'
  BY <1>5 DEF Activate, To, Ready
<1>6. ASSUME NEW c \in Callers, MisActivate(c) PROVE WatchTypes'
  <2>1. LastGood \in Boards
    BY <1>0, LastGoodLemma
  <2> QED
    BY <1>6, <2>1 DEF MisActivate, To, Answers, Answering
<1>7. ASSUME NEW c \in Callers, List(c) PROVE WatchTypes'
  <2>1. <<>> \in Snapshots
    BY NothingSeen
  <2> QED
    BY <1>7, <2>1 DEF List, To, Scanning
<1>8. ASSUME NEW c \in Callers, Unavailable(c) PROVE WatchTypes'
  <2>1. LastGood \in Boards
    BY <1>0, LastGoodLemma
  <2> QED
    BY <1>8, <2>1 DEF Unavailable, To, Answers, Answering
<1>9. ASSUME NEW c \in Callers, Finish(c) PROVE WatchTypes'
  <2>1. LastGood \in Boards /\ BoardOf(calls[c].seen) \in Boards
    BY <1>0, <1>9, CallTypes, LastGoodLemma, BoardLemma DEF Finish, Scanning
  <2>2. 0 \in 0..Keep
    BY WatchAssumption
  <2> QED
    BY <1>9, <2>1, <2>2 DEF Finish, Cached, To, Answers, Answering
<1>10. ASSUME NEW c \in Callers, NEW f \in Ids, NEW seen \in Snapshots, ScanTo(c, f, seen) PROVE WatchTypes'
  <2>1. calls[c] \in Scanning
    BY <1>0, <1>10, CallTypes DEF ScanTo
  <2>2. [calls[c] EXCEPT !.todo = @ \ {f}, !.seen = seen] \in Scanning
    BY <2>1 DEF Scanning
  <2> QED
    BY <1>10, <2>2 DEF ScanTo, To
<1>11. ASSUME NEW c \in Callers, NEW f \in Ids, Scan(c, f) \/ Skip(c, f) PROVE WatchTypes'
  <2>1. calls[c].seen \in Snapshots
    BY <1>0, <1>11, CallTypes DEF Scan, Skip, ScanTo, Scanning
  <2>2. Seeing(calls[c].seen, f, offered[f]) \in Snapshots
    BY <2>1, ScanLemma
  <2> QED
    BY <1>10, <1>11, <2>1, <2>2 DEF Scan, Skip
<1>12. ASSUME NEW c \in Callers, Poll(c) PROVE WatchTypes'
  <2> DEFINE board == calls[c].board
  <2>1. board \in Boards /\ Honest(board)
    BY <1>0, <1>12, CallTypes DEF Poll, HasAnswered, Answering, BoardsAreHonest
  <2>2. Snapshot(board) \in Snapshots /\ Events(board) \in Seq(EventsOf)
    BY <1>0, <2>1, SnapshotLemma, EventsLemma
  <2>3. PICK i \in 0..Len(Events(board)) :
          queue' = Newest(queue \o Marked(Events(board), i)) /\ Follow(i, Marked(Events(board), i))
    BY <1>12, Zenon DEF Poll
  <2> DEFINE events == Marked(Events(board), i)
  <2>4. events \in Seq(EventsOf)
    BY <2>2, <2>3, FollowedEvents
  <2>5. queue' = Newest(queue \o events) /\ Follow(i, events)
    BY <2>3
  <2>6. /\ snapshot' = Snapshot(board) /\ To(c, Resting)
        /\ UNCHANGED <<offered, apiToken, cache, good, crossed>>
    BY <1>12 DEF Poll
  <2> HIDE DEF events, board
  <2>7. queue' \in Seq(EventsOf) /\ Len(queue') =< MaxQueue
    BY <2>4, <2>5, QueueLength
  <2>8. followed' \in [at : {"none", "queued", "aged", "handed"}, newer : Nat]
    <3>1. /\ AtMost(Len(events) - i, MaxQueue) \in Nat
          /\ AtMost(followed.newer + Len(events), MaxQueue) \in Nat
      <4>1. Len(events) \in Nat /\ MaxQueue \in Nat /\ followed.newer \in Nat
        BY <2>4, WatchAssumption, Elements
      <4>2. Len(events) - i \in Nat
        BY <2>2, <2>3, FollowedEvents DEF events
      <4> QED
        BY <4>1, <4>2 DEF AtMost
    <3> QED
      BY <2>5, <3>1 DEF Follow
  <2>9. calls' \in [Callers -> Ready \cup Scanning \cup Answering]
    BY <2>6 DEF To, Resting, Ready
  <2> QED
    BY <2>2, <2>6, <2>7, <2>8, <2>9
<1>13. ASSUME NEW c \in Callers, Leave(c) PROVE WatchTypes'
  BY <1>13 DEF Leave, To, Resting, Ready
<1>14. CASE Pop
  <2>1. Tail(queue) \in Seq(EventsOf) /\ Len(Tail(queue)) =< MaxQueue
    <3>1. queue \in Seq(EventsOf) /\ queue # <<>> /\ Len(queue) \in Nat /\ MaxQueue \in Nat
      BY <1>14, WatchAssumption, Elements DEF Pop
    <3>2. Tail(queue) \in Seq(EventsOf) /\ Len(Tail(queue)) = Len(queue) - 1
      BY <3>1, HeadTailProperties
    <3> QED
      BY <3>1, <3>2
  <2> QED
    BY <1>14, <2>1 DEF Pop
<1> QED
  BY <1>1, <1>2, <1>3, <1>4, <1>5, <1>6, <1>7, <1>8, <1>9, <1>11, <1>12, <1>13, <1>14 DEF WatchNext, Call
LEMMA CacheStaysGood ==
  ASSUME WatchInv, [WatchNext]_watchVars
  PROVE  CacheIsGood'
<1> USE DEF WatchInv, CacheIsGood, proxy, watcher
<1>1. CASE UNCHANGED <<cache, good>>
  BY <1>1
<1>2. CASE Tick
  <2>1. cache.age \in Nat /\ good \in Nat /\ Keep \in Nat
    BY WatchAssumption DEF WatchTypes
  <2>2. cache \in [age : 0..Keep, board : Boards]
    BY DEF WatchTypes
  <2> QED
    BY <1>2, <2>1, <2>2 DEF Tick
<1>3. ASSUME NEW c \in Callers, Finish(c) PROVE CacheIsGood'
  BY <1>3 DEF Finish, Cached
<1>4. \/ UNCHANGED <<cache, good>> \/ Tick \/ \E c \in Callers : Finish(c)
  BY DEF WatchNext, Call, watchVars, Offer, Ask, Activate, MisActivate, List, Unavailable, Scan, Skip, ScanTo, Poll, Leave, Pop
<1> QED
  BY <1>1, <1>2, <1>3, <1>4

(* A board stays honest as more offers are made.                              *)
LEMMA HonestStays ==
  ASSUME WatchTypes, WatchTypes', NEW board \in Boards, Honest(board), \A f \in Ids : offered[f] =< offered'[f]
  PROVE  Honest(board)'
<1>1. DOMAIN board = 1..Len(board) /\ \A i \in 1..Len(board) : board[i] \in Lines
  BY Elements DEF Boards, Lines
<1>2. ASSUME NEW i \in DOMAIN board PROVE board[i].offer \in 1..offered'[board[i].fixture]
  <2>1. board[i].fixture \in Ids /\ board[i].offer \in 1..offered[board[i].fixture]
    BY <1>1, <1>2 DEF Honest, Lines
  <2>2. /\ offered[board[i].fixture] \in Nat /\ offered'[board[i].fixture] \in Nat
        /\ offered[board[i].fixture] =< offered'[board[i].fixture]
    BY <2>1 DEF WatchTypes
  <2> QED
    BY <2>1, <2>2
<1> QED
  BY <1>2 DEF Honest

LEMMA SeenIsHonest ==
  ASSUME WatchTypes, NEW seen \in Snapshots, \A f \in DOMAIN seen : seen[f] \in 1..offered[f]
  PROVE  Honest(BoardOf(seen))
  BY BoardLemma DEF Honest

LEMMA BoardsStayHonest ==
  ASSUME WatchInv, [WatchNext]_watchVars
  PROVE  BoardsAreHonest'
<1>0. WatchTypes /\ BoardsAreHonest /\ WatchTypes'
  BY WatchTypesHold DEF WatchInv
<1> DEFINE scanned(c) == calls[c].at = "scanning" => \A f \in DOMAIN calls[c].seen : calls[c].seen[f] \in 1..offered[f]
           served(c) == HasAnswered(c) => Honest(calls[c].board)
           remembered == \A f \in DOMAIN snapshot : snapshot[f] \in 1..offered[f]
<1>00. /\ Honest(cache.board) /\ remembered
       /\ \A c \in Callers : served(c) /\ scanned(c)
  BY <1>0 DEF BoardsAreHonest
<1>01. Honest(<<>>)
  BY NothingSeen DEF Honest
<1>02. LastGood \in Boards /\ Honest(LastGood)
  BY <1>0, <1>00, <1>01, LastGoodLemma
<1>1. ASSUME offered' = offered, cache'.board = cache.board, snapshot' = snapshot,
             NEW c \in Callers, calls' = [calls EXCEPT ![c] = calls'[c]], served(c)', scanned(c)'
      PROVE  BoardsAreHonest'
  <2>1. \A d \in Callers : d # c => calls'[d] = calls[d]
    BY <1>0, <1>1 DEF WatchTypes
  <2>2. \A d \in Callers : served(d)' /\ scanned(d)'
    BY <1>00, <1>1, <2>1 DEF HasAnswered, Honest
  <2> HIDE DEF served, scanned
  <2>3. Honest(cache.board)' /\ remembered'
    BY <1>00, <1>1 DEF Honest
  <2> QED
    BY <2>2, <2>3 DEF BoardsAreHonest, served, scanned
<1>2. ASSUME UNCHANGED <<offered, calls, snapshot>>, cache'.board = cache.board PROVE BoardsAreHonest'
  BY <1>0, <1>2 DEF BoardsAreHonest, HasAnswered, Honest
<1>3. ASSUME NEW f \in Ids, Offer(f) PROVE BoardsAreHonest'
  <2>1. \A g \in Ids : offered[g] =< offered'[g] /\ offered[g] \in Nat /\ offered'[g] \in Nat
    BY <1>0, <1>3 DEF Offer, WatchTypes
  <2>2. UNCHANGED <<cache, calls, snapshot>>
    BY <1>3 DEF Offer, proxy, watcher
  <2>3. cache.board \in Boards /\ Honest(cache.board)'
    <3>1. cache.board \in Boards
      BY <1>0 DEF WatchTypes
    <3>2. \A board \in Boards : Honest(board) => Honest(board)'
      BY <1>0, <2>1, HonestStays
    <3> QED
      BY <1>00, <2>2, <3>1, <3>2 DEF Honest
  <2>4. ASSUME NEW c \in Callers PROVE served(c)'
    <3> SUFFICES ASSUME HasAnswered(c)' PROVE Honest(calls[c].board)'
      BY DEF served
    <3>1. HasAnswered(c) /\ calls[c].board \in Boards /\ Honest(calls[c].board)
      BY <1>0, <1>00, <2>2, CallTypes DEF HasAnswered, Answering
    <3>2. \A board \in Boards : Honest(board) => Honest(board)'
      BY <1>0, <2>1, HonestStays
    <3> QED
      BY <2>2, <3>1, <3>2 DEF Honest
  <2>5. ASSUME NEW c \in Callers PROVE scanned(c)'
    <3> SUFFICES ASSUME calls[c].at = "scanning", NEW g \in DOMAIN calls[c].seen PROVE calls[c].seen[g] \in 1..offered'[g]
      BY <2>2
    <3>1. g \in Ids
      BY <1>0, CallTypes DEF Scanning, Snapshots
    <3>2. calls[c].seen[g] \in 1..offered[g]
      BY <1>00
    <3> QED
      BY <2>1, <3>1, <3>2
  <2>6. remembered'
    <3>1. \A g \in DOMAIN snapshot : g \in Ids /\ snapshot[g] \in 1..offered[g]
      BY <1>0, <1>00 DEF WatchTypes, Snapshots
    <3> QED
      BY <2>1, <2>2, <3>1
  <2> QED
    BY <2>3, <2>4, <2>5, <2>6 DEF BoardsAreHonest
<1>4. ASSUME NEW c \in Callers, Ask(c) PROVE BoardsAreHonest'
  <2>1. UNCHANGED <<offered, cache, snapshot>> /\ c \in DOMAIN calls
    BY <1>0, <1>4 DEF Ask, watcher, WatchTypes
  <2>2. \/ calls' = [calls EXCEPT ![c] = [at |-> "answered", board |-> cache.board]]
        \/ calls' = [calls EXCEPT ![c] = [at |-> IF apiToken = "none" THEN "activating" ELSE "listing"]]
    BY <1>4, Zenon DEF Ask, To, Answers
  <2>3. served(c)' /\ scanned(c)'
    BY <1>00, <2>1, <2>2 DEF HasAnswered, Honest
  <2>4. calls' = [calls EXCEPT ![c] = calls'[c]]
    BY <2>1, <2>2
  <2> HIDE DEF served, scanned
  <2> QED
    BY <1>1, <2>1, <2>3, <2>4
<1>5. ASSUME NEW c \in Callers, Activate(c) \/ List(c) \/ Leave(c) PROVE BoardsAreHonest'
  <2>1. UNCHANGED <<offered, cache, snapshot>> /\ c \in DOMAIN calls
    BY <1>0, <1>5 DEF Activate, List, Leave, watcher, WatchTypes
  <2>2. \/ calls' = [calls EXCEPT ![c] = [at |-> "listing"]]
        \/ calls' = [calls EXCEPT ![c] = [at |-> "scanning", todo |-> Ids, seen |-> <<>>]]
        \/ calls' = [calls EXCEPT ![c] = [at |-> "idle"]]
    BY <1>5 DEF Activate, List, Leave, To, Resting
  <2>3. served(c)' /\ scanned(c)'
    BY <2>1, <2>2, NothingSeen DEF HasAnswered
  <2>4. calls' = [calls EXCEPT ![c] = calls'[c]]
    BY <2>1, <2>2
  <2> HIDE DEF served, scanned
  <2> QED
    BY <1>1, <2>1, <2>3, <2>4
<1>6. ASSUME NEW c \in Callers, MisActivate(c) \/ Unavailable(c) PROVE BoardsAreHonest'
  <2>1. UNCHANGED <<offered, cache, snapshot>> /\ c \in DOMAIN calls
    BY <1>0, <1>6 DEF MisActivate, Unavailable, watcher, WatchTypes
  <2>2. calls' = [calls EXCEPT ![c] = [at |-> "answered", board |-> LastGood]]
    BY <1>6, Zenon DEF MisActivate, Unavailable, To, Answers
  <2>3. served(c)' /\ scanned(c)'
    BY <1>02, <2>1, <2>2 DEF HasAnswered, Honest
  <2>4. calls' = [calls EXCEPT ![c] = calls'[c]]
    BY <2>1, <2>2
  <2> HIDE DEF served, scanned
  <2> QED
    BY <1>1, <2>1, <2>3, <2>4
<1>7. ASSUME NEW c \in Callers, NEW f \in Ids, Scan(c, f) \/ Skip(c, f) PROVE BoardsAreHonest'
  <2>1. UNCHANGED <<offered, cache, snapshot>> /\ c \in DOMAIN calls /\ calls[c].at = "scanning" /\ calls[c] \in Scanning
    BY <1>0, <1>7, CallTypes DEF Scan, Skip, ScanTo, watcher, WatchTypes
  <2>2. PICK seen : calls' = [calls EXCEPT ![c] = [calls[c] EXCEPT !.todo = @ \ {f}, !.seen = seen]] /\ seen \in {calls[c].seen, Seeing(calls[c].seen, f, offered[f])}
    BY <1>7 DEF Scan, Skip, ScanTo, To
  <2>3. \A g \in DOMAIN seen : seen[g] \in 1..offered[g]
    <3>1. \A g \in DOMAIN calls[c].seen : calls[c].seen[g] \in 1..offered[g]
      BY <1>00, <2>1
    <3>2. offered[f] \in 1..offered[f] /\ calls[c].seen \in Snapshots /\ offered[f] \in Nat
      BY <1>0, <2>1 DEF WatchTypes, Scanning
    <3> QED
      BY <2>2, <3>1, <3>2 DEF Seeing
  <2>4. calls'[c].at = "scanning" /\ calls'[c].seen = seen
    BY <2>1, <2>2 DEF Scanning
  <2>5. served(c)' /\ scanned(c)'
    BY <2>1, <2>3, <2>4 DEF HasAnswered
  <2>6. calls' = [calls EXCEPT ![c] = calls'[c]]
    BY <2>1, <2>2
  <2> HIDE DEF served, scanned
  <2> QED
    BY <1>1, <2>1, <2>5, <2>6
<1>8. ASSUME NEW c \in Callers, Finish(c) PROVE BoardsAreHonest'
  <2> DEFINE board == BoardOf(calls[c].seen)
             reply == IF board = <<>> THEN LastGood ELSE board
  <2>1. UNCHANGED <<offered, snapshot>> /\ c \in DOMAIN calls /\ calls[c] \in Scanning /\ calls[c].at = "scanning"
    BY <1>0, <1>8, CallTypes DEF Finish, watcher, WatchTypes
  <2>2. Honest(board)
    BY <1>0, <1>00, <2>1, SeenIsHonest DEF Scanning
  <2>3. /\ calls' = [calls EXCEPT ![c] = [at |-> "answered", board |-> reply]]
        /\ cache' = Cached(board)
    BY <1>8, Zenon DEF Finish, To, Answers
  <2> HIDE DEF board
  <2>4. Honest(reply)
    BY <1>02, <2>2
  <2> HIDE DEF reply
  <2>5. Honest(cache.board)'
    <3>1. cache'.board \in {cache.board, board}
      BY <2>3 DEF Cached
    <3> QED
      BY <1>00, <2>1, <2>2, <3>1 DEF Honest
  <2>6. \A d \in Callers : served(d)' /\ scanned(d)'
    <3>1. \A d \in Callers : calls'[d] = IF d = c THEN [at |-> "answered", board |-> reply] ELSE calls[d]
      BY <1>0, <2>3 DEF WatchTypes
    <3> QED
      BY <1>00, <2>1, <2>4, <3>1 DEF HasAnswered, Honest
  <2>7. remembered'
    BY <1>00, <2>1
  <2> QED
    BY <2>5, <2>6, <2>7 DEF BoardsAreHonest
<1>9. ASSUME NEW c \in Callers, Poll(c) PROVE BoardsAreHonest'
  <2>1. UNCHANGED <<offered, cache>> /\ c \in DOMAIN calls /\ snapshot' = Snapshot(calls[c].board)
    BY <1>0, <1>9 DEF Poll, WatchTypes
  <2>2. calls' = [calls EXCEPT ![c] = [at |-> "idle"]]
    BY <1>9 DEF Poll, To, Resting
  <2>3. calls[c].board \in Boards /\ Honest(calls[c].board)
    BY <1>0, <1>00, <1>9, CallTypes DEF Poll, HasAnswered, Answering
  <2>4. remembered'
    BY <1>0, <2>1, <2>3, SnapshotLemma
  <2>5. \A d \in Callers : calls'[d] = IF d = c THEN [at |-> "idle"] ELSE calls[d]
    BY <1>0, <2>2 DEF WatchTypes
  <2>6. \A d \in Callers : served(d)' /\ scanned(d)'
    BY <1>00, <2>1, <2>5 DEF HasAnswered, Honest
  <2>7. Honest(cache.board)'
    BY <1>00, <2>1 DEF Honest
  <2> QED
    BY <2>4, <2>6, <2>7 DEF BoardsAreHonest
<1>10. CASE Tick \/ Pop \/ UNCHANGED watchVars
  <2>1. UNCHANGED <<offered, calls, snapshot>> /\ cache'.board = cache.board
    BY <1>0, <1>10 DEF Tick, Pop, watchVars, proxy, watcher, WatchTypes
  <2> QED
    BY <1>2, <2>1
<1> QED
  BY <1>3, <1>4, <1>5, <1>6, <1>7, <1>8, <1>9, <1>10 DEF WatchNext, Call
(* The events that are kept of a queue in which the event at p is followed.   *)
LEMMA KeptEvents ==
  ASSUME NEW all \in Seq(EventsOf), NEW p \in 1..Len(all),
         \A k \in 1..Len(all) : all[k].followed <=> k = p
  PROVE  /\ \A j \in DOMAIN Newest(all) : Newest(all)[j].followed =>
              Len(Newest(all)) - j = AtMost(Len(all) - p, MaxQueue)
         /\ ~IsFollowed(Newest(all)) => AtMost(Len(all) - p, MaxQueue) = MaxQueue
<1>1. PICK n \in Nat : n = Len(all)
  BY Elements
<1>2. MaxQueue \in Nat /\ MaxQueue > 0
  BY WatchAssumption
<1>3. PICK m \in Nat : m = AtMost(n, MaxQueue)
  BY <1>2 DEF AtMost
<1>4. PICK kept \in Seq(EventsOf) : kept = Newest(all)
  BY NewestLemma
<1>5. Len(kept) = m /\ DOMAIN kept = 1..m /\ \A j \in 1..m : kept[j] = all[n - m + j]
  BY <1>1, <1>3, <1>4, NewestLemma
<1>6. m =< n /\ m =< MaxQueue /\ (m < n => m = MaxQueue)
  BY <1>2, <1>3 DEF AtMost
<1>7. p \in 1..n /\ n - p \in Nat
  BY <1>1
<1>8. ASSUME NEW j \in 1..m PROVE kept[j].followed <=> n - m + j = p
  <2>1. n - m + j \in 1..n
    BY <1>6
  <2> QED
    BY <1>1, <1>5, <1>8, <2>1
<1>9. ASSUME NEW j \in 1..m, kept[j].followed PROVE m - j = AtMost(n - p, MaxQueue)
  <2>1. n - p = m - j
    BY <1>7, <1>8, <1>9
  <2> QED
    BY <1>2, <1>6, <1>7, <2>1 DEF AtMost
<1>10. ASSUME ~ \E j \in 1..m : kept[j].followed PROVE AtMost(n - p, MaxQueue) = MaxQueue
  <2>1. ~(p - (n - m) \in 1..m)
    <3> SUFFICES ASSUME p - (n - m) \in 1..m PROVE FALSE
      OBVIOUS
    <3>1. n - m + (p - (n - m)) = p
      BY <1>7
    <3> QED
      BY <1>8, <1>10, <3>1
  <2>2. p =< n - m
    BY <1>6, <1>7, <2>1
  <2>3. m < n /\ m = MaxQueue
    BY <1>6, <1>7, <2>2
  <2> QED
    BY <1>2, <1>7, <2>2, <2>3 DEF AtMost
<1> QED
  BY <1>1, <1>4, <1>5, <1>9, <1>10 DEF IsFollowed

LEMMA EventStaysFollowed ==
  ASSUME WatchInv, [WatchNext]_watchVars
  PROVE  EventIsFollowed'
<1>0. WatchTypes /\ EventIsFollowed
  BY DEF WatchInv
<1>1. CASE UNCHANGED <<queue, followed>>
  BY <1>0, <1>1 DEF EventIsFollowed, IsFollowed
<1>2. PICK n \in Nat : n = Len(queue) /\ DOMAIN queue = 1..n /\ \A i \in 1..n : queue[i] \in EventsOf
  BY <1>0, Elements DEF WatchTypes
<1>3. CASE Pop
  <2>1. /\ queue \in Seq(EventsOf) /\ n > 0 /\ Tail(queue) \in Seq(EventsOf) /\ Len(Tail(queue)) = n - 1
        /\ \A i \in 1..(n - 1) : Tail(queue)[i] = queue[i + 1]
        /\ Head(queue) = queue[1]
    BY <1>0, <1>2, <1>3, HeadTailProperties, Elements DEF Pop, WatchTypes
  <2>2. queue' = Tail(queue) /\ DOMAIN queue' = 1..(n - 1) /\ Len(queue') = n - 1
        /\ \A i \in 1..(n - 1) : queue'[i] = queue[i + 1]
    BY <1>3, <2>1, Elements DEF Pop
  <2>3. followed.newer \in Nat
    BY <1>0 DEF WatchTypes
  <2>4. CASE queue[1].followed
    <3>1. followed' = [at |-> "handed", newer |-> 0]
      BY <1>3, <2>1, <2>4 DEF Pop
    <3>2. n - 1 = followed.newer
      BY <1>0, <1>2, <2>1, <2>4 DEF EventIsFollowed
    <3>3. \A i \in 1..(n - 1) : ~queue[i + 1].followed
      <4> SUFFICES ASSUME NEW i \in 1..(n - 1), queue[i + 1].followed PROVE FALSE
        OBVIOUS
      <4>1. i + 1 \in 1..n
        BY <2>1
      <4>2. n - (i + 1) = followed.newer
        BY <1>0, <1>2, <4>1 DEF EventIsFollowed
      <4> QED
        BY <3>2, <4>2
    <3> QED
      BY <2>2, <3>1, <3>3 DEF EventIsFollowed, IsFollowed
  <2>5. CASE ~queue[1].followed
    <3>1. followed' = followed
      BY <1>3, <2>1, <2>5 DEF Pop
    <3>2. IsFollowed(queue)' <=> IsFollowed(queue)
      <4>1. ASSUME NEW i \in 1..n, queue[i].followed PROVE i - 1 \in 1..(n - 1) /\ queue'[i - 1].followed
        <5>1. i # 1 /\ i - 1 \in 1..(n - 1) /\ (i - 1) + 1 = i
          BY <2>1, <2>5, <4>1
        <5> QED
          BY <2>2, <4>1, <5>1
      <4>2. \A i \in 1..(n - 1) : i + 1 \in 1..n
        BY <2>1
      <4> QED
        BY <1>2, <2>2, <4>1, <4>2 DEF IsFollowed
    <3>3. ASSUME NEW i \in 1..(n - 1), queue'[i].followed PROVE (n - 1) - i = followed.newer
      <4>1. i + 1 \in 1..n /\ queue[i + 1].followed
        BY <2>1, <2>2, <3>3
      <4>2. n - (i + 1) = followed.newer
        BY <1>0, <1>2, <4>1 DEF EventIsFollowed
      <4> QED
        BY <4>2
    <3> QED
      BY <1>0, <2>2, <3>1, <3>2, <3>3 DEF EventIsFollowed
  <2> QED
    BY <2>4, <2>5
<1>4. ASSUME NEW c \in Callers, Poll(c) PROVE EventIsFollowed'
  <2> DEFINE raised == Events(calls[c].board)
  <2>1. raised \in Seq(EventsOf)
    BY <1>0, <1>4, CallTypes, EventsLemma DEF Poll, HasAnswered, Answering
  <2>2. PICK i \in 0..Len(raised) : queue' = Newest(queue \o Marked(raised, i)) /\ Follow(i, Marked(raised, i))
    BY <1>4, Zenon DEF Poll
  <2> HIDE DEF raised
  <2>3. PICK events \in Seq(EventsOf) : events = Marked(raised, i)
    BY <2>1, <2>2, FollowedEvents
  <2>4. PICK m \in Nat : m = Len(events) /\ i \in 0..m /\ \A j \in 1..m : events[j].followed <=> j = i
    <3>1. Len(raised) \in Nat
      BY <2>1, Elements
    <3>2. Len(Marked(raised, i)) = Len(raised) /\ \A j \in 1..Len(raised) : Marked(raised, i)[j].followed <=> j = i
      BY <2>1, <2>2, FollowedEvents
    <3> QED
      BY <2>2, <2>3, <3>1, <3>2
  <2>5. queue' = Newest(queue \o events) /\ Follow(i, events)
    BY <2>2, <2>3
  <2>6. PICK all \in Seq(EventsOf) :
          /\ all = queue \o events /\ Len(all) = n + m
          /\ \A k \in 1..(n + m) : all[k] = IF k <= n THEN queue[k] ELSE events[k - n]
    <3>1. queue \in Seq(EventsOf)
      BY <1>0 DEF WatchTypes
    <3>2. /\ queue \o events \in Seq(EventsOf) /\ Len(queue \o events) = Len(queue) + Len(events)
          /\ \A k \in 1..(Len(queue) + Len(events)) :
               (queue \o events)[k] = IF k <= Len(queue) THEN queue[k] ELSE events[k - Len(queue)]
      BY <3>1, ConcatProperties
    <3> QED
      BY <1>2, <2>4, <3>2
  <2>7. queue' = Newest(all) /\ DOMAIN queue' = 1..Len(queue')
    BY <2>5, <2>6, NewestLemma
  <2>8. followed \in [at : {"none", "queued", "aged", "handed"}, newer : Nat]
    BY <1>0 DEF WatchTypes
  (* p is the place of the event that is followed, if one is queued or raised. *)
  <2>9. ASSUME NEW p \in 1..(n + m), \A k \in 1..(n + m) : all[k].followed <=> k = p,
               followed' = [at |-> IF IsFollowed(queue') THEN "queued" ELSE "aged", newer |-> AtMost(n + m - p, MaxQueue)]
        PROVE  EventIsFollowed'
    <3>1. /\ \A j \in DOMAIN Newest(all) : Newest(all)[j].followed => Len(Newest(all)) - j = AtMost(n + m - p, MaxQueue)
          /\ ~IsFollowed(Newest(all)) => AtMost(n + m - p, MaxQueue) = MaxQueue
      <4>1. p \in 1..Len(all) /\ \A k \in 1..Len(all) : all[k].followed <=> k = p
        BY <2>6, <2>9
      <4>2. /\ \A j \in DOMAIN Newest(all) : Newest(all)[j].followed => Len(Newest(all)) - j = AtMost(Len(all) - p, MaxQueue)
            /\ ~IsFollowed(Newest(all)) => AtMost(Len(all) - p, MaxQueue) = MaxQueue
        BY <4>1, KeptEvents
      <4> QED
        BY <2>6, <4>2
    <3> QED
      BY <2>7, <2>9, <3>1 DEF EventIsFollowed, IsFollowed
  <2>10. CASE i > 0
    <3>1. followed.at = "none" /\ followed' = [at |-> IF IsFollowed(queue') THEN "queued" ELSE "aged", newer |-> AtMost(m - i, MaxQueue)]
      BY <2>4, <2>5, <2>10 DEF Follow
    <3>2. \A k \in 1..n : ~queue[k].followed
      BY <1>0, <1>2, <3>1 DEF EventIsFollowed, IsFollowed
    <3>3. n + i \in 1..(n + m) /\ n + m - (n + i) = m - i
      BY <2>4, <2>10
    <3>4. ASSUME NEW k \in 1..(n + m) PROVE all[k].followed <=> k = n + i
      <4>1. CASE k =< n
        <5>1. k \in 1..n /\ all[k] = queue[k] /\ k # n + i
          BY <2>4, <2>6, <2>10, <4>1
        <5> QED
          BY <3>2, <5>1
      <4>2. CASE k > n
        <5>1. k - n \in 1..m /\ all[k] = events[k - n] /\ (k - n = i <=> k = n + i)
          BY <2>4, <2>6, <4>2
        <5> QED
          BY <2>4, <5>1
      <4> QED
        BY <4>1, <4>2
    <3> QED
      BY <2>9, <3>1, <3>3, <3>4
  <2>11. CASE i = 0 /\ followed.at = "queued"
    <3>1. followed' = [at |-> IF IsFollowed(queue') THEN "queued" ELSE "aged", newer |-> AtMost(followed.newer + m, MaxQueue)]
      BY <2>4, <2>5, <2>11 DEF Follow
    <3>2. PICK p \in 1..n : queue[p].followed
      BY <1>0, <1>2, <2>11 DEF EventIsFollowed, IsFollowed
    <3>3. \A k \in 1..n : queue[k].followed => n - k = followed.newer
      BY <1>0, <1>2 DEF EventIsFollowed
    <3>4. p \in 1..(n + m) /\ n + m - p = followed.newer + m
      BY <2>8, <3>2, <3>3
    <3>5. ASSUME NEW k \in 1..(n + m) PROVE all[k].followed <=> k = p
      <4>1. CASE k =< n
        <5>1. queue[k].followed => n - k = n - p
          BY <3>2, <3>3, <4>1
        <5> QED
          BY <2>6, <3>2, <4>1, <5>1
      <4>2. CASE k > n
        <5>1. k - n \in 1..m /\ all[k] = events[k - n]
          BY <2>4, <2>6, <4>2
        <5> QED
          BY <2>4, <2>11, <3>2, <4>2, <5>1
      <4> QED
        BY <4>1, <4>2
    <3> QED
      BY <2>9, <3>1, <3>4, <3>5
  <2>12. CASE i = 0 /\ followed.at # "queued"
    <3>1. followed' = followed
      BY <2>5, <2>12 DEF Follow
    <3>2. \A k \in 1..n : ~queue[k].followed
      BY <1>0, <1>2, <2>12 DEF EventIsFollowed, IsFollowed
    <3>3. ASSUME NEW k \in 1..(n + m) PROVE ~all[k].followed
      <4>1. CASE k =< n
        <5>1. k \in 1..n /\ all[k] = queue[k]
          BY <2>6, <4>1
        <5> QED
          BY <3>2, <5>1
      <4>2. CASE k > n
        <5>1. k - n \in 1..m /\ all[k] = events[k - n]
          BY <2>4, <2>6, <4>2
        <5> QED
          BY <2>4, <2>12, <5>1
      <4> QED
        BY <4>1, <4>2
    <3>4. \A j \in DOMAIN queue' : ~queue'[j].followed
      <4>1. PICK q \in Nat : q = n + m
        OBVIOUS
      <4>2. AtMost(q, MaxQueue) \in Nat /\ AtMost(q, MaxQueue) =< q
        BY WatchAssumption DEF AtMost
      <4>3. PICK l \in Nat : l = AtMost(q, MaxQueue) /\ l =< q
        BY <4>2
      <4>4. Len(queue') = l /\ \A j \in 1..l : queue'[j] = all[q - l + j]
        <5>1. /\ Len(Newest(all)) = AtMost(Len(all), MaxQueue)
              /\ \A j \in 1..Len(Newest(all)) : Newest(all)[j] = all[Len(all) - Len(Newest(all)) + j]
          BY NewestLemma
        <5> QED
          BY <2>6, <2>7, <4>1, <4>3, <5>1
      <4>5. \A j \in 1..l : q - l + j \in 1..q
        BY <4>3
      <4> QED
        BY <2>7, <3>3, <4>1, <4>4, <4>5
    <3> QED
      BY <1>0, <2>12, <3>1, <3>4 DEF EventIsFollowed, IsFollowed
  <2> QED
    BY <2>4, <2>10, <2>11, <2>12
<1>5. \/ UNCHANGED <<queue, followed>> \/ Pop \/ \E c \in Callers : Poll(c)
  BY DEF WatchNext, Call, watchVars, watcher, Offer, Tick, Ask, Activate, MisActivate, List, Unavailable, Finish, Scan, Skip, ScanTo, Leave
<1> QED
  BY <1>1, <1>3, <1>4, <1>5
(* What comes back of a filter, if it is anything.                            *)
LEMMA SomethingIsServed ==
  ASSUME WatchTypes, NothingGoesBack, ~crossed, NEW c \in Callers, HasAnswered(c)
  PROVE  calls[c].board \in {<<>>, cache.board} /\ IsAhead(calls[c].board)
  BY DEF NothingGoesBack, IsAhead

LEMMA NothingStillGoesBack ==
  ASSUME WatchInv, [WatchNext]_watchVars
  PROVE  NothingGoesBack'
<1>0. WatchTypes /\ BoardsAreHonest /\ NothingGoesBack /\ WatchTypes' /\ CacheIsGood
  BY WatchTypesHold DEF WatchInv
<1>00. crossed => crossed'
  BY DEF WatchNext, Call, watchVars, proxy, Offer, Tick, Ask, Activate, MisActivate, List, Unavailable, Finish, Scan, Skip, ScanTo, Poll, Leave, Pop
<1> SUFFICES ASSUME ~crossed, ~crossed' PROVE NothingGoesBack'
  BY <1>00 DEF NothingGoesBack
<1> DEFINE served(c) == HasAnswered(c) => calls[c].board = <<>> \/ calls[c].board = cache.board
           scanned(c) == calls[c].at = "scanning" =>
             \A f \in DOMAIN calls[c].seen \cap DOMAIN snapshot : snapshot[f] =< calls[c].seen[f]
<1>01. /\ \A c, d \in Callers : calls[c] # Resting /\ calls[d] # Resting => c = d
       /\ IsAhead(cache.board)
       /\ \A c \in Callers : served(c) /\ scanned(c)
  BY <1>0 DEF NothingGoesBack
(* A step of the one call that is under way. *)
<1>1. ASSUME NEW c \in Callers, NEW stage, calls' = [calls EXCEPT ![c] = stage],
             \A d \in Callers : d # c => calls[d] = Resting,
             IsAhead(cache.board)', served(c)', scanned(c)'
      PROVE  NothingGoesBack'
  <2>1. \A d \in Callers : d # c => calls'[d] = Resting
    BY <1>0, <1>1 DEF WatchTypes
  <2>2. \A d \in Callers : served(d)' /\ scanned(d)'
    BY <1>1, <2>1 DEF HasAnswered, Resting
  <2>3. \A d, e \in Callers : calls'[d] # Resting /\ calls'[e] # Resting => d = e
    BY <2>1
  <2> QED
    BY <1>1, <2>2, <2>3 DEF NothingGoesBack
<1>2. ASSUME NEW c \in Callers, calls[c] # Resting PROVE \A d \in Callers : d # c => calls[d] = Resting
  BY <1>01, <1>2
<1>3. CASE UNCHANGED <<calls, snapshot>> /\ cache'.board = cache.board
  BY <1>01, <1>3 DEF NothingGoesBack, HasAnswered, IsAhead
<1>4. ASSUME NEW c \in Callers, Ask(c) PROVE NothingGoesBack'
  <2>1. UNCHANGED <<cache, snapshot>> /\ \A d \in Callers : calls[d] = Resting
    BY <1>4 DEF Ask, watcher
  <2>2. \/ calls' = [calls EXCEPT ![c] = [at |-> "answered", board |-> cache.board]]
        \/ calls' = [calls EXCEPT ![c] = [at |-> IF apiToken = "none" THEN "activating" ELSE "listing"]]
    BY <1>4, Zenon DEF Ask, To, Answers
  <2>3. c \in DOMAIN calls
    BY <1>0 DEF WatchTypes
  <2>4. served(c)' /\ scanned(c)' /\ IsAhead(cache.board)'
    BY <1>01, <2>1, <2>2, <2>3 DEF HasAnswered, IsAhead
  <2> HIDE DEF served, scanned
  <2> QED
    BY <1>1, <2>1, <2>2, <2>4
<1>5. ASSUME NEW c \in Callers, Activate(c) \/ List(c) \/ Leave(c) PROVE NothingGoesBack'
  <2>1. UNCHANGED <<cache, snapshot>> /\ c \in DOMAIN calls /\ calls[c] # Resting
    BY <1>0, <1>5 DEF Activate, List, Leave, HasAnswered, watcher, WatchTypes, Resting
  <2>2. PICK stage \in {[at |-> "listing"], [at |-> "scanning", todo |-> Ids, seen |-> <<>>], [at |-> "idle"]} :
          calls' = [calls EXCEPT ![c] = stage]
    BY <1>5 DEF Activate, List, Leave, To, Resting
  <2>3. served(c)' /\ scanned(c)' /\ IsAhead(cache.board)'
    BY <1>01, <2>1, <2>2, NothingSeen DEF HasAnswered, IsAhead
  <2> HIDE DEF served, scanned
  <2> QED
    BY <1>1, <1>2, <2>1, <2>2, <2>3
<1>6. ASSUME NEW c \in Callers, MisActivate(c) \/ Unavailable(c) PROVE NothingGoesBack'
  <2>1. UNCHANGED <<cache, snapshot>> /\ c \in DOMAIN calls /\ calls[c] # Resting
    BY <1>0, <1>6 DEF MisActivate, Unavailable, watcher, WatchTypes, Resting
  <2>2. calls' = [calls EXCEPT ![c] = [at |-> "answered", board |-> LastGood]]
    BY <1>6, Zenon DEF MisActivate, Unavailable, To, Answers
  <2>3. served(c)' /\ scanned(c)' /\ IsAhead(cache.board)'
    <3>1. LastGood \in {<<>>, cache.board}
      BY <1>0, LastGoodLemma
    <3> QED
      BY <1>01, <2>1, <2>2, <3>1 DEF HasAnswered, IsAhead
  <2> HIDE DEF served, scanned
  <2> QED
    BY <1>1, <1>2, <2>1, <2>2, <2>3
<1>7. ASSUME NEW c \in Callers, NEW f \in Ids, Scan(c, f) \/ Skip(c, f) PROVE NothingGoesBack'
  <2>1. UNCHANGED <<cache, snapshot>> /\ c \in DOMAIN calls /\ calls[c].at = "scanning" /\ calls[c] \in Scanning
    BY <1>0, <1>7, CallTypes DEF Scan, Skip, ScanTo, watcher, WatchTypes
  <2>2. PICK seen \in {calls[c].seen, Seeing(calls[c].seen, f, offered[f])} :
          calls' = [calls EXCEPT ![c] = [calls[c] EXCEPT !.todo = @ \ {f}, !.seen = seen]]
    BY <1>7 DEF Scan, Skip, ScanTo, To
  <2>3. \A g \in DOMAIN seen \cap DOMAIN snapshot : snapshot[g] =< seen[g]
    <3>1. \A g \in DOMAIN calls[c].seen \cap DOMAIN snapshot : snapshot[g] =< calls[c].seen[g]
      BY <1>01, <2>1
    <3>2. f \in DOMAIN snapshot => snapshot[f] =< offered[f]
      BY <1>0 DEF WatchTypes, BoardsAreHonest
    <3> QED
      BY <2>2, <3>1, <3>2 DEF Seeing
  <2>4. calls'[c].at = "scanning" /\ calls'[c].seen = seen
    BY <2>1, <2>2 DEF Scanning
  <2>5. served(c)' /\ scanned(c)' /\ IsAhead(cache.board)'
    BY <1>01, <2>1, <2>3, <2>4 DEF HasAnswered, IsAhead
  <2>6. calls[c] # Resting
    BY <2>1 DEF Resting
  <2> HIDE DEF served, scanned
  <2> QED
    BY <1>1, <1>2, <2>2, <2>5, <2>6
<1>8. ASSUME NEW c \in Callers, Finish(c) PROVE NothingGoesBack'
  <2> DEFINE board == BoardOf(calls[c].seen)
             reply == IF board = <<>> THEN LastGood ELSE board
  <2>1. UNCHANGED snapshot /\ c \in DOMAIN calls /\ calls[c] \in Scanning /\ calls[c].at = "scanning" /\ calls[c] # Resting
    BY <1>0, <1>8, CallTypes DEF Finish, watcher, WatchTypes, Resting
  <2>2. IsAhead(board)
    <3>1. \A i \in DOMAIN board : board[i].fixture \in DOMAIN calls[c].seen /\ board[i].offer = calls[c].seen[board[i].fixture]
      BY <2>1, BoardLemma DEF Scanning
    <3>2. \A f \in DOMAIN calls[c].seen \cap DOMAIN snapshot : snapshot[f] =< calls[c].seen[f]
      BY <1>01, <2>1
    <3> HIDE DEF board
    <3> QED
      BY <3>1, <3>2 DEF IsAhead
  <2>3. /\ calls' = [calls EXCEPT ![c] = [at |-> "answered", board |-> reply]]
        /\ cache' = Cached(board)
    BY <1>8, Zenon DEF Finish, To, Answers
  <2> HIDE DEF board
  <2>4. IsAhead(cache.board)'
    <3>1. cache'.board \in {cache.board, board}
      BY <2>3 DEF Cached
    <3> QED
      BY <1>01, <2>1, <2>2, <3>1 DEF IsAhead
  <2>5. reply = <<>> \/ reply = cache'.board
    BY <1>0, <2>3, LastGoodLemma DEF Cached
  <2> HIDE DEF reply
  <2>6. served(c)' /\ scanned(c)'
    BY <2>1, <2>3, <2>5 DEF HasAnswered
  <2> HIDE DEF served, scanned
  <2> QED
    BY <1>1, <1>2, <2>1, <2>3, <2>4, <2>6
<1>9. ASSUME NEW c \in Callers, Poll(c) PROVE NothingGoesBack'
  <2>1. /\ UNCHANGED cache /\ c \in DOMAIN calls /\ snapshot' = Snapshot(calls[c].board)
        /\ HasAnswered(c) /\ calls[c] # Resting
    BY <1>0, <1>9 DEF Poll, WatchTypes, HasAnswered, Resting
  <2>2. calls' = [calls EXCEPT ![c] = [at |-> "idle"]]
    BY <1>9 DEF Poll, To, Resting
  <2>3. calls[c].board \in Boards /\ Honest(calls[c].board) /\ calls[c].board \in {<<>>, cache.board}
    BY <1>0, <1>01, <2>1, CallTypes DEF HasAnswered, Answering, BoardsAreHonest
  <2>4. PICK board \in Boards : board = calls[c].board /\ Honest(board) /\ board \in {<<>>, cache.board}
    BY <2>3
  <2>5. /\ \A i \in DOMAIN board : board[i].fixture \in Seen(board) => Shown(board, board[i].fixture) = board[i].offer
        /\ \A f \in DOMAIN Snapshot(board) : \E i \in DOMAIN board : board[i].fixture = f
        /\ DOMAIN Snapshot(board) = Seen(board) /\ \A f \in Seen(board) : Snapshot(board)[f] = Shown(board, f)
    BY <1>0, <2>4, SnapshotLemma
  <2>6. IsAhead(cache.board)'
    <3>1. CASE board = <<>>
      <4>1. DOMAIN snapshot' = {}
        BY <2>1, <2>4, <2>5, <3>1, NothingSeen
      <4> QED
        BY <4>1 DEF IsAhead
    <3>2. CASE board = cache.board
      <4> SUFFICES ASSUME NEW i \in DOMAIN board, board[i].fixture \in DOMAIN snapshot'
                   PROVE  snapshot'[board[i].fixture] =< board[i].offer
        BY <2>1, <3>2 DEF IsAhead
      <4>1. snapshot'[board[i].fixture] = board[i].offer
        BY <2>1, <2>4, <2>5
      <4>2. board[i].offer \in Nat
        <5>1. board[i] \in Lines
          BY Elements DEF Boards, Lines
        <5> QED
          BY <5>1 DEF Lines
      <4> QED
        BY <4>1, <4>2
    <3> QED
      BY <2>4, <3>1, <3>2
  <2>7. served(c)' /\ scanned(c)'
    BY <2>1, <2>2 DEF HasAnswered
  <2> HIDE DEF served, scanned
  <2> QED
    BY <1>1, <1>2, <2>1, <2>2, <2>6, <2>7
<1>10. CASE (\E f \in Ids : Offer(f)) \/ Tick \/ Pop \/ UNCHANGED watchVars
  <2>1. UNCHANGED <<calls, snapshot>> /\ cache'.board = cache.board
    BY <1>0, <1>10 DEF Offer, Tick, Pop, watchVars, proxy, watcher, WatchTypes
  <2> QED
    BY <1>3, <2>1
<1> QED
  BY <1>4, <1>5, <1>6, <1>7, <1>8, <1>9, <1>10 DEF WatchNext, Call

LEMMA WatchInvInit == WatchInit => WatchInv
<1> SUFFICES ASSUME WatchInit PROVE WatchInv
  OBVIOUS
<1> USE DEF WatchInit
<1>1. {Fresh, Keep, MaxQueue, MovePct} \subseteq Nat \ {0}
  BY WatchAssumption
<1>2. WatchTypes
  <2>1. \A f \in Ids : Len(Offers[f]) \in Nat \ {0}
    BY WatchAssumption
  <2>2. calls \in [Callers -> Ready \cup Scanning \cup Answering] /\ snapshot \in Snapshots /\ cache.board \in Boards
    BY NothingSeen DEF Resting, Ready
  <2>3. queue \in Seq(EventsOf) /\ Len(queue) = 0
    OBVIOUS
  <2>4. offered \in [Ids -> Nat] /\ \A f \in Ids : offered[f] \in 1..Len(Offers[f])
    BY <2>1
  <2>5. cache \in [age : 0..Keep, board : Boards] /\ good \in 0..Keep
    BY <1>1, NothingSeen
  <2>6. followed \in [at : {"none", "queued", "aged", "handed"}, newer : Nat] /\ Len(queue) =< MaxQueue
    BY <1>1, <2>3
  <2> QED
    BY <2>2, <2>3, <2>4, <2>5, <2>6 DEF WatchTypes
<1>3. CacheIsGood
  BY <1>1 DEF CacheIsGood
<1>4. EventIsFollowed
  BY DEF EventIsFollowed, IsFollowed
<1>5. BoardsAreHonest /\ NothingGoesBack
  BY NothingSeen DEF BoardsAreHonest, NothingGoesBack, Honest, IsAhead, HasAnswered, Resting
<1> QED
  BY <1>2, <1>3, <1>4, <1>5 DEF WatchInv

(* The invariant of the proxy and the watcher.                                *)
THEOREM WatchInvariant == WatchSpec => []WatchInv
<1>1. WatchInv /\ [WatchNext]_watchVars => WatchInv'
  BY WatchTypesHold, CacheStaysGood, EventStaysFollowed, BoardsStayHonest, NothingStillGoesBack DEF WatchInv
<1> QED
  BY <1>1, WatchInvInit, PTL DEF WatchSpec

(* The watcher's queue, next(): what was raised is queued behind nothing but  *)
(* earlier events, was handed out, or gave way to MaxQueue later ones.        *)
THEOREM NewestEventsAreKept == WatchSpec => []QueueKeepsNewest
<1>1. WatchInv => QueueKeepsNewest
  <2> SUFFICES ASSUME WatchInv PROVE QueueKeepsNewest
    OBVIOUS
  <2>1. WatchTypes /\ EventIsFollowed
    BY DEF WatchInv
  <2>2. \A c \in Callers : calls[c].at \in {"idle", "activating", "listing", "scanning", "answered"}
    BY <2>1, CallTypes
  <2>3. \A i \in DOMAIN queue : queue[i] \in EventsOf
    BY <2>1, Elements DEF WatchTypes
  <2>4. WatchTypeOK
    BY <2>1, <2>2, <2>3 DEF WatchTypeOK, WatchTypes, Snapshots, EventsOf
  <2> QED
    BY <2>1, <2>4 DEF QueueKeepsNewest, EventIsFollowed
<1> QED
  BY <1>1, WatchInvariant, PTL

(* board(): "never let a transient upstream outage surface".                  *)
THEOREM OutagesStayHidden == WatchSpec => BoardSurvivesOutages
<1> DEFINE hides == \A c \in Callers : HasAnswered(c)' /\ ~HasAnswered(c) /\ calls'[c].board = <<>> => good' >= Keep
<1>1. WatchInv /\ [WatchNext]_watchVars => [hides]_watchVars
  <2> SUFFICES ASSUME WatchInv, WatchNext PROVE hides
    OBVIOUS
  <2>1. WatchTypes /\ CacheIsGood
    BY DEF WatchInv
  <2> SUFFICES ASSUME NEW c \in Callers, HasAnswered(c)', ~HasAnswered(c), calls'[c].board = <<>>
               PROVE  good' >= Keep
    OBVIOUS
  <2>2. good \in Nat /\ Keep \in Nat /\ cache.age \in Nat
    BY <2>1, WatchAssumption DEF WatchTypes
  <2>3. LastGood = <<>> => good >= Keep
    BY <2>1, <2>2 DEF LastGood, IsKept, CacheIsGood
  <2>4. ASSUME NEW d \in Callers, NEW stage, calls' = [calls EXCEPT ![d] = stage]
        PROVE  c = d /\ calls'[c] = stage
    BY <2>1, <2>4 DEF WatchTypes, HasAnswered
  <2>5. calls' # calls
    BY DEF HasAnswered
  <2>6. ASSUME NEW d \in Callers, Ask(d) PROVE good' >= Keep
    <3> DEFINE stage == [at |-> "answered", board |-> cache.board]
               waiting == [at |-> IF apiToken = "none" THEN "activating" ELSE "listing"]
    <3>1. \/ cache.board # <<>> /\ calls' = [calls EXCEPT ![d] = stage]
          \/ calls' = [calls EXCEPT ![d] = waiting]
      BY <2>6, Zenon DEF Ask, To, Answers
    <3>2. stage.board = cache.board /\ waiting.at # "answered"
      OBVIOUS
    <3> HIDE DEF stage, waiting
    <3> QED
      BY <2>4, <3>1, <3>2 DEF HasAnswered
  <2>7. ASSUME NEW d \in Callers, MisActivate(d) \/ Unavailable(d) PROVE good' >= Keep
    <3> DEFINE stage == [at |-> "answered", board |-> LastGood]
    <3>1. good' = good /\ calls' = [calls EXCEPT ![d] = stage]
      BY <2>7, Zenon DEF MisActivate, Unavailable, To, Answers
    <3>2. stage.board = LastGood
      OBVIOUS
    <3> HIDE DEF stage
    <3> QED
      BY <2>3, <2>4, <3>1, <3>2
  <2>8. ASSUME NEW d \in Callers, Finish(d) PROVE good' >= Keep
    <3> DEFINE board == BoardOf(calls[d].seen)
               reply == IF board = <<>> THEN LastGood ELSE board
               stage == [at |-> "answered", board |-> reply]
    <3>1. /\ calls' = [calls EXCEPT ![d] = stage]
          /\ good' = IF board = <<>> THEN good ELSE 0
      BY <2>8, Zenon DEF Finish, To, Answers
    <3>2. stage.board = reply
      OBVIOUS
    <3> HIDE DEF board, stage
    <3> QED
      BY <2>3, <2>4, <3>1, <3>2
  <2>9. ASSUME NEW d \in Callers, Activate(d) \/ List(d) \/ Poll(d) \/ Leave(d) PROVE FALSE
    <3>1. PICK stage \in {[at |-> "listing"], [at |-> "scanning", todo |-> Ids, seen |-> <<>>], [at |-> "idle"]} :
            calls' = [calls EXCEPT ![d] = stage]
      BY <2>9 DEF Activate, List, Poll, Leave, To, Resting
    <3> QED
      BY <2>4, <3>1 DEF HasAnswered
  <2>10. ASSUME NEW d \in Callers, NEW f \in Ids, Scan(d, f) \/ Skip(d, f) PROVE FALSE
    <3>1. PICK seen : calls' = [calls EXCEPT ![d] = [calls[d] EXCEPT !.todo = @ \ {f}, !.seen = seen]]
      BY <2>10 DEF Scan, Skip, ScanTo, To
    <3>2. calls[d] \in Scanning
      BY <2>1, <2>10, CallTypes DEF Scan, Skip, ScanTo
    <3> QED
      BY <2>4, <3>1, <3>2 DEF HasAnswered, Scanning
  <2>11. ASSUME Tick \/ Pop \/ \E f \in Ids : Offer(f) PROVE FALSE
    BY <2>5, <2>11 DEF Tick, Pop, Offer, proxy
  <2> QED
    BY <2>6, <2>7, <2>8, <2>9, <2>10, <2>11 DEF WatchNext, Call
<1>2. BoardSurvivesOutages <=> [][hides]_watchVars
  BY DEF BoardSurvivesOutages
<1> QED
  BY <1>1, <1>2, WatchInvariant, PTL DEF WatchSpec

-----------------------------------------------------------------------------
(* The numbers a move is made of.                                             *)

Numbers == {NA} \cup Int

LEMMA FoundMarket ==
  ASSUME NEW odds, AreOdds(odds), NEW found \in SUBSET DOMAIN odds
  PROVE  (IF found = {} THEN NoMarket ELSE odds[Min(found)]).pct \in Seq(Numbers)
<1>1. found # {} => Min(found) \in found
  <2> SUFFICES ASSUME found # {} PROVE Min(found) \in found
    OBVIOUS
  <2>1. found \subseteq Nat
    BY DEF AreOdds
  <2>2. PICK n \in found : \A m \in found : n =< m
    BY <2>1, LeastNumber
  <2> QED
    BY <2>2 DEF Min
<1>2. NoMarket.pct \in Seq(Numbers)
  BY DEF NoMarket
<1>3. \A i \in DOMAIN odds : odds[i].pct \in Seq(Numbers)
  BY DEF AreOdds, Numbers
<1> QED
  BY <1>1, <1>2, <1>3

LEMMA PctsAreNumbers ==
  ASSUME NEW f \in Ids, NEW offer \in 1..Len(Offers[f])
  PROVE  PctsOf[f][offer] \in Seq(Int)
<1> DEFINE odds == OddsAt(f, offer)
           market == Select1x2Market(odds)
           first == {i \in DOMAIN odds : odds[i].kind = "1X2" /\ HasFinitePrice(odds[i])}
           any == {i \in DOMAIN odds : HasFinitePrice(odds[i])}
           of(found) == IF found = {} THEN NoMarket ELSE odds[Min(found)]
<1>1. offer \in DOMAIN Offers[f] /\ AreOdds(odds)
  BY WatchAssumption DEF OddsAt
<1>2. PctsOf[f][offer] = Pcts(market)
  BY <1>1 DEF PctsOf
<1>3. market = IF of(first) # NoMarket THEN of(first) ELSE of(any)
  BY DEF Select1x2Market, Prefer1x2, FindIn
<1> HIDE DEF odds, market
<1>4. of(first).pct \in Seq(Numbers) /\ of(any).pct \in Seq(Numbers)
  BY <1>1, FoundMarket
<1> HIDE DEF of, first, any
<1>5. market.pct \in Seq(Numbers)
  BY <1>3, <1>4
<1>6. Pcts(market) \in Seq(Numbers) /\ ToSet(Pcts(market)) \subseteq Int
  <2>1. /\ Only(market.pct, ToSet(market.pct) \ {NA}) \in Seq(Numbers)
        /\ ToSet(Only(market.pct, ToSet(market.pct) \ {NA})) = ToSet(market.pct) \cap (ToSet(market.pct) \ {NA})
    BY <1>5, FilterLemma
  <2>2. ToSet(market.pct) \subseteq Numbers
    BY <1>5, Elements DEF ToSet
  <2> QED
    BY <2>1, <2>2 DEF Pcts, Numbers
<1>7. \A p \in Seq(Numbers) : ToSet(p) \subseteq Int => p \in Seq(Int)
  <2> SUFFICES ASSUME NEW p \in Seq(Numbers), ToSet(p) \subseteq Int PROVE p \in Seq(Int)
    OBVIOUS
  <2>1. Len(p) \in Nat /\ DOMAIN p = 1..Len(p)
    BY Elements
  <2>2. p \in [1..Len(p) -> Int]
    BY <2>1 DEF ToSet
  <2> QED
    BY <2>1, <2>2
<1> QED
  BY <1>2, <1>6, <1>7

(* The numbers of an offer have not moved from themselves.                    *)
LEMMA NoMoveFromItself ==
  ASSUME NEW p \in Seq(Int)
  PROVE  ~Moved(p, p, MovePct)
<1>1. DOMAIN p = 1..Len(p) /\ \A i \in 1..Len(p) : p[i] \in Int
  BY Elements
<1>2. MovePct \in Nat /\ MovePct > 0
  BY WatchAssumption
<1> QED
  BY <1>1, <1>2 DEF Moved, Differ

(* board, detectEvents: without overlapping calls, a move is to later odds.   *)
THEOREM MovesGoForward == WatchSpec => MovesAreBacked
<1> DEFINE backs == \A c \in Callers : Poll(c) =>
              \A i \in DOMAIN Events(calls[c].board) :
                LET event == Events(calls[c].board)[i] IN
                event.kind = "odds-move" => crossed \/ snapshot[event.fixture] < Shown(calls[c].board, event.fixture)
<1>1. WatchInv => backs
  <2> SUFFICES ASSUME WatchInv, NEW c \in Callers, Poll(c), NEW i \in DOMAIN Events(calls[c].board),
                      Events(calls[c].board)[i].kind = "odds-move", ~crossed
               PROVE  snapshot[Events(calls[c].board)[i].fixture] < Shown(calls[c].board, Events(calls[c].board)[i].fixture)
    OBVIOUS
  <2>1. WatchTypes /\ BoardsAreHonest /\ NothingGoesBack /\ HasAnswered(c)
    BY DEF WatchInv, Poll
  <2>2. PICK board \in Boards : board = calls[c].board /\ Honest(board) /\ IsAhead(board)
    BY <2>1, CallTypes, SomethingIsServed DEF HasAnswered, Answering, BoardsAreHonest
  <2>3. PICK k \in DOMAIN board :
          /\ board[k].fixture = Events(board)[i].fixture
          /\ board[k].fixture \in Seen(board) /\ board[k].fixture \in DOMAIN snapshot
          /\ HasMoved(board[k].fixture, board[k].offer)
    BY <2>2, EventsLemma
  <2>4. PICK f \in Ids : f = board[k].fixture
    BY <2>1, <2>3 DEF WatchTypes, Snapshots
  <2>5. Shown(board, f) = board[k].offer
    BY <2>1, <2>2, <2>3, <2>4, SnapshotLemma
  <2>6. /\ snapshot[f] \in 1..offered[f] /\ board[k].offer \in 1..offered[f] /\ snapshot[f] =< board[k].offer
        /\ offered[f] \in 1..Len(Offers[f])
    BY <2>1, <2>2, <2>3, <2>4 DEF WatchTypes, BoardsAreHonest, Honest, IsAhead
  <2>7. Moved(PctsOf[f][snapshot[f]], PctsOf[f][board[k].offer], MovePct)
    BY <2>3, <2>4 DEF HasMoved
  <2>8. board[k].offer \in 1..Len(Offers[f])
    <3>1. Len(Offers[f]) \in Nat
      BY WatchAssumption
    <3> QED
      BY <2>6, <3>1
  <2>9. snapshot[f] # board[k].offer
    BY <2>7, <2>8, PctsAreNumbers, NoMoveFromItself
  <2> QED
    BY <2>2, <2>3, <2>4, <2>5, <2>6, <2>9
<1>2. WatchInv /\ [WatchNext]_watchVars => [backs]_watchVars
  BY <1>1
<1>3. MovesAreBacked <=> [][backs]_watchVars
  BY DEF MovesAreBacked
<1> QED
  BY <1>2, <1>3, WatchInvariant, PTL DEF WatchSpec

-----------------------------------------------------------------------------
(* The reads.                                                                 *)

LEMMA LeastOf ==
  ASSUME NEW T, T \subseteq Nat, T # {}
  PROVE  Min(T) \in T /\ \A m \in T : Min(T) =< m
<1>1. PICK n \in T : \A m \in T : n =< m
  BY LeastNumber
<1> QED
  BY <1>1 DEF Min

(* Of finitely many numbers one is the highest.                               *)
Highest(p, S) == {i \in S : \A j \in S : p[j] <= p[i]}

LEMMA HighestIsThere ==
  ASSUME NEW n \in Nat, NEW p, NEW S, S \subseteq 1..n, S # {}, \A i \in S : p[i] \in Int
  PROVE  Highest(p, S) # {}
<1> DEFINE T == {k \in 0..n : \E i \in S : i =< k /\ Highest(p, {j \in S : j =< k}) = {}}
<1>1. SUFFICES ASSUME T # {} PROVE FALSE
  <2>1. n \notin T
    BY <1>1
  <2>2. \A j \in S : j =< n
    OBVIOUS
  <2>3. {j \in S : j =< n} = S
    BY <2>2, Zenon
  <2>4. \E i \in S : i =< n
    BY <2>2, Zenon
  <2>5. n \in 0..n
    OBVIOUS
  <2> QED
    BY <2>1, <2>3, <2>4, <2>5
<1>2. PICK k \in T : \A m \in T : k =< m
  <2>1. T \subseteq Nat
    OBVIOUS
  <2> HIDE DEF T
  <2> QED
    BY <1>1, <2>1, LeastNumber
<1> DEFINE upTo(m) == {j \in S : j =< m}
<1>3. k \in 0..n /\ Highest(p, upTo(k)) = {} /\ \E i \in S : i =< k
  BY <1>2
<1>4. k \in S
  <2> SUFFICES ASSUME k \notin S PROVE FALSE
    OBVIOUS
  <2>1. k - 1 \in 0..n
    BY <1>3
  <2>2. \A j \in S : j =< k <=> j =< k - 1
    <3>1. \A j \in S : j \in Int /\ j # k
      OBVIOUS
    <3>2. k \in Int
      BY <1>3
    <3> QED
      BY <3>1, <3>2
  <2>3. upTo(k - 1) = upTo(k) /\ \E i \in S : i =< k - 1
    BY <1>3, <2>2
  <2>4. k - 1 \in T
    BY <1>3, <2>1, <2>2, <2>3
  <2> HIDE DEF T
  <2> QED
    BY <1>2, <1>3, <2>4
<1>5. upTo(k) = upTo(k - 1) \cup {k} /\ k - 1 \in 0..n
  <2>1. k \in 1..n
    BY <1>4
  <2>2. \A j \in S : j =< k <=> j =< k - 1 \/ j = k
    <3>1. \A j \in S : j \in Int
      OBVIOUS
    <3> QED
      BY <2>1, <3>1
  <2>3. k =< k /\ k - 1 \in 0..n
    BY <2>1
  <2> QED
    BY <1>4, <2>2, <2>3
<1>6. CASE upTo(k - 1) = {}
  <2>1. k \in Highest(p, upTo(k))
    BY <1>4, <1>5, <1>6 DEF Highest
  <2> QED
    BY <1>3, <2>1
<1>7. CASE upTo(k - 1) # {}
  <2>1. PICK h : h \in Highest(p, upTo(k - 1))
    <3>1. k - 1 \in 0..n /\ \E i \in S : i =< k - 1
      BY <1>5, <1>7
    <3>2. k - 1 \notin T
      <4> HIDE DEF T
      <4> QED
        BY <1>2, <1>3
    <3> QED
      BY <3>1, <3>2
  <2>2. h \in S /\ h \in upTo(k) /\ \A j \in upTo(k - 1) : p[j] <= p[h]
    BY <1>5, <2>1 DEF Highest
  <2>3. CASE p[k] <= p[h]
    <3>1. h \in Highest(p, upTo(k))
      BY <1>5, <2>2, <2>3 DEF Highest
    <3> QED
      BY <1>3, <3>1
  <2>4. CASE ~(p[k] <= p[h])
    <3>1. \A j \in upTo(k) : p[j] <= p[k]
      <4> SUFFICES ASSUME NEW j \in upTo(k - 1) PROVE p[j] <= p[k]
        BY <1>4, <1>5
      <4>1. p[j] \in Int /\ p[h] \in Int /\ p[k] \in Int
        BY <1>4, <2>2
      <4> QED
        BY <2>2, <2>4, <4>1
    <3>2. k \in Highest(p, upTo(k))
      BY <1>4, <1>5, <3>1 DEF Highest
    <3> QED
      BY <1>3, <3>2
  <2> QED
    BY <2>3, <2>4
<1> QED
  BY <1>6, <1>7

(* The market a program chooses, as a place among the odds.                   *)
Chosen(odds, found) == IF found = {} THEN NoMarket ELSE odds[Min(found)]

OneX2(odds)  == {i \in DOMAIN odds : odds[i].kind = "1X2"}
Named(odds)  == {i \in DOMAIN odds : HasNamedPrice(odds[i])}
Finite(odds) == {i \in DOMAIN odds : HasFinitePrice(odds[i])}

LEMMA ChoicesAreFound ==
  ASSUME NEW odds
  PROVE  /\ EdgeMarket(odds) = Chosen(odds, OneX2(odds))
         /\ Shape(odds) = LET first == Chosen(odds, OneX2(odds) \cap Named(odds))
                          IN IF first # NoMarket THEN first ELSE Chosen(odds, Named(odds))
         /\ Select1x2Market(odds) = LET first == Chosen(odds, OneX2(odds) \cap Finite(odds))
                                    IN IF first # NoMarket THEN first ELSE Chosen(odds, Finite(odds))
<1>1. /\ {i \in DOMAIN odds : odds[i].kind = "1X2" /\ HasNamedPrice(odds[i])} = OneX2(odds) \cap Named(odds)
      /\ {i \in DOMAIN odds : odds[i].kind = "1X2" /\ HasFinitePrice(odds[i])} = OneX2(odds) \cap Finite(odds)
  BY DEF OneX2, Named, Finite
<1>2. EdgeMarket(odds) = Chosen(odds, OneX2(odds))
  BY DEF EdgeMarket, FindIn, Chosen, OneX2
<1>3. Shape(odds) = LET first == Chosen(odds, OneX2(odds) \cap Named(odds))
                    IN IF first # NoMarket THEN first ELSE Chosen(odds, Named(odds))
  BY <1>1, Zenon DEF Shape, Prefer1x2, FindIn, Chosen, Named
<1>4. Select1x2Market(odds) = LET first == Chosen(odds, OneX2(odds) \cap Finite(odds))
                              IN IF first # NoMarket THEN first ELSE Chosen(odds, Finite(odds))
  BY <1>1, Zenon DEF Select1x2Market, Prefer1x2, FindIn, Chosen, Finite
<1> QED
  BY <1>2, <1>3, <1>4

(* Where the market is full, everyone reads the same one.                     *)
LEMMA FullMarket ==
  ASSUME NEW odds, AreOdds(odds), IsFull(EdgeMarket(odds))
  PROVE  /\ Shape(odds) = EdgeMarket(odds) /\ Select1x2Market(odds) = EdgeMarket(odds)
         /\ EdgeMarket(odds) # NoMarket
         /\ \E i \in DOMAIN odds : EdgeMarket(odds) = odds[i]
<1>1. OneX2(odds) # {} /\ EdgeMarket(odds) = odds[Min(OneX2(odds))]
  <2>1. EdgeMarket(odds) # NoMarket
    BY DEF IsFull, NoMarket
  <2> QED
    BY <2>1, ChoicesAreFound DEF Chosen
<1>2. PICK k \in OneX2(odds) : k = Min(OneX2(odds)) /\ \A i \in OneX2(odds) : k =< i
  <2>1. OneX2(odds) \subseteq Nat
    BY DEF OneX2, AreOdds
  <2> QED
    BY <1>1, <2>1, LeastOf
<1>3. odds[k].pct # <<>> /\ IsFull(odds[k]) /\ k \in DOMAIN odds
  BY <1>1, <1>2 DEF IsFull, OneX2
<1>4. PICK j \in DOMAIN odds[k].pct : odds[k].pct[j] # NA
  <2>1. odds[k].pct \in Seq({NA} \cup Int)
    BY <1>3 DEF AreOdds
  <2>2. Len(odds[k].pct) \in Nat /\ DOMAIN odds[k].pct = 1..Len(odds[k].pct) /\ Len(odds[k].pct) # 0
    BY <1>3, <2>1, LenProperties, EmptySeq
  <2>3. 1 \in DOMAIN odds[k].pct
    BY <2>2
  <2> QED
    BY <1>3, <2>3 DEF IsFull
<1>5. k \in Named(odds) /\ k \in Finite(odds)
  BY <1>3, <1>4 DEF Named, Finite, HasNamedPrice, HasFinitePrice, IsFull
<1>6. ASSUME NEW S, k \in S PROVE Chosen(odds, OneX2(odds) \cap S) = odds[k]
  <2>1. OneX2(odds) \cap S \subseteq Nat /\ k \in OneX2(odds) \cap S
    BY <1>2, <1>6 DEF OneX2, AreOdds
  <2>2. Min(OneX2(odds) \cap S) \in OneX2(odds) \cap S /\ Min(OneX2(odds) \cap S) =< k
    BY <2>1, LeastOf
  <2>3. k =< Min(OneX2(odds) \cap S)
    BY <1>2, <2>2
  <2>4. Min(OneX2(odds) \cap S) = k
    BY <2>1, <2>2, <2>3
  <2> QED
    BY <2>1, <2>4 DEF Chosen
<1>7. odds[k] # NoMarket
  BY <1>3 DEF NoMarket
<1> QED
  BY <1>1, <1>2, <1>3, <1>5, <1>6, <1>7, ChoicesAreFound

(* A filter that keeps everything.                                            *)
LEMMA OnlyEverything ==
  ASSUME NEW S, NEW s \in Seq(S)
  PROVE  Only(s, ToSet(s)) = s
<1> DEFINE same(f, i) == f[i] \in Seq(S) /\ Len(f[i]) = i /\ \A j \in 1..i : f[i][j] = s[j]
<1>1. PICK f : IsFiltering(f, Len(s), s, ToSet(s)) /\ Only(s, ToSet(s)) = f[Len(s)]
  BY OnlyIsFiltered
<1>2. Len(s) \in Nat /\ \A i \in 1..Len(s) : s[i] \in S /\ s[i] \in ToSet(s)
  BY Elements DEF ToSet
<1> DEFINE T == {i \in 0..Len(s) : ~same(f, i)}
<1>3. T = {}
  <2> SUFFICES ASSUME T # {} PROVE FALSE
    OBVIOUS
  <2>1. PICK k \in T : \A m \in T : k =< m
    <3>1. T \subseteq Nat
      OBVIOUS
    <3> HIDE DEF T
    <3> QED
      BY <3>1, LeastNumber
  <2>2. k \in 0..Len(s) /\ ~same(f, k)
    BY <2>1
  <2>3. k # 0
    <3>1. f[0] = <<>>
      BY <1>1, <1>2 DEF IsFiltering
    <3>2. same(f, 0)
      BY <3>1, EmptySeq
    <3> QED
      BY <2>2, <3>2
  <2>4. k \in 1..Len(s) /\ k - 1 \in 0..Len(s)
    BY <1>2, <2>2, <2>3
  <2>5. same(f, k - 1)
    <3>1. k - 1 \notin T
      <4> HIDE DEF T
      <4> QED
        BY <1>2, <2>1, <2>4
    <3> QED
      BY <2>4, <3>1
  <2>6. f[k] = Append(f[k - 1], s[k])
    <3>1. \A i \in 0..Len(s) : f[i] = IF i = 0 THEN <<>> ELSE IF s[i] \in ToSet(s) THEN Append(f[i - 1], s[i]) ELSE f[i - 1]
      BY <1>1, Zenon DEF IsFiltering
    <3> QED
      BY <1>2, <2>2, <2>3, <2>4, <3>1
  <2>7. PICK t \in Seq(S) : t = f[k - 1] /\ Len(t) = k - 1 /\ \A j \in 1..(k - 1) : t[j] = s[j]
    BY <2>5
  <2>8. PICK x \in S : x = s[k]
    BY <1>2, <2>4
  <2>9. PICK u : u = Append(t, x)
    OBVIOUS
  <2>9a. u \in Seq(S) /\ Len(u) = k /\ u[k] = x /\ \A j \in 1..(k - 1) : u[j] = t[j]
    <3>1. u \in Seq(S) /\ Len(u) = Len(t) + 1 /\ u[Len(t) + 1] = x /\ \A j \in 1..Len(t) : u[j] = t[j]
      BY <2>9, AppendProperties
    <3>2. Len(t) + 1 = k
      BY <2>4, <2>7
    <3> QED
      BY <2>7, <3>1, <3>2
  <2>10. \A j \in 1..k : j \in 1..(k - 1) \/ j = k
    BY <2>4
  <2>11. \A j \in 1..k : u[j] = s[j]
    BY <2>7, <2>8, <2>9a, <2>10
  <2>12. f[k] = u
    BY <2>6, <2>7, <2>8, <2>9
  <2>13. same(f, k)
    BY <2>9a, <2>11, <2>12
  <2> QED
    BY <2>2, <2>13
<1>4. same(f, Len(s))
  <2>1. Len(s) \in 0..Len(s)
    BY <1>2
  <2> QED
    BY <1>3, <2>1, Zenon
<1> QED
  BY <1>1, <1>4, SeqEqual

(* The outcomes that count, and their leader.                                 *)
LEMMA LeaderLemma ==
  ASSUME NEW market, market.pct \in Seq(Numbers), NEW C,
         C = {i \in DOMAIN market.names \cap DOMAIN market.pct : market.pct[i] # NA /\ i \in C}, C # {}
  PROVE  \E i \in C : i = Min(Highest(market.pct, C)) /\ \A j \in C : market.pct[j] <= market.pct[i]
<1>1. PICK n \in Nat : DOMAIN market.pct = 1..n /\ \A i \in 1..n : market.pct[i] \in Numbers
  BY Elements
<1>2. C \subseteq 1..n /\ \A i \in C : market.pct[i] \in Int
  BY <1>1 DEF Numbers
<1>3. Highest(market.pct, C) # {}
  BY <1>2, HighestIsThere
<1>4. Highest(market.pct, C) \subseteq Nat
  BY <1>2 DEF Highest
<1>5. Min(Highest(market.pct, C)) \in Highest(market.pct, C)
  BY <1>3, <1>4, LeastOf
<1> QED
  BY <1>5 DEF Highest

Counted(market)  == {i \in DOMAIN market.names \cap DOMAIN market.pct : market.pct[i] # NA}
Positive(market) == {i \in Counted(market) : market.pct[i] > 0}

LEMMA LeadersAreHighest ==
  ASSUME NEW market
  PROVE  /\ DeterministicRead(market) = IF Highest(market.pct, Counted(market)) = {} THEN Unknown
                                        ELSE market.names[Min(Highest(market.pct, Counted(market)))]
         /\ FairFavourite(market) = IF Highest(market.pct, Positive(market)) = {} THEN Unknown
                                    ELSE market.names[Min(Highest(market.pct, Positive(market)))]
<1>1. Positive(market) = {i \in DOMAIN market.names \cap DOMAIN market.pct : market.pct[i] # NA /\ market.pct[i] > 0}
  BY Zenon DEF Positive, Counted
<1>2. Counted(market) = {i \in DOMAIN market.names \cap DOMAIN market.pct : market.pct[i] # NA /\ TRUE}
  BY DEF Counted
<1>3. FairFavourite(market) = IF Highest(market.pct, Positive(market)) = {} THEN Unknown
                              ELSE market.names[Min(Highest(market.pct, Positive(market)))]
  BY <1>1, Zenon DEF FairFavourite, Leader, Highest
<1>4. DeterministicRead(market) = IF Highest(market.pct, Counted(market)) = {} THEN Unknown
                                  ELSE market.names[Min(Highest(market.pct, Counted(market)))]
  BY <1>2, Zenon DEF DeterministicRead, Leader, Highest
<1> QED
  BY <1>3, <1>4

(* Of a priced market a favourite is named.                                   *)
LEMMA SomeFavourite ==
  ASSUME NEW odds, AreOdds(odds), NEW k \in DOMAIN odds, HasNamedPrice(odds[k])
  PROVE  /\ \E i \in Positive(odds[k]) : FairFavourite(odds[k]) = odds[k].names[i] /\ i = Min(Highest(odds[k].pct, Positive(odds[k])))
                                           /\ \A j \in Positive(odds[k]) : odds[k].pct[j] <= odds[k].pct[i]
         /\ FairFavourite(odds[k]) # Unknown
<1>1. PICK market : market = odds[k]
  OBVIOUS
<1>2. market.pct \in Seq(Numbers) /\ (\A i \in DOMAIN market.names : market.names[i] # Unknown) /\ Positive(market) # {}
  BY <1>1, Zenon DEF AreOdds, Numbers, Positive, Counted
<1>3. PICK i \in Positive(market) : i = Min(Highest(market.pct, Positive(market))) /\ \A j \in Positive(market) : market.pct[j] <= market.pct[i]
  <2>1. Positive(market) = {i \in DOMAIN market.names \cap DOMAIN market.pct : market.pct[i] # NA /\ i \in Positive(market)}
    BY Zenon DEF Positive, Counted
  <2> QED
    BY <1>2, <2>1, LeaderLemma
<1>4. Highest(market.pct, Positive(market)) # {}
  BY <1>3 DEF Highest
<1>5. FairFavourite(market) = market.names[i] /\ i \in DOMAIN market.names
  BY <1>3, <1>4, LeadersAreHighest DEF Positive, Counted
<1> QED
  BY <1>1, <1>2, <1>3, <1>5

(* All outcomes of a full market have a price, and all reads name its first   *)
(* outcome with the highest.                                                  *)
LEMMA FullFavourite ==
  ASSUME NEW odds, AreOdds(odds), NEW k \in DOMAIN odds, IsFull(odds[k])
  PROVE  /\ IsFavourite(odds[k], FairFavourite(odds[k]))
         /\ IsFavourite(odds[k], DeterministicRead(odds[k]))
         /\ LeadingLabel(odds[k]) = DeterministicRead(odds[k])
<1>1. PICK market : market = odds[k]
  OBVIOUS
<1>2. IsFull(market) /\ market.pct \in Seq(Numbers)
  BY <1>1 DEF AreOdds, Numbers
<1>3. PICK n \in Nat : n = Len(market.pct) /\ DOMAIN market.pct = 1..n /\ (\A i \in 1..n : market.pct[i] \in Int) /\ n # 0
  <2>1. Len(market.pct) \in Nat /\ DOMAIN market.pct = 1..Len(market.pct) /\ \A i \in 1..Len(market.pct) : market.pct[i] \in Numbers
    BY <1>2, Elements
  <2>2. Len(market.pct) # 0
    BY <1>2, EmptySeq DEF IsFull
  <2>3. \A i \in 1..Len(market.pct) : market.pct[i] # NA
    BY <1>2, <2>1 DEF IsFull
  <2> QED
    BY <2>1, <2>2, <2>3 DEF Numbers
<1>4. Counted(market) = 1..n
  BY <1>2, <1>3 DEF Counted, IsFull
<1>5. PICK h \in 1..n : h = Min(Highest(market.pct, 1..n)) /\ \A j \in 1..n : market.pct[j] <= market.pct[h]
  <2>1. 1..n # {} /\ 1..n = {i \in DOMAIN market.names \cap DOMAIN market.pct : market.pct[i] # NA /\ i \in 1..n}
    BY <1>2, <1>3 DEF IsFull
  <2> QED
    BY <1>2, <2>1, LeaderLemma
<1>6. Highest(market.pct, 1..n) # {}
  BY <1>5 DEF Highest
<1>7. DeterministicRead(market) = market.names[h]
  BY <1>4, <1>5, <1>6, LeadersAreHighest
<1>8. LeadingLabel(market) = market.names[h]
  <2>1. Pcts(market) = market.pct
    <3>1. ToSet(market.pct) \ {NA} = ToSet(market.pct)
      BY <1>2 DEF IsFull, ToSet
    <3> QED
      BY <1>2, <3>1, OnlyEverything DEF Pcts
  <2>2. {i \in DOMAIN market.pct : \A j \in DOMAIN market.pct : market.pct[j] <= market.pct[i]} = Highest(market.pct, 1..n)
    BY <1>3 DEF Highest
  <2>3. market.pct # <<>> /\ h \in DOMAIN market.names
    BY <1>2, <1>3 DEF IsFull
  <2> QED
    BY <1>5, <2>1, <2>2, <2>3 DEF LeadingLabel
<1>9. IsFavourite(market, market.names[h])
  BY <1>2, <1>3, <1>5 DEF IsFavourite, IsFull
<1>10. PICK i \in Positive(market) : FairFavourite(market) = market.names[i] /\ \A j \in Positive(market) : market.pct[j] <= market.pct[i]
  <2>1. HasNamedPrice(odds[k])
    <3>1. 1 \in DOMAIN market.names \cap DOMAIN market.pct /\ market.pct[1] # NA
      BY <1>2, <1>3 DEF IsFull
    <3> QED
      BY <1>1, <3>1 DEF HasNamedPrice
  <2> QED
    BY <1>1, <2>1, SomeFavourite
<1>11. i \in 1..n /\ i \in DOMAIN market.names /\ market.pct[i] > 0
  BY <1>3, <1>10 DEF Positive, Counted
<1>12. ASSUME NEW j \in 1..n PROVE market.pct[j] <= market.pct[i]
  <2>1. CASE market.pct[j] > 0
    <3>1. j \in Positive(market)
      BY <1>4, <2>1 DEF Positive
    <3> QED
      BY <1>10, <3>1
  <2>2. CASE ~(market.pct[j] > 0)
    BY <1>3, <1>11, <2>2
  <2> QED
    BY <2>1, <2>2
<1>13. IsFavourite(market, FairFavourite(market))
  BY <1>3, <1>10, <1>11, <1>12 DEF IsFavourite
<1> QED
  BY <1>1, <1>7, <1>8, <1>9, <1>13

(* A result's grade.                                                          *)
LEMMA GoalsAreTheLatest ==
  ASSUME NEW total, \A period \in DOMAIN total : total[period] \in Int
  PROVE  IF TotalGoals(total) = Unknown THEN \A p \in DOMAIN PeriodOrder : ~IsLatest(p, total)
         ELSE \E p \in DOMAIN PeriodOrder : IsLatest(p, total) /\ TotalGoals(total) = total[PeriodOrder[p]]
<1> DEFINE found == {i \in 1..Len(PeriodOrder) : PeriodOrder[i] \in DOMAIN total}
<1>1. DOMAIN PeriodOrder = 1..6 /\ Len(PeriodOrder) = 6
  BY DEF PeriodOrder
<1>2. TotalGoals(total) = LET i == IF found # {} THEN Min(found) ELSE 0 IN IF i = 0 THEN Unknown ELSE total[PeriodOrder[i]]
  BY Zenon DEF TotalGoals, SelectInSeq
<1>3. CASE found = {}
  <2>1. TotalGoals(total) = Unknown
    BY <1>2, <1>3
  <2>2. \A p \in DOMAIN PeriodOrder : ~IsLatest(p, total)
    BY <1>1, <1>3 DEF IsLatest
  <2> QED
    BY <2>1, <2>2
<1>4. CASE found # {}
  <2>1. PICK p \in found : p = Min(found) /\ \A i \in found : p =< i
    <3>1. found \subseteq Nat
      BY <1>1
    <3> HIDE DEF found
    <3> QED
      BY <1>4, <3>1, LeastOf
  <2>2. p \in DOMAIN PeriodOrder /\ p # 0 /\ PeriodOrder[p] \in DOMAIN total
    BY <1>1, <2>1
  <2>3. TotalGoals(total) = total[PeriodOrder[p]]
    <3> HIDE DEF found
    <3> QED
      BY <1>2, <1>4, <2>1, <2>2
  <2>4. ASSUME NEW q \in 1..p-1, PeriodOrder[q] \in DOMAIN total PROVE FALSE
    <3>1. p \in 1..6
      BY <1>1, <2>2
    <3>2. q \in 1..6 /\ ~(p =< q)
      BY <3>1
    <3>3. q \in found
      BY <1>1, <2>4, <3>2
    <3> QED
      BY <2>1, <3>2, <3>3
  <2>5. total[PeriodOrder[p]] # Unknown
    BY <2>2, ResultsAssumption
  <2> QED
    BY <2>2, <2>3, <2>4, <2>5 DEF IsLatest
<1> QED
  BY <1>3, <1>4

LEMMA LatestIsLast ==
  ASSUME NEW result \in Results, result.events # <<>>
  PROVE  \E i \in DOMAIN result.events : LatestEvent(result.events) = result.events[i] /\ IsLast(result.events, i)
<1>1. PICK events : events = result.events
  OBVIOUS
<1>2. events \in Seq(ToSet(events)) /\ \A event \in ToSet(events) : event.seq \in Int
  BY <1>1, ResultsAssumption
<1>3. PICK n \in Nat : n = Len(events) /\ DOMAIN events = 1..n
  BY <1>2, Elements
<1>4. n # 0
  <2>1. \A T : \A u \in Seq(T) : u # <<>> => Len(u) \in Nat \ {0}
    BY EmptySeq
  <2>2. Len(events) \in Nat \ {0}
    BY <1>1, <1>2, <2>1
  <2> QED
    BY <1>3, <2>2
<1>5. PICK seqs : seqs = [i \in 1..n |-> events[i].seq]
  OBVIOUS
<1>6. \A i \in 1..n : seqs[i] = events[i].seq /\ seqs[i] \in Int
  BY <1>2, <1>3, <1>5 DEF ToSet
<1>7. Highest(seqs, 1..n) # {}
  <2>1. 1 \in 1..n
    BY <1>4
  <2>2. 1..n \subseteq 1..n /\ 1..n # {}
    BY <2>1
  <2> QED
    BY <1>6, <2>2, HighestIsThere
<1>8. Highest(seqs, 1..n) = {i \in DOMAIN events : \A j \in DOMAIN events : events[j].seq <= events[i].seq}
  BY <1>3, <1>6 DEF Highest
<1>9. PICK h \in Highest(seqs, 1..n) : h = Min(Highest(seqs, 1..n)) /\ \A m \in Highest(seqs, 1..n) : h =< m
  <2>1. Highest(seqs, 1..n) \subseteq Nat
    BY DEF Highest
  <2> QED
    BY <1>7, <2>1, LeastOf
<1>10. h \in 1..n /\ \A j \in 1..n : seqs[j] <= seqs[h]
  BY <1>9 DEF Highest
<1>11. LatestEvent(events) = events[h]
  BY <1>8, <1>9 DEF LatestEvent
<1>12. ASSUME NEW j \in 1..n PROVE seqs[j] < seqs[h] \/ (seqs[j] = seqs[h] /\ h <= j)
  <2>1. seqs[j] \in Int /\ seqs[h] \in Int /\ seqs[j] <= seqs[h]
    BY <1>6, <1>10
  <2>2. seqs[j] = seqs[h] => j \in Highest(seqs, 1..n)
    BY <1>10 DEF Highest
  <2> QED
    BY <1>9, <2>1, <2>2
<1>13. IsLast(events, h)
  BY <1>3, <1>6, <1>10, <1>12 DEF IsLast
<1> QED
  BY <1>1, <1>3, <1>10, <1>11, <1>13

(* There is but one last event, and of each side one latest period.           *)
LEMMA LastIsOne ==
  /\ \A result \in Results : \A i, j \in DOMAIN result.events :
       IsLast(result.events, i) /\ IsLast(result.events, j) => i = j
  /\ \A total : \A p, q \in DOMAIN PeriodOrder : IsLatest(p, total) /\ IsLatest(q, total) => p = q
<1>1. ASSUME NEW result \in Results, NEW i \in DOMAIN result.events, NEW j \in DOMAIN result.events,
             IsLast(result.events, i), IsLast(result.events, j)
      PROVE  i = j
  <2>1. result.events \in Seq(ToSet(result.events)) /\ \A event \in ToSet(result.events) : event.seq \in Int
    BY ResultsAssumption
  <2>2. DOMAIN result.events \subseteq Nat
    BY <2>1, Elements
  <2>3. result.events[i].seq \in Int /\ result.events[j].seq \in Int
    BY <2>1 DEF ToSet
  <2>4. i \in Nat /\ j \in Nat
    BY <2>2
  <2> QED
    BY <1>1, <2>3, <2>4 DEF IsLast
<1>2. ASSUME NEW total, NEW p \in DOMAIN PeriodOrder, NEW q \in DOMAIN PeriodOrder, IsLatest(p, total), IsLatest(q, total)
      PROVE  p = q
  <2>1. p \in 1..6 /\ q \in 1..6
    BY DEF PeriodOrder
  <2>2. ~(q \in 1..p-1) /\ ~(p \in 1..q-1)
    BY <1>2 DEF IsLatest
  <2> QED
    BY <2>1, <2>2
<1> QED
  BY <1>1, <1>2

LEMMA GradesAreRight ==
  ASSUME NEW result \in Results, NEW read, read.leading = read.favourite
  PROVE  RightGrade(read, result)
<1> DEFINE events == result.events
           latest == LatestEvent(events)
           home   == TotalGoals(latest.part1)
           away   == TotalGoals(latest.part2)
           side   == LabelToWinner(read.favourite)
           over   == ~(events = <<>> \/ ~latest.ended \/ home = Unknown \/ away = Unknown)
<1>1. /\ GradeRun(read, events).status = IF over THEN "graded" ELSE "pending"
      /\ over => GradeRun(read, events).correct = IF side = Unknown THEN Unknown ELSE side = Winner(home, away)
  BY DEF GradeRun, Ungraded
<1>2. over => EndedWith(events, Winner(home, away)) /\ Winner(home, away) \in Winners
  <2> SUFFICES ASSUME over PROVE EndedWith(events, Winner(home, away)) /\ Winner(home, away) \in Winners
    OBVIOUS
  <2>1. PICK i \in DOMAIN events : latest = events[i] /\ IsLast(events, i)
    BY LatestIsLast
  <2>2. /\ \A period \in DOMAIN latest.part1 : latest.part1[period] \in Int
        /\ \A period \in DOMAIN latest.part2 : latest.part2[period] \in Int
    <3>1. events[i] \in ToSet(events)
      BY DEF ToSet
    <3> QED
      BY <2>1, <3>1, ResultsAssumption
  <2>3. /\ \E p \in DOMAIN PeriodOrder : IsLatest(p, latest.part1) /\ home = latest.part1[PeriodOrder[p]]
        /\ \E q \in DOMAIN PeriodOrder : IsLatest(q, latest.part2) /\ away = latest.part2[PeriodOrder[q]]
    BY <2>2, GoalsAreTheLatest
  <2>4. latest.ended
    OBVIOUS
  <2>5. Winner(home, away) \in Winners
    BY DEF Winner, Winners
  <2> HIDE DEF events, latest, home, away, over
  <2> QED
    BY <2>1, <2>3, <2>4, <2>5 DEF EndedWith
<1>3. ASSUME NEW winner \in Winners, EndedWith(events, winner) PROVE over /\ winner = Winner(home, away)
  <2>1. PICK i \in DOMAIN events, p \in DOMAIN PeriodOrder, q \in DOMAIN PeriodOrder :
          /\ IsLast(events, i) /\ events[i].ended /\ IsLatest(p, events[i].part1) /\ IsLatest(q, events[i].part2)
          /\ winner = Winner(events[i].part1[PeriodOrder[p]], events[i].part2[PeriodOrder[q]])
    BY <1>3, Zenon DEF EndedWith
  <2>2. events # <<>>
    BY <2>1
  <2>3. latest = events[i]
    BY <2>1, <2>2, LatestIsLast, LastIsOne
  <2>4. /\ \A period \in DOMAIN latest.part1 : latest.part1[period] \in Int
        /\ \A period \in DOMAIN latest.part2 : latest.part2[period] \in Int
    <3>1. events[i] \in ToSet(events)
      BY DEF ToSet
    <3> QED
      BY <2>3, <3>1, ResultsAssumption
  <2>5. home # Unknown /\ home = latest.part1[PeriodOrder[p]]
    BY <2>1, <2>3, <2>4, GoalsAreTheLatest, LastIsOne
  <2>6. away # Unknown /\ away = latest.part2[PeriodOrder[q]]
    BY <2>1, <2>3, <2>4, GoalsAreTheLatest, LastIsOne
  <2> HIDE DEF latest, home, away, events
  <2> QED
    BY <2>1, <2>2, <2>3, <2>5, <2>6
<1>4. /\ Unknown \notin Winners /\ result.winner \in Winners \cup {Unknown}
      /\ \A winner \in Winners : result.winner = winner <=> EndedWith(events, winner)
  BY ResultsAssumption
<1> HIDE DEF events, home, away, over, side
<1>5. over <=> result.winner # Unknown
  BY <1>2, <1>3, <1>4
<1>6. over => result.winner = Winner(home, away)
  BY <1>2, <1>4
<1>7. (GradeRun(read, events).status = "graded") <=> over
  BY <1>1
<1> QED
  BY <1>1, <1>5, <1>6, <1>7 DEF RightGrade, events, side

(* What is delivered for an event, whoever is asked.                          *)
LEMMA NothingWithoutOdds ==
  /\ EdgeMarket(<<>>) = NoMarket /\ Shape(<<>>) = NoMarket /\ Select1x2Market(<<>>) = NoMarket
  /\ DeterministicRead(NoMarket) = Unknown /\ FairFavourite(NoMarket) = Unknown
<1>1. OneX2(<<>>) = {} /\ Named(<<>>) = {} /\ Finite(<<>>) = {}
  BY DEF OneX2, Named, Finite
<1>2. EdgeMarket(<<>>) = NoMarket /\ Shape(<<>>) = NoMarket /\ Select1x2Market(<<>>) = NoMarket
  BY <1>1, ChoicesAreFound DEF Chosen
<1>3. Counted(NoMarket) = {} /\ Positive(NoMarket) = {}
  BY DEF Counted, Positive, NoMarket
<1>4. Highest(NoMarket.pct, {}) = {}
  BY DEF Highest
<1> QED
  BY <1>2, <1>3, <1>4, LeadersAreHighest

(* Two one-element sequences, one after the other.                            *)
LEMMA TwoInARow ==
  ASSUME NEW S, NEW a \in S, NEW b \in S
  PROVE  <<a>> \o <<b>> = <<a, b>>
<1>1. <<a>> \in Seq(S) /\ <<b>> \in Seq(S) /\ <<a, b>> \in Seq(S) /\ <<a>> \o <<b>> \in Seq(S)
  OBVIOUS
<1>2. Len(<<a>>) = 1 /\ Len(<<b>>) = 1 /\ Len(<<a, b>>) = 2 /\ <<a>>[1] = a /\ <<b>>[1] = b
  OBVIOUS
<1>3. Len(<<a>> \o <<b>>) = 2
  BY <1>1, <1>2, ConcatProperties
<1>4. ASSUME NEW i \in 1..2 PROVE (<<a>> \o <<b>>)[i] = <<a, b>>[i]
  <2>1. CASE i = 1
    BY <2>1, <1>1, <1>2, ConcatProperties
  <2>2. CASE i = 2
    BY <2>2, <1>1, <1>2, ConcatProperties
  <2> QED
    BY <2>1, <2>2
<1> QED
  BY <1>1, <1>2, <1>3, <1>4, SeqEqual

(* The reads of the seller, of the standalone service and of the proxy.       *)
LEMMA ReadsOf ==
  ASSUME NEW f \in Ids, NEW odds, NEW up \in BOOLEAN
  PROVE  /\ FixtureIdFrom(<<f>>) = f
         /\ DeliverService(<<"sharp-movement", f>>, odds, up) = SharpMovement(<<f>>, odds, up)
         /\ DeliverService(<<"txline", f>>, odds, up) = TxlineEdge(f, odds, up)
         /\ DeliverStandalone(<<f>>, odds, up) = IF up THEN AnalyzeEdge(f, odds[f]) ELSE Blank("error")
<1>1. FixtureIdFrom(<<f>>) = f
  <2> DEFINE found == {i \in 1..Len(<<f>>) : <<f>>[i] \in Ids}
  <2>1. found = {1}
    OBVIOUS
  <2>2. Min({1}) = 1
    <3>1. Min({1}) \in {1}
      BY LeastOf
    <3> QED
      BY <3>1
  <2>3. FixtureIdFrom(<<f>>) = LET i == IF found # {} THEN Min(found) ELSE 0 IN IF i = 0 THEN Unknown ELSE <<f>>[i]
    BY Zenon DEF FixtureIdFrom, SelectInSeq
  <2> HIDE DEF found
  <2> QED
    BY <2>1, <2>2, <2>3
<1>2. Action(<<f>>) = <<"edge", f>> /\ Fixture(<<"edge", f>>) = f
  <2>1. <<f>> # <<>> /\ Head(<<f>>) = f
    OBVIOUS
  <2>3. <<"edge">> \o <<f>> = <<"edge", f>>
    <3>1. PICK S : S = {"edge", f}
      OBVIOUS
    <3>2. "edge" \in S /\ f \in S
      BY <3>1, Zenon
    <3> QED
      BY <3>2, TwoInARow, Zenon
  <2>2. Len(<<"edge", f>>) = 2 /\ <<"edge", f>>[2] = f
    OBVIOUS
  <2> QED
    BY <2>1, <2>2, <2>3 DEF Action, Fixture
<1>3. TxlineService(<<f>>, odds, up) = TxlineEdge(f, odds, up)
  <2>1. Head(<<"edge", f>>) = "edge"
    OBVIOUS
  <2> QED
    BY <1>2, <2>1 DEF TxlineService
<1>4. \A service \in {"txline", "sharp-movement"} :
         <<service, f>> # <<>> /\ Head(<<service, f>>) = service /\ Tail(<<service, f>>) = <<f>>
  OBVIOUS
<1>5. /\ DeliverService(<<"sharp-movement", f>>, odds, up) = SharpMovement(<<f>>, odds, up)
      /\ DeliverService(<<"txline", f>>, odds, up) = TxlineService(<<f>>, odds, up)
  BY <1>4 DEF DeliverService
<1>6. DeliverStandalone(<<f>>, odds, up) = IF up THEN AnalyzeEdge(f, odds[f]) ELSE Blank("error")
  <2>1. Head(<<"edge", f>>) = "edge"
    OBVIOUS
  <2> QED
    BY <1>2, <2>1 DEF DeliverStandalone
<1> QED
  BY <1>1, <1>3, <1>5, <1>6

LEMMA ReadFields ==
  ASSUME NEW service, NEW f, NEW favourite
  PROVE  /\ ReadOf(service, f, favourite).service = service
         /\ ReadOf(service, f, favourite).fixture = f
         /\ ReadOf(service, f, favourite).favourite = favourite
         /\ DOMAIN ReadOf(service, f, favourite) = {"service", "fixture", "leading", "favourite", "magnitude"}
<1>1. PICK b : b = Blank(service)
  OBVIOUS
<1>2. DOMAIN b = {"service", "fixture", "leading", "favourite", "magnitude"} /\ b.service = service
  BY <1>1 DEF Blank
<1>3. PICK r : r = [b EXCEPT !.fixture = f, !.favourite = favourite]
  OBVIOUS
<1>4. DOMAIN r = DOMAIN b /\ r.service = service /\ r.fixture = f /\ r.favourite = favourite
  BY <1>2, <1>3
<1>5. r = ReadOf(service, f, favourite)
  BY <1>1, <1>3 DEF ReadOf
<1> QED
  BY <1>2, <1>4, <1>5

LEMMA BlankFields ==
  ASSUME NEW service
  PROVE  /\ Blank(service).favourite = Unknown
         /\ \A f : [Blank(service) EXCEPT !.fixture = f].fixture = f
         /\ \A f : [Blank(service) EXCEPT !.fixture = f].favourite = Unknown
<1>1. PICK b : b = Blank(service)
  OBVIOUS
<1>2. DOMAIN b = {"service", "fixture", "leading", "favourite", "magnitude"} /\ b.favourite = Unknown
  BY <1>1 DEF Blank
<1>3. ASSUME NEW f PROVE [b EXCEPT !.fixture = f].fixture = f /\ [b EXCEPT !.fixture = f].favourite = Unknown
  BY <1>2
<1> QED
  BY <1>1, <1>2, <1>3

(* Read from sound odds, each kind of read is of the favourite.               *)
LEMMA EdgeAgrees ==
  ASSUME NEW f, NEW odds, AreOdds(odds)
  PROVE  /\ AnalyzeEdge(f, odds).fixture = f /\ Agrees(odds, AnalyzeEdge(f, odds))
         /\ Priced(odds) => AnalyzeEdge(f, odds).favourite # Unknown
<1>1. /\ AnalyzeEdge(f, odds).service = "edge" /\ AnalyzeEdge(f, odds).fixture = f
      /\ AnalyzeEdge(f, odds).favourite = FairFavourite(Shape(odds))
  BY ReadFields DEF AnalyzeEdge
<1>2. IsFull(EdgeMarket(odds)) => IsFavourite(EdgeMarket(odds), FairFavourite(Shape(odds)))
  BY FullMarket, FullFavourite
<1>3. Agrees(odds, AnalyzeEdge(f, odds))
  BY <1>1, <1>2 DEF Agrees
<1>4. ASSUME Priced(odds) PROVE FairFavourite(Shape(odds)) # Unknown
  <2>1. PICK k \in Named(odds) : Shape(odds) = odds[k]
    <3>1. Named(odds) \subseteq Nat /\ Named(odds) # {}
      BY <1>4 DEF Named, AreOdds, Priced
    <3>2. \A S : S \subseteq Named(odds) /\ S # {} => Chosen(odds, S) \in {odds[k] : k \in S}
      <4> SUFFICES ASSUME NEW S, S \subseteq Named(odds), S # {} PROVE Chosen(odds, S) \in {odds[k] : k \in S}
        OBVIOUS
      <4>1. S \subseteq Nat
        BY <3>1
      <4> QED
        BY <4>1, LeastOf DEF Chosen
    <3>3. Chosen(odds, {}) = NoMarket
      BY DEF Chosen
    <3>4. Chosen(odds, OneX2(odds) \cap Named(odds)) # NoMarket => OneX2(odds) \cap Named(odds) # {}
      BY <3>3
    <3>5. CASE Chosen(odds, OneX2(odds) \cap Named(odds)) # NoMarket
      <4>1. Chosen(odds, OneX2(odds) \cap Named(odds)) \in {odds[k] : k \in OneX2(odds) \cap Named(odds)}
        BY <3>2, <3>4, <3>5
      <4>2. Shape(odds) = Chosen(odds, OneX2(odds) \cap Named(odds))
        BY <3>5, ChoicesAreFound
      <4> QED
        BY <4>1, <4>2
    <3>6. CASE Chosen(odds, OneX2(odds) \cap Named(odds)) = NoMarket
      <4>1. Shape(odds) = Chosen(odds, Named(odds))
        BY <3>6, ChoicesAreFound
      <4> QED
        BY <3>1, <3>2, <4>1
    <3> QED
      BY <3>5, <3>6
  <2> QED
    BY <2>1, SomeFavourite DEF Named
<1> QED
  BY <1>1, <1>3, <1>4

LEMMA TxlineAgrees ==
  ASSUME NEW f \in Ids, NEW odds, AreOdds(odds[f])
  PROVE  TxlineEdge(f, odds, TRUE).fixture = f /\ Agrees(odds[f], TxlineEdge(f, odds, TRUE))
<1>1. TxlineGet(odds, f, TRUE) = odds[f]
  BY DEF TxlineGet
<1>2. /\ TxlineEdge(f, odds, TRUE).service = "txline-edge" /\ TxlineEdge(f, odds, TRUE).fixture = f
      /\ TxlineEdge(f, odds, TRUE).favourite = DeterministicRead(EdgeMarket(odds[f]))
  <2>1. TxlineEdge(f, odds, TRUE) = ReadOf("txline-edge", f, DeterministicRead(EdgeMarket(odds[f])))
    BY <1>1, Zenon DEF TxlineEdge
  <2>2. PICK favourite : favourite = DeterministicRead(EdgeMarket(odds[f]))
    OBVIOUS
  <2>3. /\ ReadOf("txline-edge", f, favourite).service = "txline-edge" /\ ReadOf("txline-edge", f, favourite).fixture = f
        /\ ReadOf("txline-edge", f, favourite).favourite = favourite
    BY ReadFields
  <2> QED
    BY <2>1, <2>2, <2>3
<1>3. IsFull(EdgeMarket(odds[f])) => IsFavourite(EdgeMarket(odds[f]), DeterministicRead(EdgeMarket(odds[f])))
  BY FullMarket, FullFavourite
<1> QED
  BY <1>2, <1>3 DEF Agrees

LEMMA SharpAgrees ==
  ASSUME NEW f \in Ids, NEW odds, AreOdds(odds[f])
  PROVE  SharpMovement(<<f>>, odds, TRUE).fixture = f /\ Agrees(odds[f], SharpMovement(<<f>>, odds, TRUE))
<1>1. TxlineGet(odds, f, TRUE) = odds[f] /\ FixtureIdFrom(<<f>>) = f
  BY ReadsOf DEF TxlineGet
<1>2. PICK market : market = Select1x2Market(odds[f])
  OBVIOUS
<1>3. PICK read : read = SharpMovement(<<f>>, odds, TRUE)
  OBVIOUS
<1>4. /\ read.fixture = f
      /\ market # NoMarket => read.leading = LeadingLabel(market) /\ read.favourite = DeterministicRead(market)
  <2>1. CASE market = NoMarket
    <3>1. read = [Blank("sharp-movement") EXCEPT !.fixture = f]
      BY <1>1, <1>2, <1>3, <2>1 DEF SharpMovement
    <3> QED
      BY <2>1, <3>1, BlankFields
  <2>2. CASE market # NoMarket
    <3>1. PICK plain : plain = ReadOf("sharp-movement", f, DeterministicRead(market))
      OBVIOUS
    <3>2. read = [plain EXCEPT !.leading = LeadingLabel(market), !.magnitude = Magnitude(market)]
      BY <1>1, <1>2, <1>3, <2>2, <3>1 DEF SharpMovement
    <3>3. /\ DOMAIN plain = {"service", "fixture", "leading", "favourite", "magnitude"}
          /\ plain.fixture = f /\ plain.favourite = DeterministicRead(market)
      BY <3>1, ReadFields
    <3> QED
      BY <3>2, <3>3
  <2> QED
    BY <2>1, <2>2
<1>5. read.fixture = f
  BY <1>4
<1>6. ASSUME IsFull(EdgeMarket(odds[f]))
      PROVE  /\ IsFavourite(EdgeMarket(odds[f]), read.favourite) /\ read.leading = read.favourite
             /\ \A result \in Results : RightGrade(read, result)
  <2>1. market = EdgeMarket(odds[f]) /\ market # NoMarket /\ \E i \in DOMAIN odds[f] : market = odds[f][i]
    BY <1>2, <1>6, FullMarket
  <2>2. IsFavourite(market, DeterministicRead(market)) /\ LeadingLabel(market) = DeterministicRead(market)
    BY <1>6, <2>1, FullFavourite
  <2>3. read.favourite = DeterministicRead(market) /\ read.leading = read.favourite
    BY <1>4, <2>1, <2>2
  <2> QED
    BY <2>1, <2>2, <2>3, GradesAreRight
<1> QED
  BY <1>3, <1>5, <1>6 DEF Agrees

LEMMA OddsAreSound ==
  ASSUME NEW f \in Ids, NEW odds, AreOdds(odds[f])
  PROVE  SoundOdds(f, odds)
<1>1. ASSUME NEW kind \in EventKinds, NEW up \in BOOLEAN
      PROVE  \A read \in Delivered(kind, f, odds, up) :
               \/ kind = "odds-move" /\ read = SharpMovement(<<f>>, odds, up)
               \/ read = TxlineEdge(f, odds, up)
               \/ read = IF up THEN AnalyzeEdge(f, odds[f]) ELSE Blank("error")
  <2>1. PICK want : want = Job([kind |-> kind, fixture |-> f])
    OBVIOUS
  <2>2. want.arg = f /\ want.service = IF kind = "odds-move" THEN "sharp-movement" ELSE "txline"
    BY <2>1 DEF Job
  <2>3. FetchNextWant(<<want>>, TRUE) = want
    <3>1. <<want>> # <<>> /\ Head(<<want>>) = want
      OBVIOUS
    <3> QED
      BY <3>1 DEF FetchNextWant
  <2>4. Request(want) = <<IF kind = "odds-move" THEN "sharp-movement" ELSE "txline", f>>
    BY <2>2 DEF Request
  <2>5. Delivered(kind, f, odds, up) = {DeliverService(Request(want), odds, up), DeliverStandalone(<<f>>, odds, up)}
    BY <2>1, <2>2, <2>3, Zenon DEF Delivered
  <2> QED
    BY <2>4, <2>5, ReadsOf
<1>2. ASSUME NEW kind \in EventKinds, NEW read \in Delivered(kind, f, odds, TRUE)
      PROVE  read.fixture = f /\ Agrees(odds[f], read)
  <2>1. \/ read = SharpMovement(<<f>>, odds, TRUE)
        \/ read = TxlineEdge(f, odds, TRUE)
        \/ read = AnalyzeEdge(f, odds[f])
    BY <1>1, <1>2
  <2>2. CASE read = SharpMovement(<<f>>, odds, TRUE)
    BY <2>2, SharpAgrees, Zenon
  <2>3. CASE read = TxlineEdge(f, odds, TRUE)
    BY <2>3, TxlineAgrees, Zenon
  <2>4. CASE read = AnalyzeEdge(f, odds[f])
    BY <2>4, EdgeAgrees, Zenon
  <2> QED
    BY <2>1, <2>2, <2>3, <2>4
<1>3. ASSUME NEW kind \in EventKinds, NEW read \in Delivered(kind, f, odds, FALSE)
      PROVE  read.favourite = Unknown
  <2>1. TxlineGet(odds, f, FALSE) = <<>> /\ FixtureIdFrom(<<f>>) = f
    BY ReadsOf DEF TxlineGet
  <2>2. SharpMovement(<<f>>, odds, FALSE) = [Blank("sharp-movement") EXCEPT !.fixture = f]
    BY <2>1, NothingWithoutOdds DEF SharpMovement
  <2>3. SharpMovement(<<f>>, odds, FALSE).favourite = Unknown
    <3>1. [Blank("sharp-movement") EXCEPT !.fixture = f].favourite = Unknown
      BY BlankFields
    <3> QED
      BY <2>2, <3>1
  <2>4. TxlineEdge(f, odds, FALSE).favourite = Unknown
    <3>1. TxlineEdge(f, odds, FALSE) = ReadOf("txline-edge", f, Unknown)
      BY <2>1, NothingWithoutOdds, Zenon DEF TxlineEdge
    <3>2. ReadOf("txline-edge", f, Unknown).favourite = Unknown
      BY ReadFields
    <3> QED
      BY <3>1, <3>2
  <2>5. Blank("error").favourite = Unknown
    BY BlankFields
  <2> QED
    BY <1>1, <2>3, <2>4, <2>5
<1> QED
  BY <1>2, <1>3 DEF SoundOdds

(* ReadsAgree: the seller's, the standalone service's and the proxy's reads   *)
(* name the same favourite, grades are right, and reads off a board are of    *)
(* odds that TxLINE has had.                                                  *)
THEOREM ReadsNameTheFavourite == WatchSpec => []ReadsAgree
<1>1. WatchInv => ReadsAgree
  <2> SUFFICES ASSUME WatchInv PROVE ReadsAgree
    OBVIOUS
  <2>1. WatchTypes /\ BoardsAreHonest
    BY DEF WatchInv
  <2>2. ASSUME NEW f \in Ids, NEW offer \in 1..offered[f]
        PROVE  offer \in DOMAIN Offers[f] /\ AreOdds(OddsAt(f, offer))
    <3>1. offered[f] \in 1..Len(Offers[f])
      BY <2>1 DEF WatchTypes
    <3>2. DOMAIN Offers[f] = 1..Len(Offers[f]) /\ Len(Offers[f]) \in Nat
      BY WatchAssumption
    <3>3. offer \in DOMAIN Offers[f]
      BY <3>1, <3>2
    <3> QED
      BY <3>3, WatchAssumption DEF OddsAt
  <2>3. \A f \in Ids : offered[f] \in 1..offered[f]
    <3>1. \A f \in Ids : offered[f] \in Nat /\ offered[f] \in 1..Len(Offers[f])
      BY <2>1 DEF WatchTypes
    <3> QED
      BY <3>1
  <2>4. ASSUME NEW f \in Ids PROVE Sound[f][offered[f]]
    <3>1. PICK odds : odds = [g \in Ids |-> IF g = f THEN OddsAt(f, offered[f]) ELSE <<>>]
      OBVIOUS
    <3>2. offered[f] \in DOMAIN Offers[f] /\ AreOdds(odds[f])
      BY <2>2, <2>3, <3>1
    <3>3. Sound[f][offered[f]] = SoundOdds(f, odds)
      BY <3>1, <3>2 DEF Sound
    <3> QED
      BY <3>2, <3>3, OddsAreSound
  <2>5. ASSUME NEW c \in Callers, NEW f \in Ids, HasAnswered(c)
        PROVE  \/ \E offer \in 1..offered[f] :
                    Agrees(OddsAt(f, offer), ReadEdge(f, calls[c].board)) /\ ReadEdge(f, calls[c].board).favourite # Unknown
               \/ ReadEdge(f, calls[c].board).favourite = Unknown /\ ~Priced(OddsNow(f))
    <3>1. PICK board \in Boards : board = calls[c].board /\ Honest(board)
      BY <2>1, <2>5, CallTypes DEF HasAnswered, Answering, BoardsAreHonest
    <3> DEFINE lines == {i \in DOMAIN board : board[i].fixture = f}
    <3>2. CASE Priced(OddsNow(f))
      <4>1. ReadEdge(f, board) = AnalyzeEdge(f, OddsAt(f, offered[f]))
        BY <3>2 DEF ReadEdge, OddsNow
      <4>2. offered[f] \in 1..offered[f] /\ AreOdds(OddsAt(f, offered[f])) /\ Priced(OddsAt(f, offered[f]))
        BY <2>2, <2>3, <3>2 DEF OddsNow
      <4> QED
        BY <3>1, <4>1, <4>2, EdgeAgrees
    <3>3. CASE ~Priced(OddsNow(f)) /\ lines = {}
      <4>1. ReadEdge(f, board) = AnalyzeEdge(f, <<>>)
        BY <3>3 DEF ReadEdge
      <4>2. AnalyzeEdge(f, <<>>).favourite = Unknown
        BY NothingWithoutOdds, ReadFields DEF AnalyzeEdge
      <4> QED
        BY <3>1, <3>3, <4>1, <4>2
    <3>4. CASE ~Priced(OddsNow(f)) /\ lines # {}
      <4>1. PICK k \in lines : k = Min(lines)
        <5>1. lines \subseteq Nat
          BY <3>1, Elements DEF Boards
        <5> HIDE DEF lines
        <5> QED
          BY <3>4, <5>1, LeastOf
      <4>2. ReadEdge(f, board) = AnalyzeEdge(f, OddsOf(board[k]))
        BY <3>4, <4>1 DEF ReadEdge
      <4>3. board[k].offer \in 1..offered[f] /\ OddsOf(board[k]) = OddsAt(f, board[k].offer)
        BY <3>1 DEF Honest, OddsOf
      <4>4. AreOdds(OddsAt(f, board[k].offer))
        BY <2>2, <4>3
      <4>5. Agrees(OddsAt(f, board[k].offer), ReadEdge(f, board))
        BY <4>2, <4>3, <4>4, EdgeAgrees
      <4> QED
        BY <3>1, <3>4, <4>3, <4>5
    <3> QED
      BY <3>2, <3>3, <3>4
  <2> QED
    BY <2>4, <2>5 DEF ReadsAgree
<1> QED
  BY <1>1, WatchInvariant, PTL
=============================================================================
