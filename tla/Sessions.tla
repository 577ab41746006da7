------------------------------ MODULE Sessions ------------------------------
(* The launchers. A round starts in several ways - a click in the web UI that *)
(* the proxy serves, the demos on the command line, the agentic script with   *)
(* its retries - and each first removes the containers of the round before.   *)
(* CoralOS creates the containers of a session in its own time. The scripts   *)
(* also start the services on their ports, or reuse what listens there.       *)
EXTENDS Integers, Sequences, FiniteSets, TLC

CONSTANTS Users,        \* rounds and cleanups somebody starts: by a click in
                        \* the browser, or on the command line
          Scripts,      \* runs of txodds.js and, of these,
          Agentic,      \* of txodds-agentic.js
          Ports,        \* the services, in the order they are started
          Proxy,        \* the port that serves the clicks
          None,
          Attempts,     \* of the agentic script to create its round
          MaxSessions   \* bound: sessions of CoralOS

ASSUME SessionsAssumption == /\ Ports \in Seq({Ports[i] : i \in DOMAIN Ports})
                             /\ Proxy \in {Ports[i] : i \in DOMAIN Ports}
                             /\ Attempts \in Nat \ {0} /\ MaxSessions \in Nat
                             /\ None \notin Scripts /\ Agentic \subseteq Scripts

VARIABLES
  sessions,    \* CoralOS: how many it has created
  pending,     \* CoralOS: the containers it has yet to create
  containers,  \* Docker: the agents' containers, by image and session
  launch,      \* how far each launcher is
  script,      \* how far each script is
  listening,   \* the script each port's service was started by
  starting,    \* services that are started and do not listen yet
  (* History. *)
  excused,     \* sessions that a cleanup could not do away with
  bereft       \* ports on which another script's service was stopped

coral == <<sessions, pending, containers, excused>>
services == <<script, listening, starting, bereft>>
vars == <<coral, launch, services>>

Launchers == Users \cup Scripts
PortSet == {Ports[i] : i \in DOMAIN Ports}

Idle == [at |-> "idle"]
Down == [at |-> "down"]

Init == /\ sessions = 0 /\ pending = {} /\ containers = {} /\ excused = {}
        /\ launch = [l \in Launchers |-> Idle]
        /\ script = [s \in Scripts |-> Down] /\ listening = [p \in PortSet |-> None] /\ starting = {}
        /\ bereft = [s \in Scripts |-> {}]

-----------------------------------------------------------------------------
(* A round's session: its agents, those that run as containers, and those a   *)
(* launch of its kind removes first.                                          *)

TxOddsAgents == [buyer |-> "docker", seller |-> "docker", verifier |-> "executable"]
PatchBondAgents == [buyer |-> "docker", seller |-> "docker", verifier |-> "docker"]

AgentsOf(kind) == IF kind = "patchbond" THEN PatchBondAgents ELSE TxOddsAgents

InDocker(kind) == {image \in DOMAIN AgentsOf(kind) : AgentsOf(kind)[image] = "docker"}

MutBuyersOnly(kind) == <<"buyer">>

AgentImages(kind) == IF kind = "patchbond" THEN <<"buyer", "seller", "verifier">> ELSE <<"buyer", "seller">>

-----------------------------------------------------------------------------
(* A launch.                                                                  *)

LaunchTo(l, stage) == launch' = [launch EXCEPT ![l] = stage]

Ended(ok) == [at |-> "ended", ok |-> ok]

Cleaning(kind) == [at |-> "cleaning", kind |-> kind, images |-> AgentImages(kind), ids |-> None]

(* createTxOddsRound, createPatchBondRound, agents:stop. (Without its settings *)
(* or the signer's good health a launch ends here.)                           *)
Begin(l, kind) ==
  /\ launch[l] = Idle
  /\ kind = "click" => listening[Proxy] # None
  /\ sessions < MaxSessions
  /\ LaunchTo(l, Cleaning(kind))
  /\ UNCHANGED <<coral, services>>

IsCleaning(l) == launch[l].at = "cleaning" /\ launch[l].images # <<>>
NextImage(l) == Head(launch[l].images)
OfImage(image, cs) == {c \in cs : c.image = image}
SessionsOf(cs) == {c.session : c \in cs}

(* docker ps sees the containers there are; those that are to come it misses. *)
ListImage(l) ==
  /\ IsCleaning(l) /\ launch[l].ids = None
  /\ LaunchTo(l, [launch[l] EXCEPT !.ids = OfImage(NextImage(l), containers)])
  /\ excused' = excused \cup SessionsOf(OfImage(NextImage(l), pending))
  /\ UNCHANGED <<sessions, pending, containers, services>>

MutKeepsLast(ids) == containers \ {c \in ids : c.session < sessions}

Without(ids) == containers \ ids

RemoveImage(l) ==
  /\ IsCleaning(l) /\ launch[l].ids # None
  /\ containers' = Without(launch[l].ids)
  /\ LaunchTo(l, [launch[l] EXCEPT !.images = Tail(@), !.ids = None])
  /\ UNCHANGED <<sessions, pending, excused, services>>

(* "A Docker hiccup here should never block starting the round."              *)
SkipImage(l) ==
  /\ IsCleaning(l)
  /\ LaunchTo(l, [launch[l] EXCEPT !.images = Tail(@), !.ids = None])
  /\ excused' = excused \cup SessionsOf(OfImage(NextImage(l), containers \cup pending))
  /\ UNCHANGED <<sessions, pending, containers, services>>

Cleaned(l) == launch[l].at = "cleaning" /\ launch[l].images = <<>>

CleanupEnds(l) ==
  /\ Cleaned(l) /\ launch[l].kind = "cleanup"
  /\ LaunchTo(l, Ended(TRUE))
  /\ UNCHANGED <<coral, services>>

UnderWay == {l \in Launchers : launch[l].at = "cleaning"}

(* POST /session: CoralOS has the session, whether its answer arrives or not. *)
Create(l) ==
  /\ Cleaned(l) /\ launch[l].kind # "cleanup" /\ sessions < MaxSessions
  /\ sessions' = sessions + 1
  /\ pending' = pending \cup {[image |-> image, session |-> sessions'] : image \in InDocker(launch[l].kind)}
  /\ excused' = excused \cup (IF UnderWay # {l} THEN {sessions'} ELSE {})
  /\ \E answered \in BOOLEAN : LaunchTo(l, Ended(answered))
  /\ UNCHANGED <<containers, services>>

(* The verifier's bundle, or the session, is not to be had.                   *)
LaunchFails(l) ==
  /\ Cleaned(l) /\ launch[l].kind # "cleanup"
  /\ LaunchTo(l, Ended(FALSE))
  /\ UNCHANGED <<coral, services>>

Spawned(c) ==
  /\ c \in pending
  /\ pending' = pending \ {c} /\ containers' = containers \cup {c}
  /\ UNCHANGED <<sessions, excused, launch, services>>

-----------------------------------------------------------------------------
(* A script: startCoreServices, port by port.                                 *)

ScriptTo(s, stage) == script' = [script EXCEPT ![s] = stage]

Start(s) ==
  /\ script[s] = Down
  /\ ScriptTo(s, [at |-> "probe", ports |-> Ports])
  /\ UNCHANGED <<coral, launch, listening, starting, bereft>>

AtPort(s, stage) == script[s].at = stage /\ script[s].ports # <<>>

PortIsOpen(port) == listening[port] # None

(* spawnService looks at the port, and starts the service afterwards.         *)
Probe(s) ==
  /\ AtPort(s, "probe")
  /\ IF PortIsOpen(Head(script[s].ports)) THEN ScriptTo(s, [script[s] EXCEPT !.ports = Tail(@)])
     ELSE ScriptTo(s, [script[s] EXCEPT !.at = "spawn"])
  /\ UNCHANGED <<coral, launch, listening, starting, bereft>>

SpawnService(s) ==
  /\ AtPort(s, "spawn")
  /\ starting' = starting \cup {<<s, Head(script[s].ports)>>}
  /\ ScriptTo(s, [script[s] EXCEPT !.at = "probe", !.ports = Tail(@)])
  /\ UNCHANGED <<coral, launch, listening, bereft>>

(* A service that finds its port taken exits.                                 *)
Listen(s, p) ==
  /\ <<s, p>> \in starting
  /\ starting' = starting \ {<<s, p>>}
  /\ listening' = IF listening[p] = None THEN [listening EXCEPT ![p] = s] ELSE listening
  /\ UNCHANGED <<coral, launch, script, bereft>>

Started(s) == script[s].at = "probe" /\ script[s].ports = <<>>

Up(s) ==
  /\ Started(s) /\ s \notin Agentic
  /\ ScriptTo(s, [at |-> "up"])
  /\ UNCHANGED <<coral, launch, listening, starting, bereft>>

(* ensureAgentImagesBuilt throws, and the services run on without the script. *)
ImagesFail(s) ==
  /\ Started(s) /\ s \in Agentic
  /\ ScriptTo(s, [at |-> "gone"])
  /\ UNCHANGED <<coral, launch, listening, starting, bereft>>

(* createRoundWithRetry.                                                      *)
Attempt(s, left) ==
  /\ launch[s] = Idle
  /\ \/ Started(s) /\ s \in Agentic /\ left = Attempts - 1
     \/ script[s].at = "retry" /\ left = script[s].left - 1
  /\ ScriptTo(s, [at |-> "round", left |-> left])
  /\ LaunchTo(s, Cleaning("txodds"))
  /\ UNCHANGED <<coral, listening, starting, bereft>>

RoundEnded(s) ==
  /\ script[s].at = "round" /\ launch[s].at = "ended"
  /\ ScriptTo(s, IF launch[s].ok \/ script[s].left = 0 THEN [at |-> "up"]
                 ELSE [at |-> "retry", left |-> script[s].left])
  /\ LaunchTo(s, Idle)
  /\ UNCHANGED <<coral, listening, starting, bereft>>

MutAll(s) == {p \in PortSet : listening[p] # None}

Own(s) == {p \in PortSet : listening[p] = s}

(* The clicks the proxy was at die with it: a half-done cleanup excuses what  *)
(* it was to remove.                                                          *)
Orphaned(s) == IF Proxy \in Own(s) THEN {l \in UnderWay : launch[l].kind = "click"} ELSE {}

LaunchesAfter(s) ==
  [l \in Launchers |-> IF l \in Orphaned(s) THEN Ended(FALSE)
                       ELSE IF l = s /\ s \in Agentic THEN Cleaning("cleanup") ELSE launch[l]]

(* Ctrl+C: stopCoreServices, and for the agentic script stopAgentContainers.  *)
Stop(s) ==
  /\ script[s].at = "up"
  /\ listening' = [p \in PortSet |-> IF p \in Own(s) THEN None ELSE listening[p]]
  /\ starting' = {e \in starting : e[1] # s}
  /\ bereft' = [t \in Scripts |-> IF t = s THEN {} ELSE bereft[t] \cup {p \in PortSet : listening[p] = s \/ <<s, p>> \in starting}]
  /\ launch' = LaunchesAfter(s)
  /\ excused' = excused \cup (IF Orphaned(s) = {} THEN {} ELSE SessionsOf(containers \cup pending))
  /\ ScriptTo(s, [at |-> IF s \in Agentic THEN "closing" ELSE "gone"])
  /\ UNCHANGED <<sessions, pending, containers>>

Closed(s) ==
  /\ script[s].at = "closing" /\ launch[s].at = "ended"
  /\ ScriptTo(s, [at |-> "gone"]) /\ LaunchTo(s, Idle)
  /\ UNCHANGED <<coral, listening, starting, bereft>>

-----------------------------------------------------------------------------
Kinds == {"click", "txodds", "patchbond", "cleanup"}

Next ==
  \/ \E l \in Users, kind \in Kinds : Begin(l, kind)
  \/ \E l \in Launchers : ListImage(l) \/ RemoveImage(l) \/ SkipImage(l) \/ CleanupEnds(l) \/ Create(l) \/ LaunchFails(l)
  \/ \E c \in pending : Spawned(c)
  \/ \E s \in Scripts : \/ Start(s) \/ Probe(s) \/ SpawnService(s) \/ Up(s) \/ ImagesFail(s) \/ RoundEnded(s) \/ Stop(s) \/ Closed(s)
  \/ \E s \in Scripts, left \in 0..Attempts : Attempt(s, left)
  \/ \E s \in Scripts, p \in PortSet : Listen(s, p)

Spec == Init /\ [][Next]_vars

-----------------------------------------------------------------------------
(* Properties. *)

TypeOK ==
  LET Container == [image : {"buyer", "seller", "verifier"}, session : 1..MaxSessions] IN
  /\ sessions \in 0..MaxSessions
  /\ pending \subseteq Container /\ containers \subseteq Container
  /\ excused \subseteq 1..MaxSessions
  /\ \A l \in Launchers : launch[l].at \in {"idle", "cleaning", "ended"}
  /\ \A s \in Scripts : script[s].at \in {"down", "probe", "spawn", "round", "retry", "up", "closing", "gone"}
  /\ listening \in [PortSet -> Scripts \cup {None}] /\ starting \subseteq Scripts \X PortSet
  /\ bereft \in [Scripts -> SUBSET PortSet]

AtRest == UnderWay = {} /\ pending = {}

Runs(image, n) == [image |-> image, session |-> n] \in containers

(* stopPreviousRound, stopAgentContainers. When no launch is under way and    *)
(* CoralOS has created what it was asked for, no round is left with just its  *)
(* buyer or just its sellers, which would wait for each other; but for the    *)
(* rounds whose containers were being created, or Docker failed for, while a  *)
(* launch cleaned up, and those launched at the same time as another.         *)
RoundsAreWhole ==
  /\ TypeOK
  /\ AtRest => \A n \in 1..sessions : n \in excused \/ (Runs("buyer", n) <=> Runs("seller", n))

(* "Repeated rounds pile up dozens of containers": a launch that does not     *)
(* meet such trouble leaves no agent of an earlier round that holds a key.    *)
OldRoundsAreStopped ==
  AtRest => \A n \in 1..sessions : Runs("buyer", n) \/ Runs("seller", n) => n = sessions \/ n \in excused

(* spawnService, stopCoreServices: a script that is up has each of its        *)
(* services, its own or another's, unless the script that had started it was  *)
(* stopped since: no service is lost to two scripts starting at once.         *)
ServicesAreServed ==
  \A s \in Scripts : script[s].at \in {"round", "retry", "up"} =>
    \A p \in PortSet : listening[p] # None \/ p \in bereft[s] \/ \E t \in Scripts : <<t, p>> \in starting
=============================================================================
