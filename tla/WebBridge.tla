----------------------------- MODULE WebBridge -----------------------------
(***************************************************************************)
(* The bridge of the agent web UI (examples/agent-web-ui/server/bridge.ts):*)
(* one per browser connection.  It keeps a map of the agents it knows, fed *)
(* by discover(), by a lookup for every heartbeat of an instance it does   *)
(* not know and by the sessions it has spawned, evicts agents that fell    *)
(* silent, and relays prompts, their queries and the answers to them.      *)
(*                                                                         *)
(* An answer of the network is taken when the network gives it (Answered)  *)
(* and handled when the promise resumes, later.  The agents, the browser   *)
(* and the clock are the environment.                                      *)
(***************************************************************************)
EXTENDS Naturals, FiniteSets

CONSTANTS
    Instances,   \* agent instances
    SessionsOf,  \* those that are sessions of a headless host
    Discovers,   \* discover() calls that may be in flight together
    Prompts      \* prompts of the browser, each with an id of its own

ASSUME SessionsAssumption == SessionsOf \subseteq Instances

VARIABLES
    online,      \* instances that answer the network
    known,       \* agentsByInstanceId
    subs,        \* heartbeatSubs
    beats,       \* lastHeartbeatAt: "none" | "fresh" | "old" (past the cutoff)
    lookups,     \* lookups: "none" | "asked" | "found" | "missing"
    discovers,   \* discover() calls: "none" | "asked" | "answered", and the instances that answered
    spawns,      \* spawn and stop requests of sessions: "none" | "asked" | "lookup" | "stopping"
    closed,
    view,        \* the agents the browser has been told of
    prompts,     \* prompts: "new" | "streaming" | "done"
    queries,     \* activeQueries: prompts with a query in the map
    replying     \* query replies under way: the prompts they belong to

bridgeVars == <<online, known, subs, beats, lookups, discovers, spawns, closed, view,
                prompts, queries, replying>>
agentVars == <<known, subs, beats, view>>
chatVars == <<prompts, queries, replying>>

BridgeInit ==
    /\ online = {} /\ known = {} /\ subs = {} /\ view = {}
    /\ beats = [i \in Instances |-> "none"]
    /\ lookups = [i \in Instances |-> "none"]
    /\ discovers = [d \in Discovers |-> [at |-> "none", agents |-> {}]]
    /\ spawns = [i \in SessionsOf |-> "none"]
    /\ closed = FALSE
    /\ prompts = [p \in Prompts |-> "new"]
    /\ queries = {} /\ replying = {}

\* send(): what the browser knows after being told, unless it has left.
Tell(agents) == view' = IF closed THEN view ELSE agents

\* ensureAgentKnown, to the lookup it makes unless one is under way.
Ensure(i) ==
    lookups' = IF i \in known \/ lookups[i] # "none" THEN lookups ELSE [lookups EXCEPT ![i] = "asked"]

\* forgetAgent
Forget(i) ==
    /\ known' = known \ {i}
    /\ beats' = IF i \in known THEN [beats EXCEPT ![i] = "none"] ELSE beats
    /\ subs' = IF i \in known THEN subs \ {i} ELSE subs
    /\ Tell(IF i \in known THEN view \ {i} ELSE view)

(***************************************************************************)
(* Agents.                                                                 *)
(***************************************************************************)
Heartbeat(i) ==
    /\ i \in online /\ ~closed
    /\ beats' = [beats EXCEPT ![i] = "fresh"]
    /\ Ensure(i)
    /\ UNCHANGED <<online, known, subs, view, discovers, spawns, closed, chatVars>>

\* A lookup, or a discover(), is answered by the network as it is now.
LookupAnswered(i) ==
    /\ lookups[i] = "asked"
    /\ \E answer \in {"found", "missing"} :   \* "missing" also when the call fails
         /\ answer = "found" => i \in online
         /\ lookups' = [lookups EXCEPT ![i] = answer]
    /\ UNCHANGED <<online, agentVars, discovers, spawns, closed, chatVars>>
DiscoverAnswered(d) ==
    /\ discovers[d].at = "asked"
    /\ discovers' = [discovers EXCEPT ![d] = [at |-> "answered", agents |-> online]]
    /\ UNCHANGED <<online, agentVars, lookups, spawns, closed, chatVars>>

\* Where the spawn handlers are after the lookup of i: the one that waited for
\* it has told the browser "spawned".
SpawnsAfterLookup(i) ==
    [j \in SessionsOf |-> IF j = i /\ spawns[j] = "lookup" THEN "none" ELSE spawns[j]]

\* Fault: a lookup that stays registered as under way when it found nobody.
LookupHandledIfFound(i) ==
    /\ lookups[i] = "found"
    /\ lookups' = [lookups EXCEPT ![i] = "none"]
    /\ spawns' = SpawnsAfterLookup(i)
    /\ IF i \notin known
       THEN /\ known' = known \cup {i} /\ subs' = subs \cup {i}
            /\ beats' = IF beats[i] = "none" THEN [beats EXCEPT ![i] = "fresh"] ELSE beats
            /\ Tell(view \cup {i})
       ELSE UNCHANGED agentVars
    /\ UNCHANGED <<online, discovers, closed, chatVars>>

\* ensureAgentKnown goes on: registerAgent, unless somebody did it meanwhile.
LookupHandled(i) ==
    /\ lookups[i] \in {"found", "missing"}
    /\ lookups' = [lookups EXCEPT ![i] = "none"]
    /\ spawns' = SpawnsAfterLookup(i)
    /\ IF lookups[i] = "found" /\ i \notin known
       THEN /\ known' = known \cup {i}
            /\ subs' = subs \cup {i}
            /\ beats' = IF beats[i] = "none" THEN [beats EXCEPT ![i] = "fresh"] ELSE beats
            /\ Tell(view \cup {i})
       ELSE UNCHANGED agentVars
    /\ UNCHANGED <<online, discovers, closed, chatVars>>

Discover(d) ==
    /\ ~closed /\ discovers[d].at = "none"
    /\ discovers' = [discovers EXCEPT ![d].at = "asked"]
    /\ UNCHANGED <<online, agentVars, lookups, spawns, closed, chatVars>>
\* handleDiscover goes on: the answer replaces the map, and the subscriptions
\* follow it.
DiscoverHandled(d) ==
    /\ discovers[d].at = "answered"
    /\ known' = discovers[d].agents /\ subs' = discovers[d].agents
    /\ Tell(discovers[d].agents)
    /\ discovers' = [discovers EXCEPT ![d] = [at |-> "none", agents |-> {}]]
    /\ UNCHANGED <<online, beats, lookups, spawns, closed, chatVars>>

\* The silence of an instance passes the cutoff; the sweep finds it.  A session
\* of a headless host is kept on the screen.
FallSilent(i) ==
    /\ beats[i] = "fresh" /\ beats' = [beats EXCEPT ![i] = "old"]
    /\ UNCHANGED <<online, known, subs, view, lookups, discovers, spawns, closed, chatVars>>
Evict(i) ==
    /\ ~closed /\ beats[i] = "old"
    /\ IF i \notin known \/ i \in SessionsOf
       THEN beats' = [beats EXCEPT ![i] = "none"] /\ UNCHANGED <<known, subs, view>>
       ELSE Forget(i)
    /\ UNCHANGED <<online, lookups, discovers, spawns, closed, chatVars>>

(***************************************************************************)
(* Spawning and stopping a session through its controller: the spawned     *)
(* session is looked up at once, the stopped one forgotten at once.        *)
(***************************************************************************)
Control(i, from, to) == spawns[i] = from /\ spawns' = [spawns EXCEPT ![i] = to]
AskSpawn(i) ==
    /\ ~closed /\ i \notin online /\ Control(i, "none", "asked")
    /\ UNCHANGED <<online, agentVars, lookups, discovers, closed, chatVars>>
\* The handler awaits its own lookup, which ends it; it does not wait for one
\* that was already under way.
SpawnReplied(i) ==
    /\ Control(i, "asked", IF i \in known \/ lookups[i] # "none" THEN "none" ELSE "lookup")
    /\ online' = online \cup {i}
    /\ Ensure(i)
    /\ UNCHANGED <<agentVars, discovers, closed, chatVars>>
ControlFails(i) ==
    /\ spawns[i] \in {"asked", "stopping"}
    /\ spawns' = [spawns EXCEPT ![i] = "none"]
    /\ UNCHANGED <<online, agentVars, lookups, discovers, closed, chatVars>>
AskStop(i) ==
    /\ ~closed /\ i \in online /\ Control(i, "none", "stopping")
    /\ UNCHANGED <<online, agentVars, lookups, discovers, closed, chatVars>>
StopReplied(i) ==
    /\ Control(i, "stopping", "none")
    /\ online' = online \ {i}
    /\ Forget(i)
    /\ UNCHANGED <<lookups, discovers, closed, chatVars>>

(***************************************************************************)
(* Prompts.                                                                *)
(***************************************************************************)
Chat == UNCHANGED <<online, agentVars, lookups, discovers, spawns, closed>>
Prompt(p, i) ==
    /\ ~closed /\ prompts[p] = "new"
    /\ prompts' = [prompts EXCEPT ![p] = IF i \in known THEN "streaming" ELSE "done"]
    /\ UNCHANGED <<queries, replying>> /\ Chat
\* A query of the agent: the loop keeps it for the browser's answer.
Query(p) ==
    /\ ~closed /\ prompts[p] = "streaming"
    /\ queries' = queries \cup {p}
    /\ UNCHANGED <<prompts, replying>> /\ Chat
QueryReply(p) ==
    /\ ~closed /\ p \in queries
    /\ replying' = replying \cup {p}
    /\ UNCHANGED <<prompts, queries>> /\ Chat
\* reply() settles: an answer that failed leaves the query to be answered again.
Replied(p) ==
    /\ p \in replying
    /\ replying' = replying \ {p}
    /\ queries' \in {queries, queries \ {p}}
    /\ UNCHANGED prompts /\ Chat

\* Fault: the end of a prompt leaves its unanswered query in the map.
StreamEndsOnly(p) ==
    /\ prompts[p] = "streaming"
    /\ prompts' = [prompts EXCEPT ![p] = "done"]
    /\ UNCHANGED <<queries, replying>> /\ Chat

\* The stream ends, fails, is cancelled, or the loop finds the bridge closed.
StreamEnds(p) ==
    /\ prompts[p] = "streaming"
    /\ prompts' = [prompts EXCEPT ![p] = "done"]
    /\ queries' = queries \ {p}
    /\ UNCHANGED replying /\ Chat

\* close(): the maps are emptied; the calls under way go on.
Close ==
    /\ ~closed /\ closed' = TRUE
    /\ subs' = {} /\ queries' = {}
    /\ beats' = [i \in Instances |-> "none"]
    /\ UNCHANGED <<online, known, view, lookups, discovers, spawns, prompts, replying>>

\* An agent comes online, or leaves.
Come(i) ==
    /\ i \notin SessionsOf /\ i \notin online /\ online' = online \cup {i}
    /\ UNCHANGED <<agentVars, lookups, discovers, spawns, closed, chatVars>>
Leave(i) ==
    /\ i \in online /\ online' = online \ {i}
    /\ UNCHANGED <<agentVars, lookups, discovers, spawns, closed, chatVars>>

BridgeNext ==
    \/ \E i \in Instances : \/ Heartbeat(i) \/ LookupAnswered(i) \/ LookupHandled(i)
                            \/ FallSilent(i) \/ Evict(i) \/ Come(i) \/ Leave(i)
    \/ \E d \in Discovers : Discover(d) \/ DiscoverAnswered(d) \/ DiscoverHandled(d)
    \/ \E i \in SessionsOf : \/ AskSpawn(i) \/ SpawnReplied(i)
                             \/ AskStop(i) \/ StopReplied(i) \/ ControlFails(i)
    \/ \E p \in Prompts, i \in Instances : Prompt(p, i)
    \/ \E p \in Prompts : Query(p) \/ QueryReply(p) \/ Replied(p) \/ StreamEnds(p)
    \/ Close

\* An agent that is online is heard of again and again, a question to the network is
\* answered - truly, if it is asked often enough - and promises resume.
BridgeFairness ==
    /\ \A i \in Instances : /\ WF_bridgeVars(Heartbeat(i))
                            /\ SF_bridgeVars(LookupAnswered(i) /\ (i \in online => lookups'[i] = "found"))
                            /\ WF_bridgeVars(LookupHandled(i))
    /\ \A d \in Discovers : WF_bridgeVars(DiscoverAnswered(d)) /\ WF_bridgeVars(DiscoverHandled(d))
BridgeSpec == BridgeInit /\ [][BridgeNext]_bridgeVars /\ BridgeFairness

-----------------------------------------------------------------------------

\* While the browser is there, whatever answers come in which order: it is shown
\* exactly the agents the bridge can prompt, each of them has its heartbeat
\* subscription and nobody else has, and the only queries it can answer belong
\* to prompts that still run.
BrowserSeesWhatIsThere ==
    ~closed => /\ view = known
               /\ subs = known
               /\ \A p \in queries : prompts[p] = "streaming"

\* "New instance_ids trigger a targeted lookup so the bridge adds them to the
\* map": an agent that stays online is known again and again, also when an older
\* discover() answer removed it or a lookup failed.
BeatingIsKnown ==
    \A i \in Instances : []<>(i \in online /\ ~closed => i \in known)

\* close() unsubscribes everything, and nothing is subscribed after it.
NothingSubscribedAfterClose == closed => subs = {}
=============================================================================
