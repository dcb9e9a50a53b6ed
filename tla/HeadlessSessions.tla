-------------------------- MODULE HeadlessSessions --------------------------
(***************************************************************************)
(* The two headless hosts: a manager that spawns and stops agent sessions  *)
(* on request (examples/claude-code-headless/src/claude-session-manager.ts *)
(* and examples/pi-headless/src/pi-session-manager.ts) and the session     *)
(* itself (managed-session.ts of each), which queues the prompts of its    *)
(* own agent service and hands them to the model one turn at a time.       *)
(*                                                                         *)
(* Each handler runs to its next await; the awaits are: the registration   *)
(* of the service (Started, SpawnFails), the staging of attachments        *)
(* (Staged, StagingFails), a turn (TurnEnds), setImmediate (Wake), the     *)
(* completion a handler waits for (HandlerCloses), the handlers dispose()  *)
(* waits for (HandlersClosed) and the stop of the service (SessionStopped).*)
(* The model's turn, the file system and the clock are the environment.    *)
(***************************************************************************)
EXTENDS Naturals, FiniteSets, SequencesExt

CONSTANTS
    Ids,         \* session ids callers ask for
    Sessions,    \* ManagedSession objects, 1..n, in the order they are built
    Requests,    \* prompts
    Hosts,       \* which of the two programs are considered
    Attaching,   \* those whose prompts may carry attachments
    Nobody       \* "no session", "no request"

ASSUME HostsAssumption ==
    /\ Attaching \subseteq Hosts /\ Hosts \subseteq {"claude", "pi"}
    /\ Nobody \notin Sessions \cup Requests

VARIABLES
    host,        \* the program that runs
    managerStopping,  \* the manager's `stopping`
    creating,    \* the manager's `creating`: ids whose service is being registered
    sessions,    \* the manager's `sessions`: id |-> session object
    session,     \* the objects: id, life, queue, active request, pending wake-up, ...
    request,     \* prompts: where their handler is, of which session, how they were settled
    running      \* requests whose turn the model is working on

managerVars == <<host, managerStopping, creating, sessions>>
headlessVars == <<managerVars, session, request, running>>

Unborn == [id |-> Nobody, life |-> "none", queue |-> <<>>, active |-> Nobody,
           wake |-> FALSE, expired |-> FALSE, owed |-> {}]
HeadlessInit ==
    /\ host \in Hosts
    /\ managerStopping = FALSE
    /\ creating = {}
    /\ sessions = [i \in Ids |-> Nobody]
    /\ session = [s \in Sessions |-> Unborn]
    /\ request = [r \in Requests |-> [at |-> "new", to |-> Nobody, verdict |-> "none"]]
    /\ running = {}

Disposed(s) == session[s].life \in {"closing", "stopping", "gone"}
\* `pendingRequests`: what is queued and what is being served.
Pending(s) == ToSet(session[s].queue) \cup ({session[s].active} \ {Nobody})

(***************************************************************************)
(* The session.                                                            *)
(***************************************************************************)

\* Fault: a drain that does not ask whether a turn is already running.
AfterDrainAlways(x) ==
    IF x.life \in {"closing", "stopping", "gone"} \/ x.queue = <<>>
    THEN [session |-> x, rejected |-> {}, started |-> {}]
    ELSE [session |-> [x EXCEPT !.queue = Tail(@), !.active = Head(x.queue)],
          rejected |-> {}, started |-> {Head(x.queue)}]

\* drain(): the state of the session after it, the request it rejects because
\* the session has expired (Claude only) and the one whose turn it starts.
AfterDrain(x) ==
    IF x.life \in {"closing", "stopping", "gone"} \/ x.active # Nobody \/ x.queue = <<>>
    THEN [session |-> x, rejected |-> {}, started |-> {}]
    ELSE IF host = "claude" /\ x.expired
    THEN [session |-> [x EXCEPT !.queue = Tail(@), !.wake = x.wake \/ Tail(x.queue) # <<>>],
          rejected |-> {Head(x.queue)}, started |-> {}]
    ELSE [session |-> [x EXCEPT !.queue = Tail(@), !.active = Head(x.queue)],
          rejected |-> {}, started |-> {Head(x.queue)}]

\* `void this.drain()` on session s, with `reqs` the requests before it.
Drain(s, x, reqs) ==
    LET d == AfterDrain(x) IN
    /\ session' = [session EXCEPT ![s] = d.session]
    /\ request' = [r \in Requests |->
                     IF r \in d.rejected THEN [reqs[r] EXCEPT !.verdict = "expired"] ELSE reqs[r]]
    /\ running' = running \cup d.started

\* handlePrompt, to its end: the request is queued and the queue drained.
Enqueue(r, s) ==
    Drain(s, [session[s] EXCEPT !.queue = Append(@, r)],
          [request EXCEPT ![r] = [at |-> "waiting", to |-> s, verdict |-> "none"]])
Refused(r, s, why) ==
    /\ request' = [request EXCEPT ![r] = [at |-> "closed", to |-> s, verdict |-> why]]
    /\ UNCHANGED <<session, running>>
RefuseOrElse(r, s, Otherwise) ==
    IF Disposed(s) THEN Refused(r, s, "stopped")
    ELSE IF session[s].expired THEN Refused(r, s, "expired")
    ELSE Otherwise

\* A prompt reaches handlePrompt, which the service calls from its registration
\* to its stop.  With attachments it first writes them to a directory.
Arrive(r, s) ==
    /\ request[r].at = "new"
    /\ session[s].life \in {"starting", "up", "closing", "stopping"}
    /\ \/ RefuseOrElse(r, s, Enqueue(r, s))
       \/ /\ host \in Attaching
          /\ RefuseOrElse(r, s,
               /\ request' = [request EXCEPT ![r] = [at |-> "staging", to |-> s, verdict |-> "none"]]
               /\ UNCHANGED <<session, running>>)
    /\ UNCHANGED managerVars

StagingFails(r) ==
    /\ request[r].at = "staging"
    /\ Refused(r, request[r].to, "failed")
    /\ UNCHANGED managerVars

\* The attachments are written.  The Claude host asks again whether the session
\* still lives; the PI host does not.
Staged(r) ==
    /\ request[r].at = "staging"
    /\ LET s == request[r].to IN
       IF host = "claude" THEN RefuseOrElse(r, s, Enqueue(r, s)) ELSE Enqueue(r, s)
    /\ UNCHANGED managerVars

Settled(r) == request[r].verdict # "none"

\* Fault: the end of a turn that leaves the queue to the next prompt.
TurnEndedOnly(s, r) == [session[s] EXCEPT !.active = IF @ = r THEN Nobody ELSE @]

\* A turn ends, well or not: the request is settled unless dispose() did it
\* first, and setImmediate looks at the queue again.
TurnEnded(s, r) ==
    [session[s] EXCEPT !.active = IF @ = r THEN Nobody ELSE @,
                       !.wake = @ \/ (~Disposed(s) /\ session[s].queue # <<>>)]

TurnEnds(r, verdict) ==
    /\ r \in running
    /\ running' = running \ {r}
    /\ session' = [session EXCEPT ![request[r].to] = TurnEnded(request[r].to, r)]
    /\ request' = IF Settled(r) THEN request ELSE [request EXCEPT ![r].verdict = verdict]
    /\ UNCHANGED managerVars

Wake(s) ==
    /\ session[s].wake
    /\ Drain(s, [session[s] EXCEPT !.wake = FALSE], request)
    /\ UNCHANGED managerVars

\* The handler of a settled request goes on: it removes the staged files and ends.
HandlerCloses(r) ==
    /\ request[r].at = "waiting" /\ Settled(r)
    /\ request' = [request EXCEPT ![r].at = "closed"]
    /\ UNCHANGED <<managerVars, session, running>>

(***************************************************************************)
(* dispose(): every pending request is rejected and the queue emptied; the *)
(* service stops once the handlers of those requests have ended (Claude    *)
(* waits for them, PI yields to the event loop, which runs them).          *)
(***************************************************************************)
DisposeAll(these) ==
    /\ session' = [s \in Sessions |->
                     IF s \in these
                     THEN [session[s] EXCEPT !.life = "closing", !.queue = <<>>, !.owed = Pending(s),
                                             !.active = IF host = "pi" THEN Nobody ELSE @]
                     ELSE session[s]]
    /\ request' = [r \in Requests |->
                     IF ~Settled(r) /\ \E s \in these : r \in Pending(s)
                     THEN [request[r] EXCEPT !.verdict = "stopped"] ELSE request[r]]
    /\ UNCHANGED running

HandlersClosed(s) ==
    /\ session[s].life = "closing"
    /\ \A r \in session[s].owed : request[r].at = "closed"
    /\ session' = [session EXCEPT ![s].life = "stopping"]
    /\ UNCHANGED <<managerVars, request, running>>
SessionStopped(s) ==
    /\ session[s].life = "stopping"
    /\ session' = [session EXCEPT ![s].life = "gone"]
    /\ UNCHANGED <<managerVars, request, running>>

(***************************************************************************)
(* The manager.                                                            *)
(***************************************************************************)

\* spawn(), to the registration of the service.
Spawn(s, i) ==
    /\ ~managerStopping
    /\ session[s].life = "none" /\ \A t \in Sessions : t < s => session[t].life # "none"
    /\ sessions[i] = Nobody /\ i \notin creating
    /\ creating' = creating \cup {i}
    /\ session' = [session EXCEPT ![s].id = i, ![s].life = "starting"]
    /\ UNCHANGED <<host, managerStopping, sessions, request, running>>

Started(s) ==
    /\ session[s].life = "starting"
    /\ session' = [session EXCEPT ![s].life = "up"]
    /\ sessions' = [sessions EXCEPT ![session[s].id] = s]
    /\ creating' = creating \ {session[s].id}
    /\ UNCHANGED <<host, managerStopping, request, running>>
\* The service could not be registered.  PI disposes of the session it built.
SpawnFails(s) ==
    /\ session[s].life = "starting"
    /\ creating' = creating \ {session[s].id}
    /\ IF host = "pi" THEN DisposeAll({s})
       ELSE session' = [session EXCEPT ![s].life = "failed"] /\ UNCHANGED <<request, running>>
    /\ UNCHANGED <<host, managerStopping, sessions>>

Unlist(these) == sessions' = [i \in Ids |-> IF sessions[i] \in these THEN Nobody ELSE sessions[i]]
StopOne(i) ==
    /\ sessions[i] # Nobody
    /\ Unlist({sessions[i]})
    /\ DisposeAll({sessions[i]})
    /\ UNCHANGED <<host, managerStopping, creating>>
ManagerStop ==
    /\ ~managerStopping
    /\ managerStopping' = TRUE
    /\ LET all == {sessions[i] : i \in Ids} \ {Nobody} IN Unlist(all) /\ DisposeAll(all)
    /\ UNCHANGED <<host, creating>>

\* The lifetime of a session runs out; the sweep finds it later.
Expire(s) ==
    /\ session[s].life \notin {"none", "gone"} /\ ~session[s].expired
    /\ session' = [session EXCEPT ![s].expired = TRUE]
    /\ UNCHANGED <<managerVars, request, running>>
CheckLifetimes ==
    LET over == {s \in Sessions : session[s].expired /\ \E i \in Ids : sessions[i] = s} IN
    /\ ~managerStopping /\ over # {}
    /\ Unlist(over)
    /\ DisposeAll(over)
    /\ UNCHANGED <<host, managerStopping, creating>>

\* pruneStale(): what waited too long is rejected - the oldest n of each queue -
\* and never the request being served.
PruneStale(s, n) ==
    /\ ~managerStopping /\ \E i \in Ids : sessions[i] = s
    /\ n <= Len(session[s].queue)
    /\ LET old == ToSet(SubSeq(session[s].queue, 1, n)) IN
       /\ session' = [session EXCEPT ![s].queue = SubSeq(@, n + 1, Len(@))]
       /\ request' = [r \in Requests |->
                        IF r \in old THEN [request[r] EXCEPT !.verdict = "stale"] ELSE request[r]]
    /\ UNCHANGED <<managerVars, running>>

HeadlessNext ==
    \/ \E r \in Requests, s \in Sessions : Arrive(r, s)
    \/ \E r \in Requests : Staged(r) \/ StagingFails(r) \/ HandlerCloses(r)
    \/ \E r \in Requests, verdict \in {"ok", "failed"} : TurnEnds(r, verdict)
    \/ \E s \in Sessions, i \in Ids : Spawn(s, i)
    \/ \E s \in Sessions : Started(s) \/ SpawnFails(s) \/ Wake(s) \/ Expire(s)
    \/ \E s \in Sessions : HandlersClosed(s) \/ SessionStopped(s)
    \/ \E s \in Sessions, n \in 1..Cardinality(Requests) : PruneStale(s, n)
    \/ \E i \in Ids : StopOne(i)
    \/ ManagerStop
    \/ CheckLifetimes

\* Promises, timers and writes settle and a turn ends (the model answers, fails
\* or is aborted); nobody has to spawn, stop, prune or sweep.
HeadlessFairness ==
    /\ \A r \in Requests : WF_headlessVars(Staged(r)) /\ WF_headlessVars(HandlerCloses(r))
    /\ \A r \in Requests : WF_headlessVars(TurnEnds(r, "failed"))
    /\ \A s \in Sessions : /\ WF_headlessVars(Wake(s))
                           /\ WF_headlessVars(HandlersClosed(s))
                           /\ WF_headlessVars(SessionStopped(s))
HeadlessSpec == HeadlessInit /\ [][HeadlessNext]_headlessVars /\ HeadlessFairness

-----------------------------------------------------------------------------

\* "Concurrent re-entry into the same logical session would interleave context":
\* however prompts, wake-ups, expiry and disposal interleave, a session never
\* has two turns running, and an id never has two sessions that are not disposed.
TurnsAreSerial ==
    /\ \A r, q \in running : request[r].to = request[q].to => r = q
    /\ \A s, t \in Sessions :
         (session[s].id = session[t].id /\ session[s].life \in {"starting", "up"}
            /\ session[t].life \in {"starting", "up"}) => (s = t \/ session[s].id = Nobody)

\* "dispose() cannot miss a request": once dispose() goes on to stop the service,
\* every prompt the session queued has been settled, also one whose attachments
\* were being written when the session was stopped.
DisposeMissesNothing ==
    \A r \in Requests :
      (request[r].at = "waiting" /\ session[request[r].to].life \in {"stopping", "gone"}) => Settled(r)

\* Every prompt is settled and its handler ends, and a session that is disposed
\* of is gone in the end, so that all is idle again: the chain turn -
\* setImmediate - drain never breaks, whatever is pruned, expires or is stopped
\* meanwhile.
PromptsEnd ==
    []<>(/\ \A r \in Requests : request[r].at \notin {"staging", "waiting"}
         /\ \A s \in Sessions : session[s].life # "closing")

\* Turns follow each other in a session, and its disposal takes them all along
\* (managed-session.ts: drain, dispose).
SessionsAreSerial == TurnsAreSerial /\ DisposeMissesNothing
=============================================================================
