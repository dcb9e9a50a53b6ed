---------------------------- MODULE ServiceLifecycle ----------------------------
(***************************************************************************)
(* AgentService's start(), stop() and heartbeats                           *)
(* (agent-sdk/typescript/src/service.ts).                                  *)
(*                                                                         *)
(* The application calls start() and stop(); each is a task with awaits.   *)
(* An interval timer starts beats, and a beat awaits its signer, which may *)
(* be slow (a remote HSM) or fail.  The fields of the class are shared by  *)
(* all of them.                                                            *)
(***************************************************************************)
EXTENDS Integers, Sequences, FiniteSets

CONSTANTS
  Signed,     \* a signer is configured
  Overlap,    \* the application may call start() or stop() before an earlier
              \* call of either has resolved
  MaxStarts,  \* bound: calls of start()
  MaxStops,   \* bound: calls of stop()
  MaxBeats    \* bound: heartbeats built

ASSUME LifecycleFlags == {Signed, Overlap} \subseteq BOOLEAN
ASSUME LifecycleBounds == {MaxStarts, MaxStops, MaxBeats} \subseteq Nat

Starts == 1..MaxStarts
Stops == 1..MaxStops

(* A heartbeat: the service instance it names, when its frame was built,   *)
(* and the start() that awaits it, 0 for a beat of the interval timer.     *)
Beats == [instance : Starts, ts : 1..MaxBeats, awaitedBy : 0..MaxStarts]

VARIABLES
  starting,     \* of each start(): the await it is at
  stopping,     \* of each stop(): "idle", "draining" or "done"
  service,      \* #service: the start() that registered it, 0 for null
  registered,   \* the services registered at the server
  stopped,      \* #heartbeatsStopped
  timer,        \* #heartbeatTimer: the interval of a start(), 0 for null
  intervals,    \* the intervals that still fire
  inFlight,     \* #heartbeatInFlight: the ts of a pending beat, 0 for null
  signing,      \* beats whose signer is busy
  built,        \* how many beats were built: the clock of their ts
  out,          \* beats published, in order
  wanted        \* the application's last call was start()

beatVars == <<inFlight, signing, built, out>>
vars == <<starting, stopping, service, registered, stopped, timer, intervals,
          beatVars, wanted>>

TypeOK ==
  /\ starting \in [Starts -> {"idle", "identifying", "adding", "flushing",
                              "firstBeat", "done", "failed"}]
  /\ stopping \in [Stops -> {"idle", "draining", "done"}]
  /\ service \in 0..MaxStarts
  /\ registered \subseteq Starts
  /\ timer \in 0..MaxStarts
  /\ intervals \subseteq Starts
  /\ {stopped, wanted} \subseteq BOOLEAN
  /\ inFlight \in 0..MaxBeats
  /\ signing \subseteq Beats
  /\ built \in 0..MaxBeats
  /\ out \in Seq(Beats)

Init ==
  /\ starting = [s \in Starts |-> "idle"]
  /\ stopping = [p \in Stops |-> "idle"]
  /\ service = 0
  /\ registered = {}
  /\ stopped = FALSE
  /\ timer = 0
  /\ intervals = {}
  /\ inFlight = 0
  /\ signing = {}
  /\ built = 0
  /\ out = <<>>
  /\ wanted = FALSE

-----------------------------------------------------------------------------
(* publishHeartbeat: builds the frame and publishes it, at once without a  *)
(* signer, else once the signer is done.  There must be a service.         *)
BuildBeat(by) ==
  LET beat == [instance |-> service, ts |-> built + 1, awaitedBy |-> by] IN
  /\ service # 0
  /\ built < MaxBeats
  /\ built' = built + 1
  /\ IF Signed
     THEN signing' = signing \cup {beat} /\ UNCHANGED out
     ELSE out' = Append(out, beat) /\ UNCHANGED signing

Busy ==
  \/ \E s \in Starts : starting[s] \notin {"idle", "done", "failed"}
  \/ \E p \in Stops : stopping[p] = "draining"

MayCall == Overlap \/ ~Busy

Enter(s, place) == starting' = [starting EXCEPT ![s] = place]

(* start() looks at #service, then awaits the identity lookup.             *)
Start(s) ==
  /\ starting[s] = "idle"
  /\ \A r \in Starts : r < s => starting[r] # "idle"
  /\ MayCall
  /\ IF service # 0
     THEN Enter(s, "failed") /\ UNCHANGED wanted
     ELSE Enter(s, "identifying") /\ wanted' = TRUE
  /\ UNCHANGED <<stopping, service, registered, stopped, timer, intervals,
                 beatVars>>

Identified(s) ==
  /\ starting[s] = "identifying"
  /\ Enter(s, "adding")
  /\ UNCHANGED <<stopping, service, registered, stopped, timer, intervals,
                 beatVars, wanted>>

(* A signer that does not bind to the live user, or a lost connection,     *)
(* fails the start: what it has registered by then stays.                  *)
StartFails(s) ==
  /\ starting[s] \in {"identifying", "adding", "flushing"}
  /\ Enter(s, "failed")
  /\ UNCHANGED <<stopping, service, registered, stopped, timer, intervals,
                 beatVars, wanted>>

(* svcm.add resolved: the service is registered and remembered, and its    *)
(* endpoints are added; flush() is awaited.                                *)
Added(s) ==
  /\ starting[s] = "adding"
  /\ service' = s
  /\ registered' = registered \cup {s}
  /\ Enter(s, "flushing")
  /\ UNCHANGED <<stopping, stopped, timer, intervals, beatVars, wanted>>

(* startHeartbeats, up to its await: the first beat, awaited by start()    *)
(* itself and not noted as in flight.                                      *)
StartHeartbeats(s) ==
  /\ starting[s] = "flushing"
  /\ stopped' = FALSE
  /\ IF service = 0 THEN UNCHANGED beatVars ELSE BuildBeat(s) /\ UNCHANGED inFlight
  /\ Enter(s, "firstBeat")
  /\ UNCHANGED <<stopping, service, registered, timer, intervals, wanted>>

(* The first beat is out, or was held back: the interval is armed.         *)
ArmTimer(s) ==
  /\ starting[s] = "firstBeat"
  /\ \A b \in signing : b.awaitedBy # s
  /\ timer' = s
  /\ intervals' = intervals \cup {s}
  /\ Enter(s, "done")
  /\ UNCHANGED <<stopping, service, registered, stopped, beatVars, wanted>>

(* The interval fires; it is skipped while a beat of it is pending.        *)
Tick(s) ==
  /\ s \in intervals
  /\ inFlight = 0
  /\ BuildBeat(0)
  /\ inFlight' = IF Signed THEN built + 1 ELSE 0
  /\ UNCHANGED <<starting, stopping, service, registered, stopped, timer,
                 intervals, wanted>>

(* Fault: what happened while the signer was busy is not looked at again.  *)
SignedRegardless(b) ==
  /\ b \in signing
  /\ signing' = signing \ {b}
  /\ out' = Append(out, b)
  /\ inFlight' = IF b.awaitedBy = 0 THEN 0 ELSE inFlight
  /\ UNCHANGED <<starting, stopping, service, registered, stopped, timer,
                 intervals, built, wanted>>

(* Fault: a beat that is held back leaves its in-flight mark.              *)
SignedForgetful(b) ==
  /\ b \in signing
  /\ signing' = signing \ {b}
  /\ IF stopped
     THEN UNCHANGED <<out, inFlight>>
     ELSE out' = Append(out, b) /\ inFlight' = IF b.awaitedBy = 0 THEN 0 ELSE inFlight
  /\ UNCHANGED <<starting, stopping, service, registered, stopped, timer,
                 intervals, built, wanted>>

(* The signer answers, or fails, which costs the beat its signature only:  *)
(* the beat is published unless the heartbeats were stopped meanwhile.     *)
SignerDone(b) ==
  /\ b \in signing
  /\ signing' = signing \ {b}
  /\ out' = IF stopped THEN out ELSE Append(out, b)
  /\ inFlight' = IF b.awaitedBy = 0 THEN 0 ELSE inFlight
  /\ UNCHANGED <<starting, stopping, service, registered, stopped, timer,
                 intervals, built, wanted>>

(* Fault: the interval is forgotten but not cleared.                       *)
StopLeavesInterval(p) ==
  /\ stopping[p] = "idle"
  /\ \A r \in Stops : r < p => stopping[r] # "idle"
  /\ MayCall
  /\ stopped' = TRUE
  /\ timer' = 0
  /\ stopping' = [stopping EXCEPT ![p] = IF service = 0 THEN "done" ELSE "draining"]
  /\ wanted' = FALSE
  /\ UNCHANGED <<starting, service, registered, intervals, beatVars>>

(* stop(): no beat from here on; the service is stopped and awaited.       *)
Stop(p) ==
  /\ stopping[p] = "idle"
  /\ \A r \in Stops : r < p => stopping[r] # "idle"
  /\ MayCall
  /\ stopped' = TRUE
  /\ intervals' = intervals \ {timer}
  /\ timer' = 0
  /\ stopping' = [stopping EXCEPT ![p] = IF service = 0 THEN "done" ELSE "draining"]
  /\ wanted' = FALSE
  /\ UNCHANGED <<starting, service, registered, beatVars>>

(* service.stop() resolved.                                                *)
Drained(p) ==
  /\ stopping[p] = "draining"
  /\ stopping' = [stopping EXCEPT ![p] = "done"]
  /\ registered' = registered \ {service}
  /\ service' = 0
  /\ UNCHANGED <<starting, stopped, timer, intervals, beatVars, wanted>>

-----------------------------------------------------------------------------
StartSteps(s) ==
  \/ Identified(s)
  \/ Added(s)
  \/ StartHeartbeats(s)
  \/ ArmTimer(s)

Next ==
  \/ \E s \in Starts : Start(s) \/ StartSteps(s) \/ StartFails(s) \/ Tick(s)
  \/ \E p \in Stops : Stop(p) \/ Drained(p)
  \/ \E b \in signing : SignerDone(b)

Spec == Init /\ [][Next]_vars

(* The event loop resumes what resolved, the server answers, the signer    *)
(* answers or fails, and an interval that is not cleared fires again.      *)
FairSpec ==
  /\ Spec
  /\ \A s \in Starts : WF_vars(StartSteps(s)) /\ WF_vars(Tick(s))
  /\ \A p \in Stops : WF_vars(Drained(p))
  /\ WF_vars(\E b \in signing : SignerDone(b))

-----------------------------------------------------------------------------
(* Stopped means stopped: after stop() no beat is published, whatever was  *)
(* being signed, until the application calls start() again.                *)
NoBeatWhileStopped == [][~wanted => out' = out]_vars

(* A service runs "until you call service.stop()" (README): once stop()    *)
(* was the last call and every call has resolved, no interval fires and no *)
(* service is registered, also after a start that failed half-way.         *)
StoppedIsQuiet == ~wanted /\ ~Busy => intervals = {} /\ registered = {}

(* The beats of one life land in the order they were built, however slow   *)
(* the signer.  (A beat the signer still holds when the service is stopped *)
(* and started again may follow the new life's first.)                     *)
BeatsInOrder ==
  \A i, j \in 1..Len(out) :
    (i < j /\ out[i].instance = out[j].instance) => out[i].ts < out[j].ts

(* One signer call at a time per life, also when ticks outrun the signer:  *)
(* a stalled signer does not accumulate calls.                             *)
OneBeatAtATime ==
  \A b, c \in signing : b.instance = c.instance => b = c

(* The heartbeats of a service that was started, and not stopped, go on:   *)
(* one that is pending makes way for the next, for ever, or here up to the *)
(* bound.                                                                  *)
HeartbeatsGoOn ==
  []<>(\/ ~wanted \/ Busy \/ built = MaxBeats
       \/ service = 0 \/ starting[service] # "done")

(* The lives of a service are apart, and in each its beats are in order,   *)
(* one at a time (service.ts: start, stop, publishHeartbeat).              *)
LivesAreApart == StoppedIsQuiet /\ BeatsInOrder /\ OneBeatAtATime
=============================================================================
