-------------------------- MODULE HeartbeatLiveness --------------------------
(***************************************************************************)
(* Presence by heartbeats: agent instances that beat every interval        *)
(* (agent-sdk service.ts: startHeartbeats), a network that loses and       *)
(* delays beats, and a client's HeartbeatTracker (heartbeat/tracker.ts)    *)
(* inside the Agents that owns it (agents.ts): who is online is decided by *)
(* the age of the last beat, kept per instance, when somebody asks.        *)
(*                                                                         *)
(* Time is discrete.  A beat that is not lost arrives at most Delay ticks  *)
(* after its turn, whatever kept it: the timer, the signer, the network.   *)
(* At most MaxLost beats in a row are lost; a turn the host skips, because *)
(* the signer still works on the last beat, is a loss.  Both are of each   *)
(* instance, which has a host and a path of its own.                       *)
(***************************************************************************)
EXTENDS Integers

CONSTANTS
  Instances,   \* instance ids; a restarted host has a new one
  Interval,    \* per instance: the ticks between its beats
  MaxLost,     \* per instance: the beats that may be lost in a row
  Delay,       \* per instance: the ticks a beat may be late
  None         \* no beat under way; no beat seen yet

Slack == 3     \* DEFAULT_LIVENESS_SLACK

\* The network is no worse than the slack was chosen for.
ASSUME HeartbeatAssumption ==
  /\ Interval \in [Instances -> Nat \ {0}]
  /\ MaxLost \in [Instances -> 0..(Slack - 1)]
  /\ Delay \in [Instances -> Nat]
  /\ None \notin Int
  /\ \A i \in Instances : /\ Delay[i] < Interval[i]
                          /\ MaxLost[i] = Slack - 1 => Delay[i] = 0

VARIABLES
  life,        \* per instance: unborn, alive or dead
  due,         \* per instance: the ticks until its next beat
  lost,        \* per instance: the beats lost since one was not
  transit,     \* per instance: the ticks its beat has been under way, or None
  dead,        \* per instance: the ticks since it died
  age,         \* the tracker's entries: the ticks since the last beat, or None
  subscribed,  \* the tracker's subscription
  closed       \* Agents.close() was called

hosts   == <<life, due, lost, transit, dead>>
tracker == <<age, subscribed, closed>>
vars    == <<hosts, tracker>>

\* Beyond these ages nothing is told apart: the bounds of the model.
OldAge(i)  == Slack * Interval[i] + 1
LongDead(i) == Slack * Interval[i] + Delay[i] + 1

HeartbeatTypeOK ==
  /\ life \in [Instances -> {"unborn", "alive", "dead"}]
  /\ due \in [Instances -> Nat] /\ \A i \in Instances : due[i] <= Interval[i]
  /\ lost \in [Instances -> Nat] /\ \A i \in Instances : lost[i] <= MaxLost[i]
  /\ transit \in [Instances -> Nat \cup {None}]
  /\ \A i \in Instances : transit[i] # None => transit[i] <= Delay[i]
  /\ dead \in [Instances -> Nat]
  /\ age \in [Instances -> Nat \cup {None}]
  /\ subscribed \in BOOLEAN /\ closed \in BOOLEAN

Init ==
  /\ life = [i \in Instances |-> "unborn"]
  /\ due = [i \in Instances |-> 0]
  /\ lost = [i \in Instances |-> 0]
  /\ transit = [i \in Instances |-> None]
  /\ dead = [i \in Instances |-> 0]
  /\ age = [i \in Instances |-> None]
  /\ subscribed = FALSE /\ closed = FALSE

UpTo(n, bound) == IF n < bound THEN n + 1 ELSE bound

\* Time passes, but past no beat's turn and past no beat's last moment.
Tick ==
  /\ \A i \in Instances : /\ life[i] = "alive" => due[i] > 0
                          /\ transit[i] # Delay[i]
  /\ due' = [i \in Instances |-> IF life[i] = "alive" THEN due[i] - 1 ELSE due[i]]
  /\ transit' = [i \in Instances |-> IF transit[i] = None THEN None ELSE transit[i] + 1]
  /\ dead' = [i \in Instances |->
                IF life[i] = "dead" THEN UpTo(dead[i], LongDead(i)) ELSE 0]
  /\ age' = [i \in Instances |->
                IF age[i] = None THEN None ELSE UpTo(age[i], OldAge(i))]
  /\ UNCHANGED <<life, lost, subscribed, closed>>

\* AgentService.start(): the first beat is published at once.
Start(i) ==
  /\ life[i] = "unborn"
  /\ life' = [life EXCEPT ![i] = "alive"]
  /\ UNCHANGED <<due, lost, transit, dead, tracker>>

\* The process ends, with or without stop(): no message says so.
Die(i) ==
  /\ life[i] = "alive"
  /\ life' = [life EXCEPT ![i] = "dead"]
  /\ UNCHANGED <<due, lost, transit, dead, tracker>>

Beat(i) ==
  /\ life[i] = "alive" /\ due[i] = 0
  /\ due' = [due EXCEPT ![i] = Interval[i]]
  /\ \/ /\ transit' = [transit EXCEPT ![i] = 0]
        /\ lost' = [lost EXCEPT ![i] = 0]
     \/ /\ lost[i] < MaxLost[i]
        /\ lost' = [lost EXCEPT ![i] = @ + 1]
        /\ UNCHANGED transit
  /\ UNCHANGED <<life, dead, tracker>>

(***************************************************************************)
(* The client.                                                             *)
(***************************************************************************)

\* The subscription's callback: an entry per instance id, replaced.
Seen(i) == [age EXCEPT ![i] = 0]

Arrive(i) ==
  /\ transit[i] # None
  /\ transit' = [transit EXCEPT ![i] = None]
  /\ age' = IF subscribed THEN Seen(i) ELSE age
  /\ UNCHANGED <<life, due, lost, dead, subscribed, closed>>

\* discover() and startTracking(): refused once the client is closed.
StartTracking ==
  /\ ~closed /\ ~subscribed
  /\ subscribed' = TRUE
  /\ UNCHANGED <<hosts, age, closed>>

\* onHeartbeat() starts the tracker without asking whether it is closed.
OnHeartbeat ==
  /\ ~subscribed
  /\ subscribed' = TRUE
  /\ UNCHANGED <<hosts, age, closed>>

Close ==
  /\ ~closed
  /\ closed' = TRUE
  /\ subscribed' = FALSE
  /\ UNCHANGED <<hosts, age>>

\* Fault: "within" is taken for "less than".
OnlineBefore(i) == age[i] # None /\ age[i] < Slack * Interval[i]

\* liveness(): online within Slack intervals of the last beat, inclusive.
Online(i) == age[i] # None /\ age[i] <= Slack * Interval[i]

Next ==
  \/ Tick
  \/ \E i \in Instances : Start(i) \/ Die(i) \/ Beat(i) \/ Arrive(i)
  \/ StartTracking \/ OnHeartbeat \/ Close

Spec == Init /\ [][Next]_vars

(***************************************************************************)
(* Properties.                                                             *)
(***************************************************************************)

\* An instance that is alive, and of which an open client has seen a beat,
\* is never reported offline on a network within the assumption
\* (tracker.ts: liveness).
AliveIsOnline ==
  ~closed => \A i \in Instances :
               (life[i] = "alive" /\ age[i] # None) => Online(i)

\* An instance dead for longer than Slack of its intervals and a beat's delay
\* is never reported online, though other instances go on beating
\* (tracker.ts: entries are kept per instance id).
DeadIsOffline ==
  \A i \in Instances :
    dead[i] > Slack * Interval[i] + Delay[i] => ~Online(i)

\* What liveness() says is true as far as a lossy network lets anyone know
\* (tracker.ts: liveness).
VerdictsAreRight == AliveIsOnline /\ DeadIsOffline
=============================================================================
