--------------------------- MODULE CodexSessions ---------------------------
(***************************************************************************)
(* The Codex session manager (agents/codex/src/session-manager.ts) and its *)
(* scheduler (session-watch.ts): reconcile() reads the inventory of the    *)
(* app-servers, starts an agent service for every eligible thread it may   *)
(* expose and stops the service of a thread that stayed away.  The poller  *)
(* runs one reconcile() at a time and coalesces its triggers; plugin       *)
(* events and the "rescan" command call reconcile() beside it.             *)
(*                                                                         *)
(* A reconcile() runs from await to await: the inventory (Inventory), the  *)
(* start of a service (SessionStarted, SessionFails) and the stop of one   *)
(* (SessionStopped).  What lies between is one step, on the maps as they   *)
(* are then.  The threads of the app-servers are the environment.          *)
(***************************************************************************)
EXTENDS Integers, FiniteSets, FiniteSetsExt

CONSTANTS
    Rows,        \* threads, 1..n, in the order of their private keys
    Grace,       \* staleGraceIntervals
    ExposeCurrent, \* autoExposeCurrentSessions; otherwise only future sessions are exposed
    Rescans,     \* the calls of reconcile() that do not go through the poller
    RescansOverlap, \* whether those calls may run beside the poller's: the code lets them
    MaxStarts,   \* bound on the services started for one thread
    MaxLost,     \* bound on the inventories that fail
    MaxFailed,   \* bound on the services that cannot be started
    NoService    \* "not in #running"

ASSUME CodexAssumption ==
    /\ Grace \in Nat \ {0} /\ Rows \subseteq Nat
    /\ Rescans \cap {"first", "poll"} = {}
    /\ NoService \notin [service : Rows \X Nat, misses : Nat]

VARIABLES
    eligible,    \* threads the app-servers would report as eligible now
    manager,     \* "fresh" | "starting" | "up" | "stopping" | "stopped" | "failed"
    served,      \* #running: thread |-> its service and staleMisses, or NoService
    baseline,    \* #baselineEligiblePrivateKeys
    exposed,     \* #exposedPrivateKeys
    alive,       \* services that are registered, <<thread, number>>
    made,        \* services started for each thread
    task,        \* the reconcile() calls: where they are and what they hold
    again,       \* the scheduler's #pending
    halting,     \* what stop() still has to stop, captured when it got there
    lost,        \* inventories that failed
    failed,      \* services that could not be started
    seed,        \* history: the threads the first inventory saw
    away,        \* history: consecutive inventories a thread was missing from, up to Grace
    notice       \* history: since the poller last asked for an inventory, the threads have
                 \* "changed", and the poller was "told" after that; or "none" of it

threadVars == <<eligible, lost, failed>>
historyVars == <<seed, away, notice>>
mapVars == <<served, baseline, exposed>>
serviceVars == <<alive, made>>
codexVars == <<threadVars, manager, mapVars, serviceVars, task, again, halting, historyVars>>

Calls == {"first", "poll"} \cup Rescans
Idle == [at |-> "idle", todo |-> {}, wanted |-> {}, captured |-> [r \in Rows |-> NoService]]
CodexInit ==
    /\ eligible \in SUBSET Rows
    /\ manager = "fresh"
    /\ served = [r \in Rows |-> NoService]
    /\ baseline = {} /\ exposed = {}
    /\ alive = {} /\ made = [r \in Rows |-> 0]
    /\ task = [c \in Calls |-> Idle]
    /\ again = FALSE
    /\ halting = {}
    /\ lost = 0 /\ failed = 0
    /\ seed = {} /\ away = [r \in Rows |-> 0] /\ notice = "none"

\* What a loop over these threads has passed, and has left, when it stops at r.
Before(rows, r) == {q \in rows : q < r}
From(rows, r)   == {q \in rows : r <= q}
Listed(map) == {r \in Rows : map[r] # NoService}
SeedOnly(c) == c = "first" /\ ~ExposeCurrent

\* #shouldExposeRow
ShouldExpose(r) == ExposeCurrent \/ r \in exposed \/ r \notin baseline

(***************************************************************************)
(* The two loops of reconcile(), each to its next await.                   *)
(***************************************************************************)

\* Fault: a reconcile() that does not ask what is already running.
ToStartAny(c, todo, map) == {r \in todo : ~SeedOnly(c) /\ ShouldExpose(r)}

\* The threads of the first loop that it would have to start a service for.
ToStart(c, todo, map) == {r \in todo : map[r] = NoService /\ ~SeedOnly(c) /\ ShouldExpose(r)}

\* Fault: a thread that is seen again keeps the misses of its earlier absence.
SeenKeepsMisses(map, rows) == map

\* The maps after the first loop has passed these threads without starting any.
Seen(map, rows) ==
    [r \in Rows |-> IF r \in rows /\ map[r] # NoService THEN [map[r] EXCEPT !.misses = 0] ELSE map[r]]

\* What the inventory of call t did not show.
Unwanted(t, rows) == rows \ t.wanted
\* The threads of the second loop that were missed once too often.
ToStop(t) == {r \in Unwanted(t, t.todo) : t.captured[r].misses + 1 >= Grace}
\* #running after the second loop has passed these threads: it writes back what
\* it captured, one miss more.
Missed(map, t, rows) ==
    [r \in Rows |-> IF r \in Unwanted(t, rows)
                    THEN [t.captured[r] EXCEPT !.misses = @ + 1] ELSE map[r]]

\* Fault: what triggered the scheduler while its call was under way is forgotten.
EndedOnce(c) ==
    /\ task' = [task EXCEPT ![c] = Idle]
    /\ again' = IF c = "poll" THEN FALSE ELSE again
    /\ manager' = IF c = "first" THEN "up" ELSE manager

\* The call ends.  The scheduler runs another when it was triggered meanwhile.
Ended(c) ==
    LET more == c = "poll" /\ again /\ manager \in {"starting", "up"} IN
    /\ task' = [task EXCEPT ![c] = IF more THEN [Idle EXCEPT !.at = "inventory"] ELSE Idle]
    /\ again' = IF c = "poll" THEN FALSE ELSE again
    /\ manager' = IF c = "first" THEN "up" ELSE manager

\* The second loop, from call t on, with #running as `map`.
StaleLoop(c, t, map) ==
    IF ToStop(t) = {}
    THEN served' = Missed(map, t, t.todo) /\ Ended(c)
    ELSE LET r == Min(ToStop(t)) IN
         /\ served' = Missed(map, t, Before(t.todo, r))
         /\ task' = [task EXCEPT ![c] = [t EXCEPT !.at = "stop", !.todo = From(@, r)]]
         /\ UNCHANGED <<again, manager>>

\* The first loop, with `todo` left of it, and on into the second.
RowLoop(c, todo, wanted, map) ==
    IF ToStart(c, todo, map) = {}
    THEN LET seen == Seen(map, todo) IN
         /\ baseline' = baseline \cup {r \in todo : map[r] = NoService}
         /\ StaleLoop(c, [at |-> "stop", todo |-> Listed(seen), wanted |-> wanted,
                          captured |-> seen], seen)
    ELSE LET r == Min(ToStart(c, todo, map))
             passed == Before(todo, r) IN
         /\ baseline' = baseline \cup {q \in passed : map[q] = NoService}
         /\ served' = Seen(map, passed)
         /\ task' = [task EXCEPT ![c] = [Idle EXCEPT !.at = "start", !.todo = From(todo, r),
                                                     !.wanted = wanted]]
         /\ UNCHANGED <<again, manager>>

\* #discoverEligibleRows has read the app-servers; those it could not reach
\* contribute nothing.
Inventory(c, rows) ==
    /\ task[c].at = "inventory"
    /\ \/ rows = eligible /\ lost' = lost
       \/ rows = {} /\ eligible # {} /\ lost < MaxLost /\ lost' = lost + 1
    /\ seed' = IF c = "first" THEN rows ELSE seed
    /\ away' = [r \in Rows |-> IF r \in rows THEN 0 ELSE Min({away[r] + 1, Grace})]
    /\ notice' = IF c = "poll" THEN "none" ELSE notice
    /\ RowLoop(c, rows, rows, served)
    /\ UNCHANGED <<eligible, failed, exposed, serviceVars, halting>>

SessionStarted(c) ==
    /\ task[c].at = "start"
    /\ LET r == Min(task[c].todo)
           service == <<r, made[r] + 1>> IN
       /\ made[r] < MaxStarts
       /\ made' = [made EXCEPT ![r] = @ + 1]
       /\ alive' = alive \cup {service}
       /\ exposed' = exposed \cup {r}
       /\ RowLoop(c, task[c].todo \ {r}, task[c].wanted,
                  [served EXCEPT ![r] = [service |-> service, misses |-> 0]])
    /\ UNCHANGED <<threadVars, halting, historyVars>>

\* It could not be started: the error ends the whole call, and a manager whose
\* first call fails does not start.
SessionFails(c) ==
    /\ task[c].at = "start" /\ failed < MaxFailed
    /\ failed' = failed + 1
    /\ task' = [task EXCEPT ![c] = Idle]
    /\ manager' = IF c = "first" THEN "failed" ELSE manager
    /\ UNCHANGED <<eligible, lost, mapVars, serviceVars, again, halting, historyVars>>

\* #stopRunning of the second loop.
SessionStopped(c) ==
    /\ task[c].at = "stop"
    /\ LET t == task[c]
           r == Min(t.todo) IN
       /\ alive' = alive \ {t.captured[r].service}
       /\ StaleLoop(c, [t EXCEPT !.todo = @ \ {r}], [served EXCEPT ![r] = NoService])
    /\ UNCHANGED <<threadVars, baseline, exposed, made, halting, historyVars>>

(***************************************************************************)
(* start(), stop() and what calls reconcile().                             *)
(***************************************************************************)
Start ==
    /\ manager = "fresh"
    /\ manager' = "starting"
    /\ task' = [task EXCEPT !["first"] = [Idle EXCEPT !.at = "inventory"]]
    /\ UNCHANGED <<threadVars, mapVars, serviceVars, again, halting, historyVars>>

Alone(c) == RescansOverlap \/ \A d \in Calls \ {c} : task[d].at = "idle"
Call(c) ==
    /\ Alone(c)
    /\ task' = [task EXCEPT ![c] = [Idle EXCEPT !.at = "inventory"]]
    /\ UNCHANGED <<threadVars, manager, mapVars, serviceVars, halting, seed, away>>
\* The interval, or a "thread/started" notification, triggers the scheduler.
Trigger ==
    /\ manager = "up"
    /\ notice' = IF notice = "none" THEN "none" ELSE "told"
    /\ IF task["poll"].at = "idle"
       THEN Call("poll") /\ again' = FALSE
       ELSE /\ again' = TRUE
            /\ UNCHANGED <<threadVars, manager, mapVars, serviceVars, task, halting, seed, away>>
Rescan(c) ==
    /\ manager = "up" /\ task[c].at = "idle"
    /\ Call(c)
    /\ UNCHANGED <<again, notice>>

\* stop(): the scheduler takes no more triggers.
Stop ==
    /\ manager = "up"
    /\ manager' = "stopping"
    /\ UNCHANGED <<threadVars, mapVars, serviceVars, task, again, halting, historyVars>>
\* The registrar and the watches are closed: stop() captures #running, and its
\* loop stops those services one after the other, from the last.
StopEach(left, map) ==
    IF left = {}
    THEN /\ served' = [r \in Rows |-> NoService]
         /\ halting' = {}
         /\ manager' = "stopped"
    ELSE served' = map /\ halting' = left /\ manager' = "halting"
Halt ==
    /\ manager = "stopping"
    /\ StopEach({served[r].service : r \in Listed(served)}, served)
    /\ UNCHANGED <<threadVars, baseline, exposed, serviceVars, task, again, historyVars>>
HaltNext ==
    /\ manager = "halting"
    /\ LET service == CHOOSE last \in halting : \A other \in halting : other[1] <= last[1] IN
       /\ alive' = alive \ {service}
       /\ StopEach(halting \ {service}, [served EXCEPT ![service[1]] = NoService])
    /\ UNCHANGED <<threadVars, baseline, exposed, made, task, again, historyVars>>

\* A thread becomes eligible, or is no more.
Change(r) ==
    /\ IF r \in eligible THEN eligible' = eligible \ {r}
       ELSE eligible' = eligible \cup {r} /\ made[r] < MaxStarts
    /\ notice' = IF notice = "told" THEN "told" ELSE "changed"
    /\ UNCHANGED <<manager, mapVars, serviceVars, task, again, halting, lost, failed, seed, away>>

CodexNext ==
    \/ Start \/ Trigger \/ Stop \/ Halt \/ HaltNext
    \/ \E c \in Calls, rows \in SUBSET Rows : Inventory(c, rows)
    \/ \E c \in Calls : SessionStarted(c) \/ SessionFails(c) \/ SessionStopped(c)
    \/ \E c \in Rescans : Rescan(c)
    \/ \E r \in Rows : Change(r)

\* The interval ticks, and every await ends; threads come and go as they like.
CodexFairness ==
    /\ WF_codexVars(Trigger) /\ WF_codexVars(Halt) /\ WF_codexVars(HaltNext)
    /\ \A c \in Calls : /\ WF_codexVars(\E rows \in SUBSET Rows : Inventory(c, rows))
                        /\ WF_codexVars(SessionStarted(c))
                        /\ WF_codexVars(SessionStopped(c))
CodexSpec == CodexInit /\ [][CodexNext]_codexVars /\ CodexFairness

-----------------------------------------------------------------------------

\* "Duplicate inventory rows do not double-register", "exactly once": a thread
\* never has two services, and while the manager is up every service that is
\* registered is the one #running holds, so that stop() can find it.
RegisteredOnce ==
    manager \in {"starting", "up"} =>
      \A service \in alive :
        /\ served[service[1]] # NoService
        /\ served[service[1]].service = service

\* Future-session mode "keeps sessions that already existed at manager startup
\* private": no thread the first inventory saw ever gets a service.
ExistingStayPrivate == ~ExposeCurrent => \A r \in seed : made[r] = 0

\* "Stops its service after the configured grace interval": while the manager
\* runs, a service is stopped only for a thread that was missing from as many
\* inventories in a row as the grace allows - as long as no service failed to
\* start, which ends its call before the threads behind it are marked as seen.
GraceIsConsecutive ==
    [][\A service \in alive \ alive' :
         (failed = 0 /\ manager \in {"starting", "up"}) => away[service[1]] = Grace]_codexVars

\* A trigger that comes while a call works on an older inventory is not lost: as long
\* as the poller has not asked again since it was told of a change, it is about to,
\* or its call will be followed by another.  (A service that cannot be started ends
\* the call and the trigger with it, and the next interval makes up for it.)
TriggersAreKept ==
    notice = "told" /\ manager = "up" /\ failed = 0 => task["poll"].at = "inventory" \/ again

\* "Bounded polling catches missed events": a thread (the last, which every loop
\* comes to last) that stays eligible gets its service, and one that stays away
\* loses it, unless the manager is stopped.
PollingCatchesUp ==
    LET r == CHOOSE last \in Rows : \A q \in Rows : q <= last IN
      /\ []<>(~(r \in eligible /\ manager = "up" /\ ShouldExpose(r)) \/ served[r] # NoService)
      /\ (<>[](r \notin eligible /\ manager = "up") => <>[](served[r] = NoService))

\* Threads and services correspond, and private threads have none
\* (session-manager.ts: reconcile).
ServicesMatchThreads == RegisteredOnce /\ ExistingStayPrivate
=============================================================================
