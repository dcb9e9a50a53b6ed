--------------------------- MODULE OpenClawGateway ----------------------------
(***************************************************************************)
(* The starts and stops of the OpenClaw channel (openclaw/src/gateway.ts): *)
(* one account's connection, tools and service live in module variables    *)
(* that a start sets one after the other, between awaits, and that one     *)
(* shared cleanup takes down.  OpenClaw aborts an account and calls        *)
(* stopAccount in the same tick, and may start it again meanwhile.         *)
(*                                                                         *)
(* Steps of the stop are bounded: what does not end in time is left behind.*)
(* Closing a connection may fail.                                          *)
(***************************************************************************)
EXTENDS Integers, Sequences, FiniteSets

CONSTANTS
  AccountStarts,  \* 1..n, in the order OpenClaw makes them
  CloseFaults   \* closes that fail: a bound

ASSUME GatewayAssumption == AccountStarts \subseteq Nat \ {0} /\ CloseFaults \in Nat

None == 0       \* no start; as a caller of the cleanup, stopAccount

VARIABLES
  activeStart,  \* the start the module's state belongs to
  gsvc, gtools, gnc, gext,  \* activeService, activeTools, activeNc and activeExtensions: whose
  cleanup,      \* cleanupInFlight: the step it awaits, or "none"
  call,         \* per caller of cleanupPrevious: what it awaits
  phase,        \* per start: the await it is in
  aborted,      \* per start: its abort signal
  late,         \* per start: left behind while its service starts
  bus,          \* per start: its service
  conn,         \* per start: its connection
  wiped,        \* per start: whether its credentials are wiped
  heard,        \* per start: the hooks its extensions were called with, in order
  status,       \* the start that told OpenClaw last that it runs
  closeFails

slotVars    == <<activeStart, gsvc, gtools, gnc, gext>>
startVars   == <<phase, aborted, late>>
worldVars   == <<bus, conn, wiped, heard, status>>
gatewayVars == <<slotVars, cleanup, call, startVars, worldVars, closeFails>>

Callers == AccountStarts \cup {None}

GatewayInit ==
  /\ activeStart = None /\ gsvc = None /\ gtools = None /\ gnc = None /\ gext = None
  /\ cleanup = "none" /\ call = [c \in Callers |-> "no"]
  /\ phase = [s \in AccountStarts |-> "idle"]
  /\ aborted = [s \in AccountStarts |-> FALSE] /\ late = [s \in AccountStarts |-> FALSE]
  /\ bus = [s \in AccountStarts |-> "none"] /\ conn = [s \in AccountStarts |-> "none"]
  /\ wiped = [s \in AccountStarts |-> FALSE]
  /\ heard = [s \in AccountStarts |-> <<>>]
  /\ status = None /\ closeFails = 0

Mine(s)    == activeStart = s
GatewayUp  == {gsvc, gtools, gnc, gext} # {None}
To(s, p)   == phase' = [phase EXCEPT ![s] = p]
BusIs(s, b) == bus' = [bus EXCEPT ![s] = b]

-----------------------------------------------------------------------------
(* cleanupPrevious and runCleanup *)

\* Fault: extensions are told of the stop once their start is over only.
BeginCleanupOfRunning ==
  /\ activeStart' = None
  /\ IF gsvc # None /\ gext # None /\ status = gsvc
     THEN cleanup' = "stopping" /\ heard' = [heard EXCEPT ![gext] = Append(@, "stopping")] /\ UNCHANGED gext
     ELSE cleanup' = "service" /\ gext' = None /\ UNCHANGED heard

\* The synchronous part of a run: nothing belongs to a start any more; the
\* extensions of a service that started hear of the stop.
BeginCleanup ==
  /\ activeStart' = None
  /\ IF gsvc # None /\ gext # None
     THEN cleanup' = "stopping" /\ heard' = [heard EXCEPT ![gext] = Append(@, "stopping")] /\ UNCHANGED gext
     ELSE cleanup' = "service" /\ gext' = None /\ UNCHANGED heard

\* A caller joins the run in flight, or begins one.
Cleanup(c) ==
  IF cleanup # "none"
  THEN call' = [call EXCEPT ![c] = "joined"] /\ UNCHANGED <<cleanup, activeStart, gext, heard>>
  ELSE BeginCleanup /\ call' = [call EXCEPT ![c] = "awaiting"]

\* Fault: a run that settles forgets who joined it.
SettleOwn(ok) ==
  /\ cleanup' = "none"
  /\ call' = [c \in Callers |->
       IF call[c] = "awaiting" THEN (IF ok THEN "returned" ELSE "threw") ELSE call[c]]

\* The callers a run that settles goes on with: its own, and those that joined it.
Settle(ok) ==
  /\ cleanup' = "none"
  /\ call' = [c \in Callers |->
       IF call[c] \notin {"awaiting", "joined"} THEN call[c]
       ELSE IF ~ok THEN "threw"
       ELSE IF call[c] = "awaiting" THEN "returned" ELSE "rejoin"]

\* A caller that had joined goes on: another run, if something is up again.
Rejoin(c) ==
  /\ call[c] = "rejoin"
  /\ IF cleanup # "none" THEN call' = [call EXCEPT ![c] = "joined"] /\ UNCHANGED <<cleanup, activeStart, gext, heard>>
     ELSE IF GatewayUp THEN BeginCleanup /\ call' = [call EXCEPT ![c] = "awaiting"]
     ELSE call' = [call EXCEPT ![c] = "returned"] /\ UNCHANGED <<cleanup, activeStart, gext, heard>>
  /\ UNCHANGED <<gsvc, gtools, gnc, startVars, bus, conn, wiped, status, closeFails>>

ExtensionsStopped ==
  /\ cleanup = "stopping" /\ cleanup' = "service" /\ gext' = None
  /\ UNCHANGED <<activeStart, gsvc, gtools, gnc, call, startVars, worldVars, closeFails>>

\* The service leaves the bus, or is left behind when the time is over.
ServiceStopped ==
  /\ cleanup = "service" /\ cleanup' = "tools" /\ gsvc' = None
  /\ bus' \in {bus} \cup {[s \in AccountStarts |-> IF s = gsvc THEN "down" ELSE bus[s]]}
  /\ UNCHANGED <<activeStart, gtools, gnc, gext, call, startVars, conn, wiped, heard, status, closeFails>>

ToolsClosed ==
  /\ cleanup = "tools" /\ cleanup' = "draining" /\ gtools' = None
  /\ UNCHANGED <<activeStart, gsvc, gnc, gext, call, startVars, worldVars, closeFails>>

\* A connection that is closed takes its service along.
Closed(s) ==
  /\ conn' = [conn EXCEPT ![s] = "closed"] /\ BusIs(s, "down")

ConnectionDrained ==
  /\ cleanup = "draining" /\ Settle(TRUE)
  /\ gnc' = None
  /\ IF gnc = None THEN UNCHANGED <<conn, bus, wiped>>
     ELSE Closed(gnc) /\ wiped' = [wiped EXCEPT ![gnc] = TRUE]
  /\ UNCHANGED <<activeStart, gsvc, gtools, gext, startVars, heard, status, closeFails>>

\* The connection stays the gateway's; the next cleanup tries again.
DrainFails ==
  /\ cleanup = "draining" /\ gnc # None /\ closeFails < CloseFaults
  /\ closeFails' = closeFails + 1
  /\ Settle(FALSE)
  /\ UNCHANGED <<slotVars, startVars, worldVars>>

\* stopAccount
StopAccount ==
  /\ call[None] \in {"no", "returned", "threw"}
  /\ Cleanup(None)
  /\ UNCHANGED <<gsvc, gtools, gnc, startVars, bus, conn, wiped, status, closeFails>>

-----------------------------------------------------------------------------
(* startNatsGateway *)

BeginStart(s) ==
  /\ phase[s] = "idle" /\ \A earlier \in AccountStarts : earlier < s => phase[earlier] # "idle"
  /\ To(s, "entering") /\ Cleanup(s)
  /\ UNCHANGED <<gsvc, gtools, gnc, aborted, late, bus, conn, wiped, status, closeFails>>

Entered(s) ==
  /\ phase[s] = "entering"
  /\ \/ call[s] = "threw" /\ To(s, "over") /\ UNCHANGED activeStart
     \/ call[s] = "returned" /\ To(s, "loading") /\ activeStart' = s
  /\ call' = [call EXCEPT ![s] = "no"]
  /\ UNCHANGED <<gsvc, gtools, gnc, gext, cleanup, aborted, late, worldVars, closeFails>>

Loaded(s) ==
  /\ phase[s] = "loading"
  /\ IF Mine(s) THEN gext' = s /\ To(s, "connecting") ELSE To(s, "over") /\ UNCHANGED gext
  /\ UNCHANGED <<activeStart, gsvc, gtools, gnc, cleanup, call, aborted, late, worldVars, closeFails>>

\* Fault: a start does not ask whether it is still the one.
ConnectedAnyway(s) ==
  /\ phase[s] = "connecting"
  /\ \/ /\ conn' = [conn EXCEPT ![s] = "open"] /\ BusIs(s, "registering")
        /\ gnc' = s /\ gtools' = s /\ To(s, "starting")
     \/ To(s, "over") /\ UNCHANGED <<conn, bus, gnc, gtools>>
  /\ UNCHANGED <<activeStart, gsvc, gext, cleanup, call, aborted, late, wiped, heard, status, closeFails>>

\* Connected, with the tools and the service made; or the start fails; or the
\* connection is all that a stale start owns.
Connected(s) ==
  /\ phase[s] = "connecting"
  /\ \/ /\ Mine(s)
        /\ conn' = [conn EXCEPT ![s] = "open"] /\ BusIs(s, "registering")
        /\ gnc' = s /\ gtools' = s /\ To(s, "starting")
     \/ /\ ~Mine(s)
        /\ conn' = [conn EXCEPT ![s] = "open"] /\ To(s, "stale") /\ UNCHANGED <<bus, gnc, gtools>>
     \/ To(s, "over") /\ UNCHANGED <<conn, bus, gnc, gtools>>
  /\ UNCHANGED <<activeStart, gsvc, gext, cleanup, call, aborted, late, wiped, heard, status, closeFails>>

\* It closes it, and wipes the credentials even if that failed.
StaleClosed(s) ==
  /\ phase[s] = "stale" /\ To(s, "over")
  /\ wiped' = [wiped EXCEPT ![s] = TRUE]
  /\ \/ Closed(s) /\ UNCHANGED closeFails
     \/ closeFails < CloseFaults /\ closeFails' = closeFails + 1 /\ UNCHANGED <<conn, bus>>
  /\ UNCHANGED <<slotVars, cleanup, call, aborted, late, heard, status>>

\* service.start() ends while it is awaited: the service is the gateway's and
\* the extensions hear of it, unless a stop came.
ServiceStarted(s) ==
  /\ phase[s] = "starting" /\ ~aborted[s] /\ conn[s] = "open"
  /\ BusIs(s, "up")
  /\ IF Mine(s) THEN gsvc' = s /\ heard' = [heard EXCEPT ![s] = Append(@, "started")] /\ To(s, "hooks")
     ELSE To(s, "stopping") /\ UNCHANGED <<gsvc, heard>>
  /\ UNCHANGED <<activeStart, gtools, gnc, gext, cleanup, call, aborted, late, conn, wiped, status, closeFails>>

\* It rejects, as it does on a connection that closed: stop, clean up, throw.
ServiceStartFails(s) ==
  /\ phase[s] = "starting" /\ ~aborted[s]
  /\ To(s, "failing")
  /\ UNCHANGED <<slotVars, cleanup, call, aborted, late, worldVars, closeFails>>

FailedStopped(s) ==
  /\ phase[s] = "failing" /\ BusIs(s, "down")
  /\ To(s, "leaving") /\ Cleanup(s)
  /\ UNCHANGED <<gsvc, gtools, gnc, aborted, late, conn, wiped, status, closeFails>>

\* The abort ends the wait.  A start that is still the gateway's hands its
\* service to the cleanup, without the extensions, which heard nothing.
AbortedStarting(s) ==
  /\ phase[s] = "starting" /\ aborted[s]
  /\ late' = [late EXCEPT ![s] = TRUE]
  /\ IF Mine(s)
     THEN /\ gsvc' = s /\ To(s, "leaving")
          /\ IF cleanup # "none"
             THEN gext' = None /\ call' = [call EXCEPT ![s] = "joined"] /\ UNCHANGED <<cleanup, activeStart>>
             ELSE /\ activeStart' = None /\ cleanup' = "service" /\ gext' = None
                  /\ call' = [call EXCEPT ![s] = "awaiting"]
     ELSE To(s, "stopping") /\ UNCHANGED <<gsvc, gext, call, cleanup, activeStart>>
  /\ UNCHANGED <<gtools, gnc, aborted, worldVars, closeFails>>

\* The start that was left behind ends after all, and the service is stopped once more.
LateStarted(s) ==
  /\ late[s] /\ bus[s] # "up" /\ conn[s] = "open" /\ BusIs(s, "up")
  /\ UNCHANGED <<slotVars, cleanup, call, startVars, conn, wiped, heard, status, closeFails>>

LateStopped(s) ==
  /\ late[s] /\ bus[s] = "up" /\ BusIs(s, "down") /\ late' = [late EXCEPT ![s] = FALSE]
  /\ UNCHANGED <<slotVars, cleanup, call, phase, aborted, conn, wiped, heard, status, closeFails>>

\* Of a start that was stopped or replaced the service is all it may stop.
OwnStopped(s) ==
  /\ phase[s] = "stopping" /\ To(s, "over") /\ BusIs(s, "down")
  /\ UNCHANGED <<slotVars, cleanup, call, aborted, late, conn, wiped, heard, status, closeFails>>

\* started() is over: the status, and from now on the abort signal.
HooksOver(s) ==
  /\ phase[s] = "hooks" /\ To(s, "running") /\ status' = s
  /\ UNCHANGED <<slotVars, cleanup, call, aborted, late, bus, conn, wiped, heard, closeFails>>

AbortAccount(s) ==
  /\ phase[s] \notin {"idle", "over"} /\ ~aborted[s]
  /\ aborted' = [aborted EXCEPT ![s] = TRUE]
  /\ UNCHANGED <<slotVars, cleanup, call, phase, late, worldVars, closeFails>>

AbortSeen(s) ==
  /\ phase[s] = "running" /\ aborted[s]
  /\ IF Mine(s) THEN To(s, "leaving") /\ Cleanup(s)
     ELSE To(s, "over") /\ UNCHANGED <<call, cleanup, activeStart, gext, heard>>
  /\ UNCHANGED <<gsvc, gtools, gnc, aborted, late, bus, conn, wiped, status, closeFails>>

Left(s) ==
  /\ phase[s] = "leaving" /\ call[s] \in {"returned", "threw"}
  /\ To(s, "over") /\ call' = [call EXCEPT ![s] = "no"]
  /\ UNCHANGED <<slotVars, cleanup, aborted, late, worldVars, closeFails>>

StartGoesOn(s) ==
  \/ Entered(s) \/ Loaded(s) \/ Connected(s) \/ StaleClosed(s) \/ FailedStopped(s)
  \/ AbortedStarting(s) \/ OwnStopped(s) \/ HooksOver(s) \/ AbortSeen(s) \/ Left(s)

CleanupGoesOn ==
  ExtensionsStopped \/ ServiceStopped \/ ToolsClosed \/ ConnectionDrained \/ DrainFails

\* A caller of a cleanup that settled goes on, and a cleanup passes what is not
\* up, before the event loop does anything else.
Passing ==
  \/ cleanup = "service" /\ gsvc = None
  \/ cleanup = "tools" /\ gtools = None
  \/ cleanup = "draining" /\ gnc = None

Resuming ==
  \/ Passing
  \/ \E c \in Callers : call[c] = "rejoin"
  \/ \E s \in AccountStarts : call[s] \in {"returned", "threw"}

GatewayNext ==
  \/ \E c \in Callers : Rejoin(c)
  \/ \E s \in AccountStarts : Entered(s) \/ Loaded(s) \/ Left(s)
  \/ Passing /\ CleanupGoesOn
  \/ ~Resuming /\ (CleanupGoesOn \/ StopAccount)
  \/ /\ ~Resuming
     /\ \E s \in AccountStarts :
          \/ BeginStart(s) \/ Connected(s) \/ StaleClosed(s) \/ ServiceStarted(s)
          \/ ServiceStartFails(s) \/ FailedStopped(s) \/ AbortedStarting(s) \/ OwnStopped(s)
          \/ HooksOver(s) \/ AbortSeen(s) \/ LateStarted(s) \/ LateStopped(s) \/ AbortAccount(s)

\* Promises that are bounded, or that the bus or a timer settles; the start of
\* a service is neither.
GatewayFairness ==
  /\ WF_gatewayVars(CleanupGoesOn)
  /\ \A c \in Callers : WF_gatewayVars(Rejoin(c))
  /\ \A s \in AccountStarts : WF_gatewayVars(StartGoesOn(s)) /\ WF_gatewayVars(LateStopped(s))

GatewaySpec == GatewayInit /\ [][GatewayNext]_gatewayVars /\ GatewayFairness

-----------------------------------------------------------------------------

\* However starts, aborts and stops overlap: two services never serve the
\* account's address at once, the gateway's variables never hold what two starts
\* made, and every connection that is open is the gateway's, which the next
\* cleanup closes; only a stale start that could not close its own leaves one
\* behind, with no service on it and without credentials.
NothingOrphaned ==
  /\ Cardinality({s \in AccountStarts : bus[s] = "up"}) <= 1
  /\ Cardinality({gsvc, gtools, gnc, gext} \ {None}) <= 1
  /\ \A s \in AccountStarts : conn[s] = "open" =>
       gnc = s \/ phase[s] = "stale" \/ (wiped[s] /\ bus[s] = "none")

\* The credentials a connection may still authenticate with are kept until it
\* is closed; only a stale start gives up waiting for that.
WipedWhenClosed ==
  \A s \in AccountStarts : wiped[s] => conn[s] = "closed" \/ (phase[s] = "over" /\ heard[s] = <<>>)

\* The extensions of a start that heard started() hear stopping(), once, and
\* nothing after it: before its service leaves the bus, and before the start is
\* over, whichever of the starts, aborts and stops begins the cleanup and however
\* far started() is (gateway.ts: runCleanup).  Those of a start that was stopped
\* before its service ran hear neither.
ExtensionsHearTheEnd ==
  \A s \in AccountStarts :
    /\ heard[s] \in {<<>>, <<"started">>, <<"started", "stopping">>}
    /\ heard[s] = <<"started">> => bus[s] = "up" /\ phase[s] # "over"

\* An aborted start comes to its end, also while its service starts for ever
\* (gateway.ts: abortedFirst, runCleanup).
StartsEnd == []<>(\A s \in AccountStarts : aborted[s] => phase[s] = "over")

\* A start that finds after an await that it was stopped or replaced touches
\* nothing but what it made itself (gateway.ts, activeStart).
StaleTouchesNothing == [][status' # status => activeStart = status']_gatewayVars

\* What a start made is the gateway's, which the next cleanup takes down, or gone;
\* and no credentials are wiped while the connection that uses them is open and
\* still to be closed (gateway.ts: runCleanup).
NothingLeftBehind == NothingOrphaned /\ WipedWhenClosed
=============================================================================
