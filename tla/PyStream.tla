------------------------------- MODULE PyStream -------------------------------
(***************************************************************************)
(* The caller's side of a prompt in Python: Agent._stream_prompt over the  *)
(* one reply inbox of a connection (agents/agent.py, agents/_mux.py).  The *)
(* inbox is subscribed by the first prompt, under a lock that the others   *)
(* await; a stream is a route of it, a queue, a max-wait timer and an      *)
(* async generator that its consumer may abandon at any await.             *)
(*                                                                         *)
(* The agents at the other end are external: chunks, at most one error     *)
(* frame, the terminator.                                                  *)
(***************************************************************************)
EXTENDS Integers, Sequences, FiniteSets, SequencesExt

CONSTANTS
  Streams,     \* the prompts made on one connection
  MaxChunks,   \* chunks of one reply: a bound
  FlushFaults  \* flushes that fail: a bound

ASSUME PyStreamAssumption == {MaxChunks, FlushFaults} \subseteq Nat

VARIABLES
  inbox,      \* the mux: "off", "subscribing", "flushing" or "on"
  starter,    \* the stream that holds start()'s lock, as a set
  subs,       \* live subscriptions of the inbox
  flushFails,
  routes,     \* the registered tokens
  at,         \* per stream: where its generator is
  told,       \* per stream: how it ended for its consumer
  shown,      \* per stream: what its consumer was given
  inQueue,    \* per stream: the route's queue
  armed,      \* per stream: the max-wait timer
  maxed,      \* per stream: max_wait_event
  closed,     \* the close event of the Agents client
  asked,      \* the streams whose request was published
  made        \* per stream: what its agent replied

muxVars    == <<inbox, starter, subs, flushFails>>
readVars   == <<at, told, shown>>
timerVars  == <<armed, maxed>>
pyStreamVars == <<muxVars, routes, readVars, inQueue, timerVars, closed, asked, made>>

Stages  == {"idle", "starting", "preparing", "signing", "reading", "waiting", "yielded", "over"}
Endings == {"", "done", "error", "stalled", "maxWait", "closed", "failed", "dropped"}
Chunks  == {[kind |-> "chunk", n |-> i] : i \in 1..MaxChunks}
Marks   == {[kind |-> k, n |-> 0] : k \in {"error", "end"}}

PyStreamInit ==
  /\ inbox = "off" /\ starter = {} /\ subs = 0 /\ flushFails = 0
  /\ routes = {} /\ asked = {} /\ closed = FALSE
  /\ at = [s \in Streams |-> "idle"]
  /\ told = [s \in Streams |-> ""]
  /\ shown = [s \in Streams |-> <<>>]
  /\ inQueue = [s \in Streams |-> <<>>]
  /\ armed = [s \in Streams |-> FALSE]
  /\ maxed = [s \in Streams |-> FALSE]
  /\ made = [s \in Streams |-> <<>>]

-----------------------------------------------------------------------------

Goto(s, where) == at' = [at EXCEPT ![s] = where]

\* The generator raises or returns before it has a route.
Leaves(s, how) == Goto(s, "over") /\ told' = [told EXCEPT ![s] = how]

\* The `finally` of a stream with a route: the timer, the token, the queue.
Cleanup(s) ==
  /\ armed' = [armed EXCEPT ![s] = FALSE]
  /\ routes' = routes \ {s}
  /\ inQueue' = [inQueue EXCEPT ![s] = <<>>]

Ends(s, how) == Leaves(s, how) /\ Cleanup(s)

\* prompt(), and the first __anext__: refused on a client that is closed.
BeginStream(s) ==
  /\ at[s] = "idle"
  /\ IF closed THEN Leaves(s, "closed") ELSE Goto(s, "starting") /\ UNCHANGED told
  /\ UNCHANGED <<muxVars, routes, shown, inQueue, timerVars, closed, asked, made>>

-----------------------------------------------------------------------------
(* MuxInbox.start *)

TakeLock(s) ==
  /\ at[s] = "starting" /\ inbox = "off" /\ starter = {}
  /\ starter' = {s} /\ inbox' = "subscribing"
  /\ UNCHANGED <<subs, flushFails, routes, readVars, inQueue, timerVars, closed, asked, made>>

Subscribed(s) ==
  /\ at[s] = "starting" /\ starter = {s} /\ inbox = "subscribing"
  /\ inbox' = "flushing" /\ subs' = subs + 1
  /\ UNCHANGED <<starter, flushFails, routes, readVars, inQueue, timerVars, closed, asked, made>>

Flushed(s) ==
  /\ at[s] = "starting" /\ starter = {s} /\ inbox = "flushing"
  /\ inbox' = "on" /\ starter' = {}
  /\ UNCHANGED <<subs, flushFails, routes, readVars, inQueue, timerVars, closed, asked, made>>

\* Fault: what start() had done is not undone when it fails.
UndoNothing(s) ==
  /\ starter' = starter \ {s}
  /\ inbox' = IF s \in starter THEN "off" ELSE inbox
  /\ UNCHANGED subs

\* The lock is released and a subscription that was made is given up.
UndoStart(s) ==
  /\ starter' = starter \ {s}
  /\ inbox' = IF s \in starter THEN "off" ELSE inbox
  /\ subs' = IF s \in starter /\ inbox = "flushing" THEN subs - 1 ELSE subs

FlushFails(s) ==
  /\ at[s] = "starting" /\ starter = {s} /\ inbox = "flushing" /\ flushFails < FlushFaults
  /\ UndoStart(s) /\ flushFails' = flushFails + 1
  /\ Leaves(s, "failed")
  /\ UNCHANGED <<routes, shown, inQueue, timerVars, closed, asked, made>>

\* The inbox is there: the first check of close since the start.
Started(s) ==
  /\ at[s] = "starting" /\ inbox = "on"
  /\ IF closed THEN Leaves(s, "closed") ELSE Goto(s, "preparing") /\ UNCHANGED told
  /\ UNCHANGED <<muxVars, routes, shown, inQueue, timerVars, closed, asked, made>>

-----------------------------------------------------------------------------
(* Agent._stream_prompt *)

\* Identity and the interceptors' first phase, which may fail; then the timer
\* and the token, and the check of close behind which the `finally` stands.
Prepared(s) ==
  /\ at[s] = "preparing"
  /\ \/ Leaves(s, "failed") /\ UNCHANGED <<routes, timerVars>>
     \/ closed /\ Leaves(s, "closed") /\ UNCHANGED <<routes, timerVars>>
     \/ /\ ~closed /\ Goto(s, "signing") /\ UNCHANGED told
        /\ routes' = routes \cup {s}
        /\ armed' = [armed EXCEPT ![s] = TRUE] /\ UNCHANGED maxed
  /\ UNCHANGED <<muxVars, shown, inQueue, closed, asked, made>>

\* The signature and before_publish, which may fail; then the request goes out.
Publish(s) ==
  /\ at[s] = "signing"
  /\ \/ Goto(s, "reading") /\ asked' = asked \cup {s}
        /\ UNCHANGED <<told, routes, armed, inQueue>>
     \/ Ends(s, "failed") /\ UNCHANGED asked
  /\ UNCHANGED <<muxVars, shown, maxed, closed, made>>

LastKind(s) == IF made[s] = <<>> THEN "none" ELSE Last(made[s]).kind

\* The agent's frames arrive in the order it sent them, for as long as it replies.
Sent(s, frame) ==
  /\ s \in asked
  /\ LastKind(s) \in IF frame.kind = "end" THEN {"none", "chunk", "error"} ELSE {"none", "chunk"}
  /\ frame.kind = "chunk" => frame.n = Len(made[s]) + 1
  /\ made' = [made EXCEPT ![s] = Append(@, frame)]

\* _on_msg: to the queue of the token, if it has one; the terminator stops the timer.
Route(s, frame) ==
  /\ Sent(s, frame)
  /\ IF s \in routes
     THEN /\ inQueue' = [inQueue EXCEPT ![s] = Append(@, frame)]
          /\ armed' = [armed EXCEPT ![s] = @ /\ frame.kind # "end"]
     ELSE UNCHANGED <<inQueue, armed>>
  /\ UNCHANGED <<muxVars, routes, readVars, maxed, closed, asked>>

MaxWaitFires(s) ==
  /\ armed[s]
  /\ armed' = [armed EXCEPT ![s] = FALSE] /\ maxed' = [maxed EXCEPT ![s] = TRUE]
  /\ UNCHANGED <<muxVars, routes, readVars, inQueue, closed, asked, made>>

\* Fault: an empty body ends the stream, before the headers are looked at.
ConsumeBodyFirst(s) ==
  LET item == Head(inQueue[s]) IN
  \/ item.kind # "chunk" /\ Ends(s, "done") /\ UNCHANGED shown
  \/ /\ item.kind = "chunk"
     /\ inQueue' = [inQueue EXCEPT ![s] = Tail(@)]
     /\ Goto(s, "yielded") /\ shown' = [shown EXCEPT ![s] = Append(@, item)]
     /\ UNCHANGED <<told, routes, armed>>

\* What is read: an error frame raises, the terminator returns, a chunk of an
\* unknown type is passed over, any other is yielded.
Consume(s) ==
  LET item == Head(inQueue[s]) IN
  \/ item.kind = "error" /\ Ends(s, "error") /\ UNCHANGED shown
  \/ item.kind = "end" /\ Ends(s, "done") /\ UNCHANGED shown
  \/ /\ item.kind = "chunk"
     /\ inQueue' = [inQueue EXCEPT ![s] = Tail(@)]
     /\ Goto(s, "yielded") /\ shown' = [shown EXCEPT ![s] = Append(@, item)]
     /\ UNCHANGED <<told, routes, armed>>

\* Fault: what is buffered goes before a close and the max-wait.
ReadBuffered(s) ==
  /\ at[s] \in {"reading", "waiting"}
  /\ \/ inQueue[s] # <<>> /\ Consume(s)
     \/ inQueue[s] = <<>> /\ closed /\ Ends(s, "closed") /\ UNCHANGED shown
     \/ inQueue[s] = <<>> /\ ~closed /\ maxed[s] /\ Ends(s, "maxWait") /\ UNCHANGED shown
     \/ /\ inQueue[s] = <<>> /\ ~closed /\ ~maxed[s] /\ at[s] = "reading"
        /\ Goto(s, "waiting") /\ UNCHANGED <<told, routes, armed, inQueue, shown>>
  /\ UNCHANGED <<muxVars, maxed, closed, asked, made>>

\* _wait_for_chunk: close before max-wait before what is buffered, on entry
\* and when its wait is over; with nothing there it waits.
Read(s) ==
  /\ at[s] \in {"reading", "waiting"}
  /\ \/ closed /\ Ends(s, "closed") /\ UNCHANGED shown
     \/ ~closed /\ maxed[s] /\ Ends(s, "maxWait") /\ UNCHANGED shown
     \/ ~closed /\ ~maxed[s] /\ inQueue[s] # <<>> /\ Consume(s)
     \/ /\ ~closed /\ ~maxed[s] /\ inQueue[s] = <<>> /\ at[s] = "reading"
        /\ Goto(s, "waiting") /\ UNCHANGED <<told, routes, armed, inQueue, shown>>
  /\ UNCHANGED <<muxVars, maxed, closed, asked, made>>

\* Nothing within the inactivity timeout.
Stall(s) ==
  /\ at[s] = "waiting" /\ Ends(s, "stalled")
  /\ UNCHANGED <<muxVars, shown, maxed, closed, asked, made>>

\* The consumer asks for the next message.
Advance(s) ==
  /\ at[s] = "yielded" /\ Goto(s, "reading")
  /\ UNCHANGED <<muxVars, routes, told, shown, inQueue, timerVars, closed, asked, made>>

\* The consumer breaks off, or its task is cancelled where the generator awaits.
Abandon(s) ==
  /\ \/ at[s] \in {"signing", "waiting", "yielded"} /\ Ends(s, "dropped") /\ UNCHANGED muxVars
     \/ /\ at[s] = "preparing" /\ Leaves(s, "dropped")
        /\ UNCHANGED <<muxVars, routes, armed, inQueue>>
     \/ /\ at[s] = "starting" /\ Leaves(s, "dropped")
        /\ UndoStart(s) /\ UNCHANGED <<flushFails, routes, armed, inQueue>>
  /\ UNCHANGED <<shown, maxed, closed, asked, made>>

\* Agents.close()
CloseClient ==
  /\ ~closed /\ closed' = TRUE
  /\ UNCHANGED <<muxVars, routes, readVars, inQueue, timerVars, asked, made>>

StreamMoves(s) ==
  \/ TakeLock(s) \/ Subscribed(s) \/ Flushed(s) \/ Started(s) \/ Prepared(s)
  \/ Publish(s) \/ Read(s)

PyStreamNext ==
  \/ \E s \in Streams :
       \/ BeginStream(s) \/ StreamMoves(s) \/ FlushFails(s) \/ MaxWaitFires(s)
       \/ Stall(s) \/ Advance(s) \/ Abandon(s)
       \/ \E frame \in Chunks \cup Marks : Route(s, frame)
  \/ CloseClient

\* asyncio runs what is ready; subscribe, flush, the lookups and the hooks end.
PyStreamFairness == \A s \in Streams : WF_pyStreamVars(StreamMoves(s))

PyStreamSpec == PyStreamInit /\ [][PyStreamNext]_pyStreamVars /\ PyStreamFairness

-----------------------------------------------------------------------------

HasRoute == {s \in Streams : at[s] \in {"signing", "reading", "waiting", "yielded"}}

\* The shared inbox, whichever prompt started it, failed to or was cancelled
\* at it: one subscription at most, flushed before any request names it, and
\* a route, a timer and a queue for the streams that are open and no others
\* (_mux.py).
InboxIsShared ==
  /\ subs = (IF inbox \in {"flushing", "on"} THEN 1 ELSE 0)
  /\ Cardinality(starter) = (IF inbox \in {"subscribing", "flushing"} THEN 1 ELSE 0)
  /\ asked # {} => inbox = "on"
  /\ routes = HasRoute
  /\ \A s \in Streams : armed[s] \/ inQueue[s] # <<>> => s \in HasRoute

\* A stream (any one: they are alike) as ReplyContract sees it.  The chunks of
\* a reply come before its error and its end, so they are a sequence.
One == CHOOSE s \in Streams : TRUE
Reply == INSTANCE ReplyContract WITH
  Items    <- Chunks,
  produced <- [i \in {j \in DOMAIN made[One] : made[One][j].kind = "chunk"} |-> made[One][i]],
  verdict  <- IF \E i \in DOMAIN made[One] : made[One][i].kind = "error" THEN "failed"
              ELSE IF \E i \in DOMAIN made[One] : made[One][i].kind = "end" THEN "complete"
              ELSE "open",
  shown    <- shown[One],
  told     <- CASE told[One] = "" -> "nothing" [] told[One] = "done" -> "done"
                [] told[One] = "error" -> "error" [] OTHER -> "gaveUp"

\* A consumer of the Python SDK sees the chunks of its reply in order, an end
\* only of a complete one and an error only of one that failed (agent.py): the
\* contract that KeepsReplyContract states of the TypeScript SDK.
KeepsPyContract == Reply!ContractSpec

\* Control goes before content: a consumer gets no chunk and no end once the
\* client is closed or its stream's time is over; but a reply whose terminator
\* has arrived in time is read out, however slowly.
ControlFirst ==
  [][\A s \in Streams :
       LET held == \E i \in DOMAIN inQueue[s] : inQueue[s][i].kind = "end" IN
       /\ closed \/ maxed[s] => shown'[s] = shown[s] /\ (told'[s] = "done" => told[s] = "done")
       /\ held /\ ~maxed[s] => ~maxed'[s]]_pyStreamVars

\* close() ends every stream, unless its consumer holds it at a message.
CloseEndsStreams ==
  []<>(closed => \A s \in Streams : at[s] \in {"idle", "yielded", "over"})

\* No request goes out after close() (agent.py, _raise_if_closed).
NothingPublishedAfterClose == [][closed => asked' = asked]_pyStreamVars

\* Whoever prompts, a close and the end of a stream's time get through to it
\* before what is buffered (agent.py: _stream_prompt).
StreamsAreReleased == ControlFirst /\ CloseEndsStreams
=============================================================================
