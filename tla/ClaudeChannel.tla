---------------------------- MODULE ClaudeChannel ----------------------------
(***************************************************************************)
(* The Claude Code channel: Claude Code's queue and turns, as the channel  *)
(* knows them (external), the plugin's hooks, which record them in files   *)
(* (agents/claude-code/src/session-id.ts, hooks/session-event.ts), and the *)
(* server that serves the prompts (server.ts), whose polls read the files  *)
(* some time later (src/session-events.ts).                                *)
(*                                                                         *)
(* A real turn has a number, and may have several prompt ids: channel      *)
(* messages taken together have one each.  What the server concludes from  *)
(* the ids is compared with the numbers.                                   *)
(***************************************************************************)
EXTENDS ClaudeTurns

CONSTANTS
  Typed,       \* texts the local user types, turns begun by themselves: a bound
  Calls,       \* tool calls of a turn: a bound
  EarlyEsc     \* whether Esc may come before the server has read of a tool call

ASSUME ClaudeAssumption == {Typed, Calls} \subseteq Nat /\ "typed" \notin Requests

VARIABLES
  cc,          \* Claude Code: its queue, the running turn and the tool call in it
  files,       \* what the hooks and the server wrote
  server,      \* the state of the server, and how much of the files it has read
  now,
  numberOf,    \* history: the number of the turn each prompt id was given in
  served,      \* history: the numbers of the turns a channel message started
  taken,       \* history: per request: the number of the turn it was taken into, when
  routed       \* history: the questions and tool calls handed to a request

claudeVars == <<cc, files, server, now, numberOf, served, taken, routed>>

View(f) == [stop |-> f.stop, activity |-> f.activity]

ClaudeInit ==
  /\ cc = [queue |-> <<>>, id |-> 0, number |-> 0, taking |-> 0, call |-> FALSE,
           calls |-> 0, refused |-> FALSE, lastId |-> 0, lastNumber |-> 0, typed |-> 0]
  /\ files = [log |-> <<>>, stop |-> None, activity |-> None, nudge |-> None,
              open |-> [owning |-> {}, open |-> {}]]
  /\ server = [state |-> ServerStart, read |-> 0, activityRead |-> -1, down |-> FALSE]
  /\ now = 0
  /\ numberOf = [i \in PromptIds |-> 0]
  /\ served = {}
  /\ taken = [r \in Requests |-> None]
  /\ routed = {}

-----------------------------------------------------------------------------
(* The server. *)

OpenRequests(S) == {r \in Requests : OpenIn(S, r)}

\* Every server step ends with the file for the Stop hook in line with it.
Becomes(S, read, activityRead) ==
  /\ server' = [server EXCEPT !.state = S, !.read = read, !.activityRead = activityRead]
  /\ files' = [files EXCEPT !.open = [owning |-> Owning(S), open |-> OpenRequests(S)]]

Goes(S) == Becomes(S, server.read, server.activityRead)

\* What a poll reports, and the state after it: all of the log, the latest call.
Unread ==
  {files.log[i] : i \in server.read + 1..Len(files.log)}
    \cup IF files.activity = None \/ files.activity.at = server.activityRead THEN {}
         ELSE {files.activity}

Polled == PollAll(server.state, Unread, View(files), now)

\* The state goes on from a poll.
Reads(S) == Becomes(S, Len(files.log), IF files.activity = None THEN -1 ELSE files.activity.at)

Poll ==
  /\ ~server.down /\ Unread # {}
  /\ Reads(Polled)
  /\ UNCHANGED <<cc, now, numberOf, served, taken, routed>>

\* onPrompt: poll, count the delivery, hand the message to Claude Code, or fail to.
Deliver(r) ==
  /\ ~server.down /\ server.state.pending[r] = "none"
  /\ LET S == Delivered(Polled, r, View(files), now) IN
     \/ Reads(S) /\ cc' = [cc EXCEPT !.queue = Append(@, r)]
     \/ Reads([S EXCEPT !.pending[r] = "ended"]) /\ UNCHANGED cc
  /\ UNCHANGED <<now, numberOf, served, taken, routed>>

\* The timer of endUnanswered, which reads no log, once the grace is over.
GraceOver ==
  /\ ~server.down /\ OpenRequests(server.state) # {}
  /\ LET S == EndUnanswered(server.state, View(files), TRUE) IN
     S # server.state /\ Goes(S)
  /\ UNCHANGED <<cc, now, numberOf, served, taken, routed>>

\* answerWithFinalText: the sends are over, or failed.
FinalTextSent(r) ==
  /\ server.state.pending[r] = "answering"
  /\ Goes([server.state EXCEPT !.pending[r] = "ended"])
  /\ UNCHANGED <<cc, now, numberOf, served, taken, routed>>

\* The TTL.
ExpireRequest(r) ==
  /\ ~server.down /\ OpenIn(server.state, r)
  /\ Goes([server.state EXCEPT !.pending[r] = "ended"])
  /\ UNCHANGED <<cc, now, numberOf, served, taken, routed>>

\* Shutdown: the current turn ends, then what is open is rejected.
ChannelShutdown ==
  /\ ~server.down
  /\ LET S == TrackerShutdown(server.state) IN
     server' = [server EXCEPT !.down = TRUE, !.state =
       [S EXCEPT !.pending = [r \in Requests |-> IF OpenIn(S, r) THEN "ended" ELSE @[r]]]]
  /\ UNCHANGED <<cc, files, now, numberOf, served, taken, routed>>

-----------------------------------------------------------------------------
(* Claude Code and the hooks it runs. *)

\* An event of Claude Code's, with the line its hook appends; the server's files
\* are gone once it shuts down, and nothing reads the lines any more.
Happens == ~server.down /\ now < MaxNow /\ now' = now + 1
Logs(rec) == files' = [files EXCEPT !.log = Append(@, rec)]
Submit(id, r) == [kind |-> "submit", id |-> id, request |-> r, at |-> now + 1]

Idle == cc.id = 0
CanCall == ~Idle /\ cc.taking = 0

NewTurn(c, isServed) ==
  /\ cc.lastId < LastId
  /\ cc' = [c EXCEPT !.id = cc.lastId + 1, !.lastId = @ + 1, !.number = cc.lastNumber + 1,
                     !.lastNumber = @ + 1, !.call = FALSE, !.calls = 0, !.refused = FALSE]
  /\ numberOf' = [numberOf EXCEPT ![cc.lastId + 1] = cc.lastNumber + 1]
  /\ served' = IF isServed THEN served \cup {cc.lastNumber + 1} ELSE served

TakenInto(r, number) == taken' = [taken EXCEPT ![r] = [number |-> number, at |-> now + 1]]

\* Typed text: a turn at once when idle, else the queue; its submit names the
\* turn running now.
Type ==
  /\ Happens /\ cc.typed < Typed /\ cc.taking = 0
  /\ IF Idle
     THEN cc.queue = <<>> /\ NewTurn([cc EXCEPT !.typed = @ + 1], FALSE)
          /\ Logs(Submit(cc.lastId + 1, None))
     ELSE /\ cc' = [cc EXCEPT !.queue = Append(@, "typed"), !.typed = @ + 1]
          /\ Logs(Submit(cc.id, None))
          /\ UNCHANGED <<numberOf, served>>
  /\ UNCHANGED <<server, taken, routed>>

\* A turn nothing announces: text that waited, or one Claude Code began itself,
\* for work an earlier turn left it.
BeginUnannounced ==
  /\ Happens /\ Idle
  /\ \/ cc.queue # <<>> /\ Head(cc.queue) = "typed"
        /\ NewTurn([cc EXCEPT !.queue = Tail(@)], FALSE)
     \/ cc.queue = <<>> /\ cc.lastNumber > 0 /\ cc.typed < Typed
        /\ NewTurn([cc EXCEPT !.typed = @ + 1], FALSE)
  /\ UNCHANGED <<files, server, taken, routed>>

\* The first n of the queue are the channel messages that wait at its head.
Together(q, n) ==
  /\ \A i \in 1..n : q[i] # "typed"
  /\ n < Len(q) => q[n + 1] = "typed"

\* The channel messages that wait together are taken together, one after another.
TakeFirst ==
  /\ Happens /\ Idle
  /\ \E n \in DOMAIN cc.queue :
       /\ Together(cc.queue, n)
       /\ NewTurn([cc EXCEPT !.queue = Tail(@), !.taking = n - 1], TRUE)
  /\ Logs(Submit(cc.lastId + 1, Head(cc.queue)))
  /\ TakenInto(Head(cc.queue), cc.lastNumber + 1)
  /\ UNCHANGED <<server, routed>>

TakeAlso ==
  /\ Happens /\ cc.taking > 0 /\ cc.lastId < LastId
  /\ cc' = [cc EXCEPT !.queue = Tail(@), !.taking = @ - 1, !.id = cc.lastId + 1, !.lastId = @ + 1]
  /\ numberOf' = [numberOf EXCEPT ![cc.lastId + 1] = cc.number]
  /\ Logs(Submit(cc.lastId + 1, Head(cc.queue)))
  /\ TakenInto(Head(cc.queue), cc.number)
  /\ UNCHANGED <<server, served, routed>>

\* PreToolUse: the turn file, with the time of the turn's first call.
ToolCall ==
  /\ Happens /\ CanCall /\ ~cc.call /\ cc.calls < Calls
  /\ cc' = [cc EXCEPT !.call = TRUE, !.calls = @ + 1]
  /\ LET before == files.activity
         same == before # None /\ before.id = cc.id
                 /\ (files.stop = None \/ before.at > files.stop.at)
     IN files' = [files EXCEPT !.activity =
          [kind |-> "activity", id |-> cc.id, at |-> now + 1,
           first |-> IF same THEN before.first ELSE now + 1]]
  /\ UNCHANGED <<server, numberOf, served, taken, routed>>

\* The tool's result: the input that waits longest is folded into the turn.
ToolResult ==
  /\ cc.call
  /\ \/ /\ cc.queue = <<>>
        /\ cc' = [cc EXCEPT !.call = FALSE] /\ UNCHANGED <<files, now, taken>>
     \/ /\ cc.queue # <<>> /\ Happens
        /\ cc' = [cc EXCEPT !.call = FALSE, !.queue = Tail(@)]
        /\ IF Head(cc.queue) = "typed" THEN UNCHANGED <<files, taken>>
           ELSE /\ Logs(Submit(cc.id, Head(cc.queue)))
                /\ TakenInto(Head(cc.queue), cc.number)
  /\ UNCHANGED <<server, numberOf, served, routed>>

\* The reply tool, done: for a request the model has been given.
ReplyDone(r) ==
  /\ ~server.down /\ cc.call /\ taken[r] # None
  /\ LET S == Polled IN
     OpenIn(S, r) /\ Reads([S EXCEPT !.pending[r] = "ended"])
  /\ UNCHANGED <<cc, now, numberOf, served, taken, routed>>

\* A permission question, or an agent-tool call without a request id: the
\* server polls, then decides whose it is.
AskPermission ==
  /\ ~server.down /\ cc.call
  /\ LET S == ObserveStop(Polled, files.stop)
         r == OwnerOf(S, View(files))
     IN /\ r # None
        /\ Reads(S)
        /\ routed' = routed \cup {<<r, cc.number>>}
  /\ UNCHANGED <<cc, now, numberOf, served, taken>>

CallAgentTool ==
  /\ ~server.down /\ cc.call
  /\ LET r == ChooseRequest(Polled, cc.id) IN
     /\ r # None
     /\ Reads(Polled)
     /\ routed' = routed \cup {<<r, cc.number>>}
  /\ UNCHANGED <<cc, now, numberOf, served, taken>>

\* waitingRequests(): the open requests taken into the turn of the Stop, from
\* the log alone; a run of channel submits is one turn, under any of its ids.
SubmitsOf(r) == {i \in DOMAIN files.log :
                   files.log[i].kind = "submit" /\ files.log[i].request = r}

BatchIds(i) ==
  LET channel(k) == files.log[k].kind = "submit" /\ files.log[k].request # None IN
  {files.log[k].id : k \in {j \in DOMAIN files.log :
     \A m \in (IF i < j THEN i..j ELSE j..i) : channel(m)}}

Waiting(id) ==
  IF \A i \in DOMAIN files.log : files.log[i].kind # "submit" THEN files.open.owning
  ELSE {r \in files.open.open : SubmitsOf(r) # {} /\
          id \in BatchIds(CHOOSE i \in SubmitsOf(r) : \A j \in SubmitsOf(r) : j <= i)}

Written == [number |-> cc.number, at |-> now + 1]

\* The text a refused stop of this turn kept comes before the last message.
KeptText ==
  IF files.nudge # None /\ (files.stop = None \/ files.nudge.at > files.stop.at)
  THEN files.nudge ELSE Written

RefusesStop(background) ==
  ~cc.refused /\ ~background /\ Waiting(cc.id) # {}

RefuseStop ==
  /\ Happens /\ CanCall /\ ~cc.call /\ RefusesStop(FALSE)
  /\ files' = [files EXCEPT !.nudge = Written]
  /\ cc' = [cc EXCEPT !.refused = TRUE]
  /\ UNCHANGED <<server, numberOf, served, taken, routed>>

Stop(background) ==
  /\ Happens /\ CanCall /\ ~cc.call /\ ~RefusesStop(background)
  /\ LET rec == [kind |-> "stop", id |-> cc.id, request |-> None, background |-> background,
                 text |-> IF Waiting(cc.id) # {} THEN KeptText ELSE None,
                 at |-> now + 1]
     IN files' = [files EXCEPT !.stop = rec, !.log = Append(@, rec), !.nudge = None]
  /\ cc' = [cc EXCEPT !.id = 0, !.number = 0]
  /\ UNCHANGED <<server, numberOf, served, taken, routed>>

StopFails ==
  /\ Happens /\ CanCall /\ ~cc.call
  /\ Logs([kind |-> "failure", id |-> cc.id, request |-> None, background |-> FALSE,
           text |-> None, at |-> now + 1])
  /\ cc' = [cc EXCEPT !.id = 0, !.number = 0]
  /\ UNCHANGED <<server, numberOf, served, taken, routed>>

\* Esc: no record of it.
Interrupt ==
  /\ CanCall
  /\ EarlyEsc \/ (files.activity # None /\ files.activity.id = cc.id
                   /\ server.activityRead = files.activity.at)
  /\ cc' = [cc EXCEPT !.id = 0, !.number = 0, !.call = FALSE]
  /\ UNCHANGED <<files, server, now, numberOf, served, taken, routed>>

ClaudeNext ==
  \/ Poll \/ GraceOver \/ ChannelShutdown
  \/ \E r \in Requests : Deliver(r) \/ FinalTextSent(r) \/ ExpireRequest(r) \/ ReplyDone(r)
  \/ Type \/ BeginUnannounced \/ TakeFirst \/ TakeAlso
  \/ ToolCall \/ ToolResult \/ AskPermission \/ CallAgentTool
  \/ RefuseStop \/ (\E background \in BOOLEAN : Stop(background)) \/ StopFails \/ Interrupt

ClaudeSpec == ClaudeInit /\ [][ClaudeNext]_claudeVars

-----------------------------------------------------------------------------

\* A request is answered with a final text only if the text is of the turn it was
\* taken into, however many ids that turn had, whatever was folded into it or
\* refused in it, and however late the server reads of it.
AnsweredFromItsTurn ==
  \A r \in Requests : server.state.text[r] # None =>
    taken[r] # None /\ server.state.text[r].number = taken[r].number

\* A permission question and an agent-tool call go to a request that was taken
\* into the turn that makes them, never to one that waits behind it.
RoutedToItsTurn ==
  \A p \in routed : taken[p[1]] # None /\ taken[p[1]].number = p[2]

\* The extensions hear of local turns one at a time, start before end, and
\* never of a turn that a channel message started.
LocalTurnsAreLocal ==
  LET h == server.state.heard IN
  /\ \A i \in DOMAIN h : h[i].event = IF i % 2 = 1 THEN "started" ELSE "ended"
  /\ \A i \in DOMAIN h : i % 2 = 0 => h[i].id = h[i - 1].id
  /\ \A i \in DOMAIN h : numberOf[h[i].id] \notin served

\* Once the server has read the Stop of a turn that left no background work, or
\* its failure, no request of that turn is open, but one being answered.
TurnEndsItsRequests ==
  \A i \in 1..server.read : LET rec == files.log[i] IN
    rec.kind \in {"stop", "failure"} /\ ~rec.background =>
      \A r \in Requests : taken[r] # None /\ taken[r].number = numberOf[rec.id] =>
        server.state.pending[r] # "open"

\* Nothing of one turn goes to a request of another.
TurnsKeptApart == AnsweredFromItsTurn /\ RoutedToItsTurn

\* A turn's end is reported: to its requests, or to the extensions if it was
\* local (server.ts: report; turns.ts).
TurnsReported == LocalTurnsAreLocal /\ TurnEndsItsRequests

\* A text written before a request was taken is no answer to it.
TextIsForTheRequest ==
  \A r \in Requests : server.state.text[r] # None =>
    server.state.text[r].at >= taken[r].at
=============================================================================
