------------------------------- MODULE AgentTools -------------------------------
(***************************************************************************)
(* The calls behind the client SDK's agent tools                           *)
(* (client-sdk/typescript/src/tools/agent-tools.ts, class AgentTools).     *)
(*                                                                         *)
(* A host executes TOOL CALLS for its model.  prompt_agent starts a CALL,  *)
(* one prompt whose stream a reader task drains in the background;         *)
(* wait_agent, answer_agent and cancel_agent work on the calls of their    *)
(* SCOPE: the root scope, or one scope per served prompt, which closes     *)
(* with that prompt.  JavaScript runs one task at a time, so everything    *)
(* between two awaits is one action here, and any enabled task may run     *)
(* next at an await.                                                       *)
(***************************************************************************)
EXTENDS Integers, Sequences, FiniteSets

CONSTANTS
  Scopes,        \* the scopes: Root, and one per served prompt
  Root,          \* the scope of everything outside a served prompt
  ToolCalls,     \* the tool calls hosts execute, each executed once
  Offered,       \* the tools option: the tools offered
  MaxCalls,      \* the maxCalls option: calls tracked per scope
  MaxStarted,    \* bound: calls started, over all scopes
  MaxQuestions,  \* bound: questions the stream of each call carries
  MaxChunks      \* bound: response chunks one stream carries

ASSUME ScopesAssumption == Root \in Scopes
ASSUME OfferedAssumption == Offered \subseteq {"prompt_agent", "wait_agent",
                                              "answer_agent", "cancel_agent"}
ASSUME LimitAssumption == MaxCalls \in Nat \ {0}
ASSUME BoundsAssumption == /\ MaxStarted \in Nat
                           /\ MaxQuestions \in [1..MaxStarted -> Nat]
                           /\ MaxChunks \in Nat

Calls == 1..MaxStarted   \* numbered in the order they start

OpenStates == {"running", "input_required"}
FinalStates == {"completed", "failed", "cancelled", "expired"}
CallStates == OpenStates \cup FinalStates

(* What a tool call hands the model about one call.                        *)
CallResults == [call : Calls, state : CallStates, text : Nat,
                files : Nat, question : Nat]

VARIABLES
  closed,     \* close() ran: the helper executes nothing any more
  phase,      \* of each scope: "unopened", "open" or "closed"
  tracked,    \* the calls each scope tracks (Scope.calls)
  reserved,   \* calls admitted to each scope but not started (Scope.reserved)
  started,    \* how many calls have started
  clock,      \* AgentTools.seq: orders what wait_agent picks from
  state, home, seq, text, files,   \* of each call
  queue,      \* of each call: its open questions, the shown one first
  arriving,   \* of each call: the question being taken in, or 0
  reply,      \* of each call: what became of each question asked so far;
              \* a question is its place in this sequence
  reader,     \* of each call: where its reader task (read) is
  settled,    \* of each call: what onSettled was told
  pc,         \* of each tool call: the await it is at
  local,      \* of each tool call: its variables while it runs
  returned    \* of each tool call: the call results it gave the model

helperVars == <<closed, phase>>
scopeVars == <<tracked, reserved>>
callVars == <<state, seq, clock, queue, arriving, settled>>
streamVars == <<text, files, reader>>
birthVars == <<started, home>>
toolVars == <<local, returned>>
vars == <<helperVars, scopeVars, callVars, streamVars, birthVars, reply, pc, toolVars>>

ReplyStates == {"open", "sending", "answered", "refused", "failed"}
ReaderStates == {"none", "reading", "saving", "takingIn", "looking", "done"}
PcStates == {"idle", "resolving", "admitted", "untilReady", "awaitReady",
             "waitAgent", "awaitAny", "answering", "collecting", "done", "refused"}

(* A tool call's scope, the calls it works on, whether it waits, the       *)
(* question it answers, whether its signal was aborted or its time is up.  *)
Locals == [scope : Scopes, on : SUBSET Calls, wait : BOOLEAN, asking : Nat,
           aborted : BOOLEAN, late : BOOLEAN]
NoLocals == [scope |-> Root, on |-> {}, wait |-> FALSE, asking |-> 0,
             aborted |-> FALSE, late |-> FALSE]

TypeOK ==
  /\ closed \in BOOLEAN
  /\ phase \in [Scopes -> {"unopened", "open", "closed"}]
  /\ tracked \in [Scopes -> SUBSET Calls]
  /\ reserved \in [Scopes -> Nat]
  /\ started \in 0..MaxStarted
  /\ clock \in Nat
  /\ state \in [Calls -> CallStates \cup {"none"}]
  /\ home \in [Calls -> Scopes]
  /\ seq \in [Calls -> Nat]
  /\ text \in [Calls -> Nat]
  /\ files \in [Calls -> Nat]
  /\ queue \in [Calls -> Seq(Nat)]
  /\ arriving \in [Calls -> Nat]
  /\ reply \in [Calls -> Seq(ReplyStates)]
  /\ reader \in [Calls -> ReaderStates]
  /\ settled \in [Calls -> {"no", "awaited", "unawaited"}]
  /\ pc \in [ToolCalls -> PcStates]
  /\ local \in [ToolCalls -> Locals]
  /\ returned \in [ToolCalls -> SUBSET CallResults]

Init ==
  /\ closed = FALSE
  /\ phase = [s \in Scopes |-> IF s = Root THEN "open" ELSE "unopened"]
  /\ tracked = [s \in Scopes |-> {}]
  /\ reserved = [s \in Scopes |-> 0]
  /\ started = 0
  /\ clock = 0
  /\ state = [c \in Calls |-> "none"]
  /\ home = [c \in Calls |-> Root]
  /\ seq = [c \in Calls |-> 0]
  /\ text = [c \in Calls |-> 0]
  /\ files = [c \in Calls |-> 0]
  /\ queue = [c \in Calls |-> <<>>]
  /\ arriving = [c \in Calls |-> 0]
  /\ reply = [c \in Calls |-> <<>>]
  /\ reader = [c \in Calls |-> "none"]
  /\ settled = [c \in Calls |-> "no"]
  /\ pc = [t \in ToolCalls |-> "idle"]
  /\ local = [t \in ToolCalls |-> NoLocals]
  /\ returned = [t \in ToolCalls |-> {}]

-----------------------------------------------------------------------------
(* Calls: their states and the tool calls that watch them.                 *)

OpenCalls == {c \in Calls : state[c] \in OpenStates}
Finished(s) == {c \in tracked[s] : state[c] \in FinalStates}

Watching(t) == pc[t] \in {"awaitReady", "awaitAny"}

(* notify(): every tool call watching one of cs leaves nextChange and runs *)
(* its loop again.                                                         *)
Woken(cs) ==
  [t \in ToolCalls |->
     IF Watching(t) /\ local[t].on \cap cs # {}
     THEN IF pc[t] = "awaitReady" THEN "untilReady" ELSE "waitAgent"
     ELSE pc[t]]

(* A waiter watches all its calls until the first of them changes, so of   *)
(* the calls of cs that finish one after the other it awaits the first.    *)
Awaited(c, cs) ==
  \E t \in ToolCalls : /\ Watching(t)
                       /\ c \in local[t].on
                       /\ \A d \in local[t].on \cap cs : c <= d

(* setState(call, "input_required" or "running").                          *)
SetState(c, st) ==
  /\ state' = [state EXCEPT ![c] = st]
  /\ IF st = "input_required"
     THEN /\ clock' = clock + 1
          /\ seq' = [seq EXCEPT ![c] = clock + 1]
     ELSE UNCHANGED <<clock, seq>>

Rank(c, cs) == Cardinality({d \in cs : d <= c})

(* finish(call, end) for each of cs, open calls, in the order they started.*)
(* It takes the questions off the calls; Refuse says what happens to them. *)
Finish(cs, end) ==
  /\ state' = [c \in Calls |-> IF c \in cs THEN end ELSE state[c]]
  /\ seq' = [c \in Calls |-> IF c \in cs THEN clock + Rank(c, cs) ELSE seq[c]]
  /\ clock' = clock + Cardinality(cs)
  /\ queue' = [c \in Calls |-> IF c \in cs THEN <<>> ELSE queue[c]]
  /\ arriving' = [c \in Calls |-> IF c \in cs THEN 0 ELSE arriving[c]]
  /\ settled' = [c \in Calls |-> IF c \in cs /\ home[c] = Root
                                 THEN IF Awaited(c, cs) THEN "awaited" ELSE "unawaited"
                                 ELSE settled[c]]

OpenQuestions(c) ==
  {queue[c][i] : i \in DOMAIN queue[c]} \cup (IF arriving[c] = 0 THEN {} ELSE {arriving[c]})

(* refuse() for each open question of cs.  A question is replied to once:  *)
(* reply() marks it replied before it publishes, and the publish may fail. *)
Refuse(cs, sent) ==
  reply' = [c \in Calls |->
              IF c \in cs
              THEN [i \in DOMAIN reply[c] |->
                      IF i \in OpenQuestions(c) /\ reply[c][i] = "open"
                      THEN IF sent THEN "refused" ELSE "failed"
                      ELSE reply[c][i]]
              ELSE reply[c]]

(* cancel(): a call that is not open is left alone.                        *)
Cancel(cs) ==
  /\ Finish(cs \cap OpenCalls, "cancelled")
  /\ \E sent \in BOOLEAN : Refuse(cs \cap OpenCalls, sent)

CallResult(c) ==
  [call |-> c, state |-> state[c], text |-> text[c], files |-> files[c],
   question |-> IF state[c] = "input_required" THEN Head(queue[c]) ELSE 0]

(* The tool call ends: its variables are gone.                             *)
Ends(t) == local' = [local EXCEPT ![t] = NoLocals]

(* callResult(call) goes to the model.                                     *)
Give(t, c) ==
  /\ pc' = [pc EXCEPT ![t] = "done"]
  /\ returned' = [returned EXCEPT ![t] = {CallResult(c)}]
  /\ Ends(t)

-----------------------------------------------------------------------------
(* Scopes.                                                                 *)

(* runInPromptScope(fn): ensureOpen, then a scope for the served prompt.   *)
OpenScope(s) ==
  /\ ~closed
  /\ phase[s] = "unopened"
  /\ phase' = [phase EXCEPT ![s] = "open"]
  /\ UNCHANGED <<closed, scopeVars, callVars, streamVars, birthVars, reply, pc, toolVars>>

(* closeScope for each of ss: every call they track is cancelled.          *)
CloseScopes(ss) ==
  /\ phase' = [s \in Scopes |-> IF s \in ss THEN "closed" ELSE phase[s]]
  /\ LET cs == UNION {tracked[s] : s \in ss} IN
     /\ Cancel(cs)
     /\ pc' = Woken(cs \cap OpenCalls)
  /\ UNCHANGED <<scopeVars, streamVars, birthVars, toolVars>>

(* The served prompt's handler returned or threw.                          *)
EndPrompt(s) ==
  /\ s # Root
  /\ phase[s] = "open"
  /\ CloseScopes({s})
  /\ UNCHANGED closed

(* close(): every scope there is.                                          *)
Close ==
  /\ ~closed
  /\ closed' = TRUE
  /\ CloseScopes({s \in Scopes : phase[s] = "open"})

-----------------------------------------------------------------------------
(* execute(): in the scope of the prompt being served, if any.  The scope  *)
(* may have closed: the handler may have left work behind.                 *)

Execute(t, s, tool) ==
  /\ ~closed
  /\ tool \in Offered
  /\ pc[t] = "idle"
  /\ phase[s] # "unopened"

Begin(t, s, cs) == [NoLocals EXCEPT !.scope = s, !.on = cs]

(* {"error": ...}: bad arguments, an unknown call, a closed scope, ...     *)
Refused(t) == pc' = [pc EXCEPT ![t] = "refused"] /\ Ends(t)

-----------------------------------------------------------------------------
(* prompt_agent.                                                           *)

(* A call may be detached only where wait_agent can collect it.            *)
PromptAgent(t, s, wait) ==
  /\ Execute(t, s, "prompt_agent")
  /\ IF phase[s] = "closed" \/ (~wait /\ "wait_agent" \notin Offered)
     THEN Refused(t)
     ELSE /\ pc' = [pc EXCEPT ![t] = "resolving"]
          /\ local' = [local EXCEPT ![t] = [Begin(t, s, {}) EXCEPT !.wait = wait]]
  /\ UNCHANGED <<helperVars, scopeVars, callVars, streamVars, birthVars, reply,
                 returned>>

(* The address is unknown, is the prompt's own sender, or a file may not   *)
(* be sent.                                                                *)
ResolveFails(t) ==
  /\ pc[t] = "resolving"
  /\ Refused(t)
  /\ UNCHANGED <<helperVars, scopeVars, callVars, streamVars, birthVars, reply,
                 returned>>

(* Fault: one call too many.                                               *)
HasRoomForOneMore(s) == Cardinality(tracked[s]) + reserved[s] <= MaxCalls

HasRoom(s) == Cardinality(tracked[s]) + reserved[s] < MaxCalls

Oldest(s) == {c \in Finished(s) : \A d \in Finished(s) : seq[c] <= seq[d]}

(* reserve(): the loop drops the call that finished longest ago while the  *)
(* scope is full.  A scope never holds more than MaxCalls (Capacity), so   *)
(* one call dropped is always room enough.                                 *)
Reserve(t) ==
  LET s == local[t].scope
      drop == IF HasRoom(s) THEN {} ELSE Oldest(s) IN
  /\ pc[t] = "resolving"
  /\ IF HasRoom(s) \/ Finished(s) # {}
     THEN /\ tracked' = [tracked EXCEPT ![s] = @ \ drop]
          /\ reserved' = [reserved EXCEPT ![s] = @ + 1]
          /\ pc' = [pc EXCEPT ![t] = "admitted"]
          /\ UNCHANGED local
     ELSE /\ Refused(t)
          /\ UNCHANGED scopeVars
  /\ UNCHANGED <<helperVars, callVars, streamVars, birthVars, reply, returned>>

(* The reservation is given back: a prompt rewrite refused or failed, the  *)
(* prompt could not be sent, or the scope closed meanwhile.                *)
GiveUp(t) ==
  /\ pc[t] = "admitted"
  /\ reserved' = [reserved EXCEPT ![local[t].scope] = @ - 1]
  /\ Refused(t)
  /\ UNCHANGED <<helperVars, tracked, callVars, streamVars, birthVars, reply,
                 returned>>

(* The hooks and target.prompt() are through: the call starts, if its      *)
(* scope is still open, and its reader with it.                            *)
StartCall(t) ==
  LET s == local[t].scope
      c == started + 1 IN
  /\ pc[t] = "admitted"
  /\ phase[s] # "closed"
  /\ started < MaxStarted
  /\ started' = c
  /\ reserved' = [reserved EXCEPT ![s] = @ - 1]
  /\ tracked' = [tracked EXCEPT ![s] = @ \cup {c}]
  /\ home' = [home EXCEPT ![c] = s]
  /\ state' = [state EXCEPT ![c] = "running"]
  /\ reader' = [reader EXCEPT ![c] = "reading"]
  /\ IF local[t].wait
     THEN /\ pc' = [pc EXCEPT ![t] = "untilReady"]
          /\ local' = [local EXCEPT ![t].on = {c}]
     ELSE pc' = [pc EXCEPT ![t] = "done"] /\ Ends(t)
  /\ UNCHANGED <<helperVars, seq, clock, queue, arriving, settled, text, files, reply,
                 returned>>

-----------------------------------------------------------------------------
(* untilReady: what a blocking tool call does until its call is ready.     *)

(* One turn of the loop: return, wait for a change, or, aborted, cancel    *)
(* the call (the next turn then returns it).                               *)
UntilReady(t) ==
  /\ pc[t] = "untilReady"
  /\ \E c \in local[t].on :
       IF state[c] # "running"
       THEN Give(t, c) /\ UNCHANGED <<callVars, reply>>
       ELSE /\ UNCHANGED <<local, returned>>
            /\ IF local[t].aborted
               THEN Cancel({c}) /\ pc' = Woken({c})
               ELSE pc' = [pc EXCEPT ![t] = "awaitReady"] /\ UNCHANGED <<callVars, reply>>
  /\ UNCHANGED <<helperVars, scopeVars, streamVars, birthVars>>

(* The host aborts the tool call's signal.  Only the two waiting loops read *)
(* it, so an earlier abort is as one at the loop's first turn.             *)
Abort(t) ==
  /\ pc[t] \in {"untilReady", "awaitReady", "waitAgent", "awaitAny"}
  /\ ~local[t].aborted
  /\ local' = [local EXCEPT ![t].aborted = TRUE]
  /\ pc' = [pc EXCEPT ![t] = CASE @ = "awaitReady" -> "untilReady"
                               [] @ = "awaitAny" -> "waitAgent"
                               [] OTHER -> @]
  /\ UNCHANGED <<helperVars, scopeVars, callVars, streamVars, birthVars, reply,
                 returned>>

-----------------------------------------------------------------------------
(* wait_agent.                                                             *)

WaitAgent(t, s, cs) ==
  /\ Execute(t, s, "wait_agent")
  /\ IF cs \subseteq tracked[s]
     THEN /\ pc' = [pc EXCEPT ![t] = "waitAgent"]
          /\ local' = [local EXCEPT ![t] = Begin(t, s, cs)]
     ELSE Refused(t)
  /\ UNCHANGED <<helperVars, scopeVars, callVars, streamVars, birthVars, reply,
                 returned>>

(* One turn of the loop: the call that became ready first, the timeout, or *)
(* another wait.                                                           *)
WaitTurn(t) ==
  LET ready == {c \in local[t].on : state[c] # "running"} IN
  /\ pc[t] = "waitAgent"
  /\ \/ \E c \in ready : (\A d \in ready : seq[c] <= seq[d]) /\ Give(t, c)
     \/ /\ ready = {}
        /\ UNCHANGED returned
        /\ IF local[t].late \/ local[t].aborted
           THEN pc' = [pc EXCEPT ![t] = "done"] /\ Ends(t)
           ELSE pc' = [pc EXCEPT ![t] = "awaitAny"] /\ UNCHANGED local
  /\ UNCHANGED <<helperVars, scopeVars, callVars, streamVars, birthVars, reply>>

(* timeout_ms has passed.                                                  *)
Deadline(t) ==
  /\ pc[t] \in {"waitAgent", "awaitAny"}
  /\ ~local[t].late
  /\ local' = [local EXCEPT ![t].late = TRUE]
  /\ pc' = [pc EXCEPT ![t] = "waitAgent"]
  /\ UNCHANGED <<helperVars, scopeVars, callVars, streamVars, birthVars, reply,
                 returned>>

-----------------------------------------------------------------------------
(* answer_agent.                                                           *)

(* The shown question is taken off the call before its answer goes out.    *)
(* One whose reply failed before is replied already: reply() throws.  Only *)
(* where wait_agent can collect the call may the answer not wait.          *)
AnswerAgent(t, s, c, wait) ==
  /\ Execute(t, s, "answer_agent")
  /\ IF /\ wait \/ "wait_agent" \in Offered
        /\ c \in tracked[s] /\ state[c] = "input_required"
     THEN LET q == Head(queue[c]) IN
          /\ queue' = [queue EXCEPT ![c] = Tail(@)]
          /\ SetState(c, IF Tail(queue[c]) # <<>> THEN "input_required" ELSE "running")
          /\ reply' = [reply EXCEPT ![c][q] = IF @ = "open" THEN "sending" ELSE @]
          /\ pc' = [Woken({c}) EXCEPT ![t] = "answering"]
          /\ local' = [local EXCEPT ![t] =
                         [Begin(t, s, {c}) EXCEPT !.wait = wait, !.asking = q]]
     ELSE Refused(t) /\ UNCHANGED <<queue, state, clock, seq, reply>>
  /\ UNCHANGED <<helperVars, scopeVars, arriving, settled, streamVars, birthVars,
                 returned>>

AnswerSent(t) ==
  /\ pc[t] = "answering"
  /\ \E c \in local[t].on :
       /\ reply[c][local[t].asking] = "sending"
       /\ reply' = [reply EXCEPT ![c][local[t].asking] = "answered"]
       /\ IF local[t].wait
          THEN pc' = [pc EXCEPT ![t] = "untilReady"] /\ UNCHANGED <<local, returned>>
          ELSE Give(t, c)
  /\ UNCHANGED <<helperVars, scopeVars, callVars, streamVars, birthVars>>

(* reply() threw: the question goes back to the head of an open call.      *)
AnswerFails(t) ==
  /\ pc[t] = "answering"
  /\ \E c \in local[t].on :
       /\ reply' = [reply EXCEPT ![c][local[t].asking] = "failed"]
       /\ IF c \in OpenCalls
          THEN /\ queue' = [queue EXCEPT ![c] = <<local[t].asking>> \o @]
               /\ SetState(c, "input_required")
               /\ pc' = [Woken({c}) EXCEPT ![t] = "refused"]
          ELSE /\ pc' = [pc EXCEPT ![t] = "refused"]
               /\ UNCHANGED <<queue, state, clock, seq>>
  /\ Ends(t)
  /\ UNCHANGED <<helperVars, scopeVars, arriving, settled, streamVars, birthVars,
                 returned>>

-----------------------------------------------------------------------------
(* cancel_agent.  Naming several calls is as naming one after the other.   *)

CancelAgent(t, s, c) ==
  /\ Execute(t, s, "cancel_agent")
  /\ IF c \in tracked[s]
     THEN /\ Cancel({c})
          /\ pc' = [Woken({c} \cap OpenCalls) EXCEPT ![t] = "collecting"]
          /\ local' = [local EXCEPT ![t] = Begin(t, s, {c})]
     ELSE Refused(t) /\ UNCHANGED <<callVars, reply>>
  /\ UNCHANGED <<helperVars, scopeVars, streamVars, birthVars, returned>>

(* The refusals are out: the call's result.                                *)
Collect(t) ==
  /\ pc[t] = "collecting"
  /\ \E c \in local[t].on : Give(t, c)
  /\ UNCHANGED <<helperVars, scopeVars, callVars, streamVars, birthVars, reply>>

-----------------------------------------------------------------------------
(* The reader of a call: read(), one action per await that resolves.       *)

AtMessage(c) == reader[c] = "reading"

(* A response chunk; its files, if any, are saved before the next message. *)
ReadResponse(c, attached) ==
  /\ AtMessage(c)
  /\ c \in OpenCalls
  /\ text[c] < MaxChunks
  /\ text' = [text EXCEPT ![c] = @ + 1]
  /\ reader' = [reader EXCEPT ![c] = IF attached THEN "saving" ELSE "reading"]
  /\ UNCHANGED <<helperVars, scopeVars, callVars, files, birthVars, reply, pc, toolVars>>

(* The files are saved; nothing asks again whether the call is open.       *)
FilesSaved(c) ==
  /\ reader[c] = "saving"
  /\ files' = [files EXCEPT ![c] = @ + 1]
  /\ reader' = [reader EXCEPT ![c] = "reading"]
  /\ UNCHANGED <<helperVars, scopeVars, callVars, text, birthVars, reply, pc, toolVars>>

(* A question: taken in when the call is open, refused at once when it was *)
(* cancelled while the question was on its way.                            *)
ReadQuery(c) ==
  /\ AtMessage(c)
  /\ Len(reply[c]) < MaxQuestions[c]
  /\ IF c \in OpenCalls
     THEN /\ reply' = [reply EXCEPT ![c] = Append(@, "open")]
          /\ arriving' = [arriving EXCEPT ![c] = Len(reply[c]) + 1]
          /\ reader' = [reader EXCEPT ![c] = "takingIn"]
     ELSE /\ \E fate \in {"refused", "failed"} : reply' = [reply EXCEPT ![c] = Append(@, fate)]
          /\ UNCHANGED <<arriving, reader>>
  /\ UNCHANGED <<helperVars, scopeVars, state, seq, clock, queue, settled, text, files,
                 birthVars, pc, toolVars>>

(* Fault: nothing asks whether the call is still open.                     *)
TakenInUnasked(c) ==
  /\ reader[c] = "takingIn"
  /\ reader' = [reader EXCEPT ![c] = "reading"]
  /\ IF TRUE
     THEN /\ arriving' = [arriving EXCEPT ![c] = 0]
          /\ queue' = [queue EXCEPT ![c] = Append(@, arriving[c])]
          /\ IF state[c] = "running"
             THEN SetState(c, "input_required") /\ pc' = Woken({c})
             ELSE UNCHANGED <<state, clock, seq, pc>>
     ELSE UNCHANGED <<arriving, queue, state, clock, seq, pc>>
  /\ UNCHANGED <<helperVars, scopeVars, settled, text, files, birthVars, reply, toolVars>>

(* Its files are saved and the extensions looked at it.  A call cancelled  *)
(* meanwhile took the question along.                                      *)
TakenIn(c) ==
  /\ reader[c] = "takingIn"
  /\ reader' = [reader EXCEPT ![c] = "reading"]
  /\ IF c \in OpenCalls
     THEN /\ arriving' = [arriving EXCEPT ![c] = 0]
          /\ queue' = [queue EXCEPT ![c] = Append(@, arriving[c])]
          /\ IF state[c] = "running"
             THEN SetState(c, "input_required") /\ pc' = Woken({c})
             ELSE UNCHANGED <<state, clock, seq, pc>>
     ELSE UNCHANGED <<arriving, queue, state, clock, seq, pc>>
  /\ UNCHANGED <<helperVars, scopeVars, settled, text, files, birthVars, reply, toolVars>>

(* The terminator, or the end of a stream that was cancelled.              *)
StreamEnds(c) ==
  /\ AtMessage(c)
  /\ reader' = [reader EXCEPT ![c] = IF c \in OpenCalls THEN "looking" ELSE "done"]
  /\ UNCHANGED <<helperVars, scopeVars, callVars, text, files, birthVars, reply, pc, toolVars>>

(* Fault: finish overwrites a final state.                                 *)
CompleteAnyway(c) ==
  /\ reader[c] = "looking"
  /\ reader' = [reader EXCEPT ![c] = "done"]
  /\ Finish({c}, "completed")
  /\ pc' = Woken({c})
  /\ UNCHANGED <<helperVars, scopeVars, text, files, birthVars, reply, toolVars>>

(* Fault: finish notifies nobody.                                          *)
CompleteSilently(c) ==
  /\ reader[c] = "looking"
  /\ reader' = [reader EXCEPT ![c] = "done"]
  /\ Finish({c} \cap OpenCalls, "completed")
  /\ UNCHANGED pc
  /\ UNCHANGED <<helperVars, scopeVars, text, files, birthVars, reply, toolVars>>

(* The extensions looked at the reply: the call is complete, if it is open.*)
Complete(c) ==
  /\ reader[c] = "looking"
  /\ reader' = [reader EXCEPT ![c] = "done"]
  /\ Finish({c} \cap OpenCalls, "completed")
  /\ pc' = Woken({c} \cap OpenCalls)
  /\ UNCHANGED <<helperVars, scopeVars, text, files, birthVars, reply, toolVars>>

(* Fault: the questions of a call that failed wait for their own timeout.   *)
ReaderFailsUnrefused(c, end) ==
  /\ reader[c] \in {"reading", "saving", "takingIn", "looking"}
  /\ (end = "expired") => AtMessage(c)
  /\ reader' = [reader EXCEPT ![c] = "done"]
  /\ Finish({c} \cap OpenCalls, end)
  /\ pc' = Woken({c} \cap OpenCalls)
  /\ UNCHANGED <<helperVars, scopeVars, text, files, birthVars, reply, toolVars>>

(* The stream threw (its runtime limit passed: expired; anything else:     *)
(* failed), or a step of the reader did.                                   *)
ReaderFails(c, end) ==
  /\ reader[c] \in {"reading", "saving", "takingIn", "looking"}
  /\ (end = "expired") => AtMessage(c)
  /\ reader' = [reader EXCEPT ![c] = "done"]
  /\ Finish({c} \cap OpenCalls, end)
  /\ \E sent \in BOOLEAN : Refuse({c} \cap OpenCalls, sent)
  /\ pc' = Woken({c} \cap OpenCalls)
  /\ UNCHANGED <<helperVars, scopeVars, text, files, birthVars, toolVars>>

-----------------------------------------------------------------------------

ToolStep(t) ==
  \/ \E s \in Scopes :
       \/ \E wait \in BOOLEAN : PromptAgent(t, s, wait)
       \/ \E cs \in (SUBSET Calls) \ {{}} : WaitAgent(t, s, cs)
       \/ \E c \in Calls, wait \in BOOLEAN : AnswerAgent(t, s, c, wait)
       \/ \E c \in Calls : CancelAgent(t, s, c)
  \/ ResolveFails(t) \/ Reserve(t) \/ GiveUp(t) \/ StartCall(t)
  \/ UntilReady(t) \/ WaitTurn(t) \/ Collect(t)
  \/ AnswerSent(t) \/ AnswerFails(t)
  \/ Abort(t) \/ Deadline(t)

ReaderStep(c) ==
  \/ \E attached \in BOOLEAN : ReadResponse(c, attached)
  \/ FilesSaved(c) \/ ReadQuery(c) \/ TakenIn(c) \/ StreamEnds(c) \/ Complete(c)
  \/ \E end \in {"failed", "expired"} : ReaderFails(c, end)

Next ==
  \/ \E s \in Scopes : OpenScope(s) \/ EndPrompt(s)
  \/ Close
  \/ \E t \in ToolCalls : ToolStep(t)
  \/ \E c \in Calls : ReaderStep(c)

Spec == Init /\ [][Next]_vars

(* What the runtime owes: a tool call and a reader go on when what they    *)
(* await resolves (file and flush I/O does), and requestMany's maxWait     *)
(* timer ends every stream.  Nothing makes a model answer, cancel or wait. *)
Progress(t) ==
  \/ ResolveFails(t) \/ Reserve(t) \/ GiveUp(t) \/ StartCall(t)
  \/ UntilReady(t) \/ WaitTurn(t) \/ Collect(t) \/ AnswerSent(t) \/ AnswerFails(t)

FairSpec ==
  /\ Spec
  /\ \A t \in ToolCalls : WF_vars(Progress(t)) /\ WF_vars(Deadline(t))
  /\ \A c \in Calls : /\ WF_vars(FilesSaved(c) \/ TakenIn(c) \/ Complete(c))
                      /\ SF_vars(ReaderFails(c, "expired"))

-----------------------------------------------------------------------------
(* Properties.                                                             *)

(* A scope never tracks and admits more than maxCalls calls together, and  *)
(* every reservation is held by a tool call on its way to start a call: no *)
(* path out of prompt_agent leaks one.                                     *)
Capacity ==
  \A s \in Scopes : Cardinality(tracked[s]) + reserved[s] <= MaxCalls

Holders(s) == {t \in ToolCalls : pc[t] = "admitted" /\ local[t].scope = s}

NoLeakedReservation == \A s \in Scopes : reserved[s] = Cardinality(Holders(s))

(* Once a prompt has been served no call of its scope is open, whatever    *)
(* tool calls were under way when it ended: nothing would collect it.      *)
NoOpenCallInClosedScope ==
  \A c \in Calls : phase[home[c]] = "closed" => c \notin OpenCalls

(* A call shows a question exactly when it has one, and a finished call    *)
(* holds none: what callResult's questions[0]! relies on.                  *)
QuestionShownIffOpen ==
  \A c \in Calls :
    /\ state[c] = "input_required" <=> queue[c] # <<>>
    /\ c \notin OpenCalls => arriving[c] = 0

(* Nobody waits out a timeout for an answer that cannot come: every        *)
(* question of a call that ended without a reply has been replied to,      *)
(* the one being taken in and one that arrived too late included.          *)
NoAbandonedQuestion ==
  \A c \in Calls : state[c] \in {"failed", "cancelled", "expired"} =>
    \A i \in DOMAIN reply[c] : reply[c][i] # "open"

(* Every question of an open call that nobody has replied to is where      *)
(* someone will find it, and in one place only.                            *)
EveryOpenQuestionHeld ==
  \A c \in OpenCalls :
    /\ \A i \in DOMAIN reply[c] : reply[c][i] = "open" => i \in OpenQuestions(c)
    /\ \A i, j \in DOMAIN queue[c] : queue[c][i] = queue[c][j] => i = j
    /\ \A i \in DOMAIN queue[c] : queue[c][i] # arriving[c]

(* onSettled's awaited is TRUE only when a tool call did take the result   *)
(* to the model, or is about to: a host drops the notification then.       *)
AwaitedMeansDelivered ==
  \A c \in Calls : settled[c] = "awaited" =>
    \E t \in ToolCalls :
      \/ /\ pc[t] \in {"untilReady", "waitAgent"}
         /\ c \in local[t].on
         /\ \A d \in local[t].on : state[d] # "running" => seq[c] <= seq[d]
      \/ \E r \in returned[t] : r.call = c /\ r.state \in FinalStates

(* The scopes as a whole: places are given out, held and given back, and   *)
(* a scope that closes leaves nothing open (promptAgent, closeScope).      *)
ScopeSound == Capacity /\ NoLeakedReservation /\ NoOpenCallInClosedScope

(* The calls as a whole: no question is lost or left behind, and no        *)
(* result is dropped because somebody else seems to wait for it.           *)
CallsSound ==
  /\ QuestionShownIffOpen /\ NoAbandonedQuestion /\ EveryOpenQuestionHeld
  /\ AwaitedMeansDelivered

(* The first final state wins: cancel, end of stream, expiry and failure   *)
(* race, and none changes what another has settled.                        *)
FinalIsFinal ==
  [][\A c \in Calls : state[c] \in FinalStates =>
       /\ state'[c] = state[c] /\ seq'[c] = seq[c] /\ text'[c] = text[c]
       /\ settled'[c] = settled[c] /\ queue'[c] = queue[c]]_vars

(* Every waiting tool call returns: no wake-up is lost, and a stream ends. *)
BlockedToolCallReturns ==
  []<>(\A t \in ToolCalls :
         pc[t] \notin {"untilReady", "awaitReady", "waitAgent", "awaitAny", "collecting"})

(* Every call finishes or waits for the model.                             *)
CallSettles ==
  []<>(\A c \in Calls : state[c] # "running")

(* Nobody waits for ever, of the tool calls and of the calls.              *)
NobodyWaitsForEver == BlockedToolCallReturns /\ CallSettles

(* The helper implements the contract of docs/agent-tools.md, where a      *)
(* question is due while nothing has marked it replied (query-event.ts).   *)
Contract == INSTANCE CallContract WITH
  Questions <- UNION {1..MaxQuestions[c] : c \in Calls},
  live <- {s \in Scopes : phase[s] = "open"},
  scope <- home,
  status <- state,
  due <- [c \in Calls |-> {i \in DOMAIN reply[c] : reply[c][i] = "open"}]

KeepsContract == Contract!Spec

-----------------------------------------------------------------------------
(* docs/agent-tools.md, 1.1: a finished call's result is the same every    *)
(* time.  Files saved after a cancel are added to it.                      *)
SameResultEveryTime ==
  \A t, u \in ToolCalls : \A r \in returned[t], q \in returned[u] :
    (r.call = q.call /\ r.state \in FinalStates /\ q.state \in FinalStates) => r = q
=============================================================================
