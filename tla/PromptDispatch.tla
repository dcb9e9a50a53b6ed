----------------------------- MODULE PromptDispatch -----------------------------
(***************************************************************************)
(* One prompt request at the host: AgentService's dispatchPrompt and the   *)
(* PromptResponse its handler gets                                         *)
(* (agent-sdk/typescript/src/service.ts).                                  *)
(*                                                                         *)
(* Four tasks share the request: dispatchPrompt itself, the CHAIN of       *)
(* request interceptors it awaits, the HANDLER the chain's next() runs,    *)
(* and the keep-alive timer.  Interceptors and handler are the             *)
(* application's code: any of their legal moves may happen.  Two           *)
(* interceptors compose to one, so the chain is a single task here.        *)
(***************************************************************************)
EXTENDS Integers, Sequences

CONSTANTS
  KeepAlive,      \* keepaliveIntervalS is not null
  Abandons,       \* the chain may settle while the next() it called still runs
  MaxNext,        \* bound: calls of next()
  MaxChunks,      \* bound: response chunks the handler sends
  MaxQuestions,   \* bound: questions the handler asks
  MaxAcks         \* bound: acks beyond the leading one

ASSUME FlagsAssumption == {KeepAlive, Abandons} \subseteq BOOLEAN
ASSUME DispatchBoundsAssumption ==
  {MaxNext, MaxChunks, MaxQuestions, MaxAcks} \subseteq Nat

FrameKinds == {"ack", "chunk", "query", "error", "end"}
Frames == [kind : FrameKinds, n : Nat]   \* n numbers chunks and queries

VARIABLES
  phase,       \* of dispatchPrompt: "idle", "admitting", "serving" or "ended"
  chain,       \* "idle", "running", "returned" or "threw"
  nexts,       \* how often the chain called next()
  handler,     \* "notStarted", "running", "done" or "failed"
  timer,       \* keepaliveTimer is set
  frames,      \* what went out on the reply subject, in order
  connected,   \* the host's connection can publish
  sent,        \* chunks the handler sent
  asked,       \* questions the handler asked
  asking,      \* the running ask(): "no", "subscribed" or "published"
  mail,        \* of each question: its inbox, the replies that reached it
  answers      \* of each question: the reply ask() resolved with, 0 for none

hostVars == <<phase, chain, nexts, handler, timer, frames, connected, sent,
              asked, asking, mail, answers>>

Questions == 1..MaxQuestions

HostTypeOK ==
  /\ phase \in {"idle", "admitting", "serving", "ended"}
  /\ chain \in {"idle", "running", "returned", "threw"}
  /\ nexts \in 0..MaxNext
  /\ handler \in {"notStarted", "running", "done", "failed"}
  /\ timer \in BOOLEAN
  /\ frames \in Seq(Frames)
  /\ connected \in BOOLEAN
  /\ sent \in 0..MaxChunks
  /\ asked \in 0..MaxQuestions
  /\ asking \in {"no", "subscribed", "published"}
  /\ mail \in [Questions -> SUBSET Questions]
  /\ answers \in [Questions -> 0..MaxQuestions]

HostInit ==
  /\ phase = "idle"
  /\ chain = "idle"
  /\ nexts = 0
  /\ handler = "notStarted"
  /\ timer = FALSE
  /\ frames = <<>>
  /\ connected = TRUE
  /\ sent = 0
  /\ asked = 0
  /\ asking = "no"
  /\ mail = [q \in Questions |-> {}]
  /\ answers = [q \in Questions |-> 0]

Frame(k, n) == [kind |-> k, n |-> n]
Ack == Frame("ack", 0)
Error == Frame("error", 0)
End == Frame("end", 0)

Count(k) == Len(SelectSeq(frames, LAMBDA f : f.kind = k))
Failed == \E i \in 1..Len(frames) : frames[i].kind = "error"

-----------------------------------------------------------------------------
(* msg.respond: publishes at once, in order; on a closed connection it     *)
(* throws, which every caller here but the handler swallows.               *)
Emit(fs) == frames' = IF connected THEN frames \o fs ELSE frames

handlerVars == <<sent, asked, asking, mail, answers>>

(* The request arrives.  A malformed envelope is answered at once with an  *)
(* error and the terminator; any other waits for the sender gate.          *)
Malformed ==
  /\ phase = "idle"
  /\ phase' = "ended"
  /\ Emit(<<Error, End>>)
  /\ UNCHANGED <<chain, nexts, handler, timer, connected, handlerVars>>

Receive ==
  /\ phase = "idle"
  /\ phase' = "admitting"
  /\ UNCHANGED <<chain, nexts, handler, timer, frames, connected, handlerVars>>

(* gate.admitPrompt refused or threw: error, terminator, no ack.           *)
NotAdmitted ==
  /\ phase = "admitting"
  /\ phase' = "ended"
  /\ Emit(<<Error, End>>)
  /\ UNCHANGED <<chain, nexts, handler, timer, connected, handlerVars>>

Admitted ==
  /\ phase = "admitting"
  /\ phase' = "serving"
  /\ chain' = "running"
  /\ UNCHANGED <<nexts, handler, timer, frames, connected, handlerVars>>

(* When the chain may call next(): while it runs.  An interceptor "must    *)
(* call next() once or throw" (interceptor.ts); work it leaves behind that *)
(* calls next() after it has thrown does both, and is not modelled.        *)
MayCallNext == chain = "running"

(* Fault: the acks wait for the handler's first word.                      *)
CallNextUncovered ==
  /\ MayCallNext
  /\ nexts < MaxNext
  /\ nexts' = nexts + 1
  /\ IF handler = "notStarted"
     THEN handler' = "running" /\ Emit(<<Ack>>)
     ELSE UNCHANGED <<handler, frames>>
  /\ UNCHANGED <<phase, chain, timer, connected, handlerVars>>

(* serve: the innermost next().  The first call acks, starts the           *)
(* keep-alive and runs the handler; any other throws to its caller.        *)
CallNext ==
  /\ MayCallNext
  /\ nexts < MaxNext
  /\ nexts' = nexts + 1
  /\ IF handler = "notStarted"
     THEN /\ handler' = "running"
          /\ timer' = KeepAlive
          /\ Emit(<<Ack>>)
     ELSE UNCHANGED <<handler, timer, frames>>
  /\ UNCHANGED <<phase, chain, connected, handlerVars>>

(* An interceptor returns, or throws: by itself, or because it lets        *)
(* through what next() threw.  It may replace or swallow a failure.        *)
ChainSettles(outcome) ==
  /\ chain = "running"
  /\ handler = "running" => Abandons
  /\ chain' = outcome
  /\ UNCHANGED <<phase, nexts, handler, timer, frames, connected, handlerVars>>

(* dispatchPrompt resumes from its await of the chain.  What the chain     *)
(* threw is the caller's error unless the reply is complete; a chain that  *)
(* never called next() is an error too.                                    *)
Served == handler # "notStarted"

Answered == handler = "done"

(* Fault: the keep-alive timer is left to the garbage collector.           *)
DispatchedTimerLeft ==
  /\ phase = "serving"
  /\ chain \in {"returned", "threw"}
  /\ phase' = "ended"
  /\ IF \/ chain = "threw" /\ ~Answered
        \/ chain = "returned" /\ ~Served
     THEN Emit(<<Error, End>>)
     ELSE Emit(<<End>>)
  /\ UNCHANGED <<chain, nexts, handler, timer, connected, handlerVars>>

Dispatched ==
  /\ phase = "serving"
  /\ chain \in {"returned", "threw"}
  /\ phase' = "ended"
  /\ timer' = FALSE
  /\ IF \/ chain = "threw" /\ ~Answered
        \/ chain = "returned" /\ ~Served
     THEN Emit(<<Error, End>>)
     ELSE Emit(<<End>>)
  /\ UNCHANGED <<chain, nexts, handler, connected, handlerVars>>

(* The periodic ack; on a dead connection the timer clears itself.         *)
KeepAliveTick ==
  /\ timer
  /\ Count("ack") <= MaxAcks
  /\ timer' = connected
  /\ Emit(<<Ack>>)
  /\ UNCHANGED <<phase, chain, nexts, handler, connected, handlerVars>>

-----------------------------------------------------------------------------
(* The handler, through its PromptResponse.                                *)
Idle == handler = "running" /\ asking = "no"

SendChunk ==
  /\ Idle
  /\ sent < MaxChunks
  /\ sent' = sent + 1
  /\ Emit(<<Frame("chunk", sent + 1)>>)
  /\ UNCHANGED <<phase, chain, nexts, handler, timer, connected, asked, asking,
                 mail, answers>>

(* callerListening: one ack with a reply subject of its own.               *)
CallerListening ==
  /\ Idle
  /\ Count("ack") <= MaxAcks
  /\ Emit(<<Ack>>)
  /\ UNCHANGED <<phase, chain, nexts, handler, timer, connected, handlerVars>>

(* ask: a fresh inbox is subscribed and flushed, then the query goes out,  *)
(* then the first reply, the timeout or the abort signal ends the wait.    *)
AskSubscribe ==
  /\ Idle
  /\ asked < MaxQuestions
  /\ asked' = asked + 1
  /\ asking' = "subscribed"
  /\ UNCHANGED <<phase, chain, nexts, handler, timer, frames, connected, sent,
                 mail, answers>>

AskPublish ==
  /\ asking = "subscribed"
  /\ asking' = "published"
  /\ Emit(<<Frame("query", asked)>>)
  /\ UNCHANGED <<phase, chain, nexts, handler, timer, connected, sent, asked,
                 mail, answers>>

(* Where the caller's reply to question q goes: the inbox of q.            *)
Inbox(q) == q

(* A reply to question q reaches its inbox; once ask() has unsubscribed,   *)
(* or before it has subscribed, nobody is there.                           *)
Reply(q) ==
  /\ mail' = IF asking # "no" /\ asked = Inbox(q)
             THEN [mail EXCEPT ![Inbox(q)] = @ \cup {q}] ELSE mail
  /\ UNCHANGED <<phase, chain, nexts, handler, timer, frames, connected, sent,
                 asked, asking, answers>>

AskAnswered ==
  /\ asking = "published"
  /\ \E r \in mail[asked] : answers' = [answers EXCEPT ![asked] = r]
  /\ asking' = "no"
  /\ UNCHANGED <<phase, chain, nexts, handler, timer, frames, connected, sent,
                 asked, mail>>

(* Timeout, abort, or a connection that cannot flush: ask() throws.        *)
AskFails ==
  /\ asking # "no"
  /\ asking' = "no"
  /\ UNCHANGED <<phase, chain, nexts, handler, timer, frames, connected, sent,
                 asked, mail, answers>>

HandlerEnds(outcome) ==
  /\ Idle
  /\ handler' = outcome
  /\ UNCHANGED <<phase, chain, nexts, timer, frames, connected, handlerVars>>

(* The host's connection closes for good.                                  *)
Disconnect ==
  /\ connected
  /\ connected' = FALSE
  /\ UNCHANGED <<phase, chain, nexts, handler, timer, frames, handlerVars>>

-----------------------------------------------------------------------------
DispatchStep ==
  \/ Malformed
  \/ Receive
  \/ NotAdmitted
  \/ Admitted
  \/ Dispatched

ChainStep ==
  \/ CallNext
  \/ \E outcome \in {"returned", "threw"} : ChainSettles(outcome)

HandlerStep ==
  \/ SendChunk
  \/ CallerListening
  \/ AskSubscribe
  \/ AskPublish
  \/ AskAnswered
  \/ AskFails
  \/ \E outcome \in {"done", "failed"} : HandlerEnds(outcome)

(* Everything the host does by itself.                                     *)
HostTask ==
  \/ DispatchStep
  \/ ChainStep
  \/ HandlerStep
  \/ Disconnect

HostNext == HostTask \/ KeepAliveTick

(* The caller: any question published may be answered, once or again, at   *)
(* any time.                                                               *)
AnyReply ==
  \E i \in 1..Len(frames) : frames[i].kind = "query" /\ Reply(frames[i].n)

HostSpec == HostInit /\ [][HostNext \/ AnyReply]_hostVars

-----------------------------------------------------------------------------
(* The handler runs once: whatever the interceptors do with next(), a      *)
(* handler that has finished is never run again ("request interceptor      *)
(* called next() more than once").                                         *)
ServedOnce ==
  [][(handler \in {"done", "failed"}) => handler' = handler]_hostVars

(* A complete reply stands: once the handler is done, no failure of an     *)
(* interceptor adds an error frame to what the caller already has.         *)
ReplyStands == [][handler = "done" => (Failed' = Failed)]_hostVars

(* Nothing follows the terminator, neither a chunk nor the keep-alive.     *)
TerminatorIsLast ==
  \A i \in 1..Len(frames) : frames[i].kind = "end" => i = Len(frames)

(* A request refused before the handler ran draws its error and the        *)
(* terminator only: no ack, and no reply afterwards.                       *)
RefusalIsFinal ==
  frames # <<>> /\ frames[1] = Error => frames = <<Error, End>>

(* The keep-alive ends with the stream: dispatchPrompt leaves no timer     *)
(* that could send acks for ever.                                          *)
KeepAliveEndsWithStream == phase = "ended" => ~timer

(* What ask() resolves with is a reply to its own question, never a late   *)
(* reply to an earlier one that timed out.                                 *)
AnswerIsToItsQuestion == \A q \in DOMAIN answers : answers[q] \in {0, q}

(* What goes out on one reply subject, and what its questions get back, is *)
(* a reply a caller can read (service.ts: dispatchPrompt, PromptResponse). *)
ReplyStreamSound == TerminatorIsLast /\ RefusalIsFinal /\ AnswerIsToItsQuestion
=============================================================================
