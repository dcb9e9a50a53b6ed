---------------------------- MODULE PromptExchange ----------------------------
(***************************************************************************)
(* One prompt from end to end: a PromptStream at the caller, dispatchPrompt*)
(* at the host and NATS between them.  NATS keeps the order of what one    *)
(* publisher sends on one subject and delivers it at most once.            *)
(***************************************************************************)
EXTENDS PromptDispatch, PromptStream

CONSTANT
  Lossy       \* messages may be lost (a reconnect, a slow consumer)

ASSUME LossyAssumption == Lossy \in BOOLEAN

VARIABLES
  delivered,  \* how many of the host's frames have left the network
  arrived,    \* those of them that reached the caller's side, in order
  replies,    \* the caller's replies on their way to the host
  replied     \* the questions whose QueryEvent.reply was called

netVars == <<delivered, arrived, replies, replied>>
exchangeVars == <<hostVars, streamVars, netVars>>

ExchangeTypeOK ==
  /\ HostTypeOK
  /\ StreamTypeOK(Frames)
  /\ delivered \in 0..Len(frames)
  /\ arrived \in Seq(Frames)
  /\ replies \subseteq replied
  /\ replied \subseteq Questions

ExchangeInit ==
  /\ HostInit
  /\ StreamInit
  /\ delivered = 0
  /\ arrived = <<>>
  /\ replies = {}
  /\ replied = {}

-----------------------------------------------------------------------------
(* The host acts on the request only once it is published.                 *)
Host ==
  /\ published
  /\ HostNext
  /\ UNCHANGED <<streamVars, netVars>>

Caller ==
  /\ StreamNext
  /\ UNCHANGED <<hostVars, netVars>>

Deliver ==
  /\ delivered < Len(frames)
  /\ delivered' = delivered + 1
  /\ arrived' = Append(arrived, frames[delivered + 1])
  /\ FrameArrives(frames[delivered + 1])
  /\ UNCHANGED <<hostVars, replies, replied>>

Lose ==
  /\ Lossy
  /\ delivered < Len(frames)
  /\ delivered' = delivered + 1
  /\ UNCHANGED <<hostVars, streamVars, arrived, replies, replied>>

(* QueryEvent.reply: once per question shown, whenever the consumer likes, *)
(* also after ask() has given up or the stream has ended.                  *)
ReplyToQuery ==
  /\ \E i \in 1..Len(got) :
       /\ got[i].kind = "query"
       /\ got[i].n \notin replied
       /\ replied' = replied \cup {got[i].n}
       /\ replies' = replies \cup {got[i].n}
  /\ UNCHANGED <<hostVars, streamVars, delivered, arrived>>

(* A reply reaches the host's side, or is lost on its way there.           *)
ReplyArrives ==
  \E q \in replies :
    /\ replies' = replies \ {q}
    /\ Reply(q) \/ (Lossy /\ UNCHANGED hostVars)
    /\ UNCHANGED <<streamVars, delivered, arrived, replied>>

ExchangeNext ==
  \/ Host
  \/ Caller
  \/ Deliver
  \/ Lose
  \/ ReplyToQuery
  \/ ReplyArrives

ExchangeSpec == ExchangeInit /\ [][ExchangeNext]_exchangeVars

-----------------------------------------------------------------------------
(* FAIRNESS.  The event loop resumes every resolved await, a consumer in a *)
(* for-await loop asks for its next item, and prepare() settles.           *)
CallerProgress == StreamProgress /\ UNCHANGED <<hostVars, netVars>>

CallerFairSpec == ExchangeSpec /\ WF_exchangeVars(CallerProgress)

(* At the host, the gate answers, and the application's interceptors and   *)
(* handler return (ask() has its timeout).  No timer is relied on.         *)
HostProgress(A) == published /\ A /\ UNCHANGED <<streamVars, netVars>>

HostFairness ==
  /\ WF_exchangeVars(Deliver)
  /\ WF_exchangeVars(HostProgress(DispatchStep))
  /\ WF_exchangeVars(HostProgress(ChainStep))
  /\ WF_exchangeVars(HostProgress(HandlerStep))

-----------------------------------------------------------------------------
(* The exchange keeps the contract of a reply.                             *)
Ends(fs) == {i \in 1..Len(fs) : fs[i].kind \in {"error", "end"}}

FirstEnd(fs) == CHOOSE i \in Ends(fs) : \A j \in Ends(fs) : i <= j

(* The reply, as far as NATS delivered it: what comes before the error or  *)
(* the terminator, of which the consumer is shown everything, acks as      *)
(* statuses.  Frames carry no number, so a loss shows nowhere.             *)
Content(fs) == IF Ends(fs) = {} THEN fs ELSE SubSeq(fs, 1, FirstEnd(fs) - 1)

Verdict(fs) ==
  IF Ends(fs) = {} THEN "open"
  ELSE IF fs[FirstEnd(fs)].kind = "error" THEN "failed" ELSE "complete"

Told ==
  CASE outcome = "none" -> "nothing"
    [] outcome = "done" -> "done"
    [] outcome = "serviceError" -> "error"
    [] OTHER -> "gaveUp"

ReplyItems ==
  {Ack} \cup {Frame("chunk", n) : n \in 1..MaxChunks} \cup {Frame("query", n) : n \in Questions}

Contract == INSTANCE ReplyContract WITH
  Items <- ReplyItems, produced <- Content(arrived), verdict <- Verdict(arrived),
  shown <- got, told <- Told

(* Whatever the timers, cancels and aborts at either end, the caller sees  *)
(* what arrived of the host's reply in order, is told "done" only of a     *)
(* complete reply of which it has seen all that arrived, and "error" only  *)
(* of a failed one.                                                        *)
KeepsReplyContract == Contract!ContractSpec

(* Once the signal has aborted the consumer sees nothing more, although    *)
(* frames may still be held by the stopped iterator.                       *)
NothingYieldedAfterAbort == [][aborted => got' = got]_exchangeVars

(* Cancelling ends the iteration whatever the host does, at every await it *)
(* may hit: no timer and no message is needed.                             *)
CancelEnds == []<>((cancelled \/ aborted) /\ at # "fresh" => at = "ended")

(* A published prompt is answered: unless a frame is lost or the host's    *)
(* connection closes, every way through dispatchPrompt ends the caller's   *)
(* iteration, and no timer has to.                                         *)
AnswerReachesCaller ==
  HostFairness =>
    []<>(published => (at = "ended" \/ ~connected \/ Len(arrived) < delivered))

(* Nobody keeps the caller: neither a host that goes on after a cancel or  *)
(* an abort, nor one that has nothing more to say.                         *)
CallerIsReleased == NothingYieldedAfterAbort /\ CancelEnds /\ AnswerReachesCaller
=============================================================================
