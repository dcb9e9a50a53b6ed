------------------------------ MODULE PromptStream ------------------------------
(***************************************************************************)
(* The caller's side of one prompt: the PromptStream a caller iterates     *)
(* (client-sdk/typescript/src/stream/prompt-stream.ts, inactivity.ts).     *)
(*                                                                         *)
(* The CONSUMER, the caller's for-await loop, asks for one item at a time; *)
(* the stream prepares and publishes the request on the first, then reads  *)
(* the request's iterator (nats-core's, external: what reaches the reply   *)
(* subject is buffered in order until the iterator is stopped).  cancel(), *)
(* the abort signal and three timers may strike at any await.              *)
(***************************************************************************)
EXTENDS Integers, Sequences

StreamEnds == {"done", "cancelled", "aborted", "broken", "serviceError",
               "stalled", "maxWait", "unsent", "transport"}

VARIABLES
  at,          \* the generator: "fresh", "preparing", "requesting",
               \* "reading", "yielded" or "ended"
  outcome,     \* how the iteration ended, "none" until it has
  cancelled,   \* cancel() was called, or the listener saw the abort
  aborted,     \* the signal is aborted
  published,   \* the request went out
  stopped,     \* the request's iterator takes no more frames
  buffer,      \* frames the iterator holds
  got          \* frames yielded to the consumer, in order

streamVars == <<at, outcome, cancelled, aborted, published, stopped, buffer, got>>

StreamTypeOK(AnyFrame) ==
  /\ at \in {"fresh", "preparing", "requesting", "reading", "yielded", "ended"}
  /\ outcome \in StreamEnds \cup {"none"}
  /\ {cancelled, aborted, published, stopped} \subseteq BOOLEAN
  /\ buffer \in Seq(AnyFrame)
  /\ got \in Seq(AnyFrame)

StreamInit ==
  /\ at = "fresh"
  /\ outcome = "none"
  /\ cancelled = FALSE
  /\ aborted = FALSE
  /\ published = FALSE
  /\ stopped = FALSE
  /\ buffer = <<>>
  /\ got = <<>>

-----------------------------------------------------------------------------
(* The generator returns or throws: its finally block stops the iterator   *)
(* and lets it go, so what it still holds is dropped.                      *)
Finish(how) ==
  /\ at' = "ended"
  /\ outcome' = how
  /\ stopped' = TRUE
  /\ buffer' = <<>>

(* How a stream ends that cancel() or the signal reached before it read.   *)
Refused == IF cancelled THEN "cancelled" ELSE "aborted"

(* What it means that the iterator closed without a terminator.  The abort *)
(* listener sets cancelled too, so the signal is asked first.              *)
Drained ==
  IF aborted THEN "aborted" ELSE IF cancelled THEN "cancelled" ELSE "maxWait"

(* The consumer asks for the first item.                                   *)
Iterate ==
  /\ at = "fresh"
  /\ IF cancelled \/ aborted
     THEN Finish(Refused)
     ELSE at' = "preparing" /\ UNCHANGED <<outcome, stopped, buffer>>
  /\ UNCHANGED <<cancelled, aborted, published, got>>

(* prepare() threw (an interceptor, the size check, the signer), or        *)
(* requestMany could not publish.                                          *)
PrepareFails ==
  /\ at = "preparing"
  /\ Finish("unsent")
  /\ UNCHANGED <<cancelled, aborted, published, got>>

(* prepare() resolved: requestMany publishes, whatever happened meanwhile. *)
Publish ==
  /\ at = "preparing"
  /\ at' = "requesting"
  /\ published' = TRUE
  /\ UNCHANGED <<outcome, cancelled, aborted, stopped, buffer, got>>

(* requestMany resolved: cancel() or the signal may have come first.       *)
Requested ==
  /\ at = "requesting"
  /\ IF cancelled \/ aborted
     THEN Finish(Refused)
     ELSE at' = "reading" /\ UNCHANGED <<outcome, stopped, buffer>>
  /\ UNCHANGED <<cancelled, aborted, published, got>>

(* External: a frame reaches the reply subject.                            *)
FrameArrives(f) ==
  /\ buffer' = IF stopped THEN buffer ELSE Append(buffer, f)
  /\ UNCHANGED <<at, outcome, cancelled, aborted, published, stopped, got>>

Yield(f) ==
  /\ at' = "yielded"
  /\ got' = Append(got, f)
  /\ buffer' = Tail(buffer)
  /\ UNCHANGED <<outcome, stopped>>

(* Fault: the signal is left to the listener.                              *)
TakeUnlessAborted ==
  /\ at = "reading"
  /\ buffer # <<>>
  /\ CASE Head(buffer).kind = "error" -> Finish("serviceError") /\ UNCHANGED got
       [] Head(buffer).kind = "end" -> Finish("done") /\ UNCHANGED got
       [] OTHER -> Yield(Head(buffer))
  /\ UNCHANGED <<cancelled, aborted, published>>

(* Fault: an error frame is one more chunk nobody knows.                   *)
TakeErrorsAsChunks ==
  /\ at = "reading"
  /\ buffer # <<>>
  /\ CASE aborted -> Finish("aborted") /\ UNCHANGED got
       [] ~aborted /\ Head(buffer).kind = "end" -> Finish("done") /\ UNCHANGED got
       [] OTHER -> Yield(Head(buffer))
  /\ UNCHANGED <<cancelled, aborted, published>>

(* it.next() resolves with the oldest frame held, also of an iterator that *)
(* has been stopped.  The terminator is yielded as a "done" status, after  *)
(* which the generator only returns: here it has.                          *)
Take ==
  /\ at = "reading"
  /\ buffer # <<>>
  /\ LET kind == Head(buffer).kind IN
     CASE aborted -> Finish("aborted") /\ UNCHANGED got
       [] ~aborted /\ kind = "error" -> Finish("serviceError") /\ UNCHANGED got
       [] ~aborted /\ kind = "end" -> Finish("done") /\ UNCHANGED got
       [] OTHER -> Yield(Head(buffer))
  /\ UNCHANGED <<cancelled, aborted, published>>

(* The iterator has closed and holds nothing.                              *)
Exhausted ==
  /\ at = "reading"
  /\ stopped
  /\ buffer = <<>>
  /\ Finish(Drained)
  /\ UNCHANGED <<cancelled, aborted, published, got>>

(* The inactivity timer wins the race against it.next().                   *)
Stall ==
  /\ at = "reading"
  /\ ~stopped
  /\ buffer = <<>>
  /\ Finish("stalled")
  /\ UNCHANGED <<cancelled, aborted, published, got>>

(* The iterator throws: no responders, or the connection is gone.          *)
TransportFails ==
  /\ at = "reading"
  /\ ~stopped
  /\ buffer = <<>>
  /\ Finish("transport")
  /\ UNCHANGED <<cancelled, aborted, published, got>>

(* The consumer asks for the next item, or breaks out of its loop.         *)
Resume ==
  /\ at = "yielded"
  /\ at' = "reading"
  /\ UNCHANGED <<outcome, cancelled, aborted, published, stopped, buffer, got>>

Break ==
  /\ at = "yielded"
  /\ Finish("broken")
  /\ UNCHANGED <<cancelled, aborted, published, got>>

(* External: a stopped iterator takes no more frames.  Of those it holds,  *)
(* the batch its consumer is in is still delivered, the rest is dropped.   *)
StopIterator ==
  /\ stopped' = TRUE
  /\ \E kept \in 0..Len(buffer) : buffer' = SubSeq(buffer, 1, kept)

Iterating == at \in {"reading", "yielded"}

Cancel ==
  /\ ~cancelled
  /\ at # "ended"
  /\ cancelled' = TRUE
  /\ IF Iterating THEN StopIterator ELSE UNCHANGED <<stopped, buffer>>
  /\ UNCHANGED <<at, outcome, aborted, published, got>>

(* The signal aborts; the listener is there only while the stream reads.   *)
Abort ==
  /\ ~aborted
  /\ at # "ended"
  /\ aborted' = TRUE
  /\ IF Iterating
     THEN cancelled' = TRUE /\ StopIterator
     ELSE UNCHANGED <<cancelled, stopped, buffer>>
  /\ UNCHANGED <<at, outcome, published, got>>

(* requestMany's maxWait timer stops the iterator.                         *)
MaxWait ==
  /\ Iterating
  /\ ~stopped
  /\ StopIterator
  /\ UNCHANGED <<at, outcome, cancelled, aborted, published, got>>

-----------------------------------------------------------------------------
(* The stream's own progress, which nothing outside it can hold up.        *)
StreamProgress ==
  \/ Publish
  \/ Requested
  \/ Take
  \/ Exhausted
  \/ Resume

StreamTask ==
  \/ StreamProgress
  \/ Iterate
  \/ PrepareFails
  \/ TransportFails
  \/ Break
  \/ Cancel
  \/ Abort
  \/ MaxWait

StreamNext == StreamTask \/ Stall
=============================================================================
