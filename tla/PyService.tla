------------------------------ MODULE PyService ------------------------------
(***************************************************************************)
(* The prompt endpoint of the Python agent service                         *)
(* (agent_service/service.py): asyncio tasks that serve prompts one by one *)
(* in the subscription's task or, above max_concurrent_prompts = 1, each   *)
(* in a task of its own behind a semaphore, the keep-alive task beside     *)
(* each handler, and stop(), which cancels and awaits them.                *)
(*                                                                         *)
(* A cancellation is delivered where a task awaits.  A prompt may call     *)
(* stop() itself, and the service may be started again.                    *)
(***************************************************************************)
EXTENDS Integers, Sequences, FiniteSets, SequencesExt

CONSTANTS
  Prompts,        \* 1..n, numbered as they arrive
  Limits,         \* values of max_concurrent_prompts
  PyStarts,       \* how often the service is started: a bound
  MaxMore,        \* chunks and keep-alives of a stream: a bound
  Outside         \* 0: no prompt; the caller of stop() that is none

ASSUME PyServiceAssumption ==
  /\ \E n \in 0..Cardinality(Prompts) : Prompts = 1..n /\ Outside = 0
  /\ Limits \subseteq Nat \ {0} /\ PyStarts \in Nat \ {0} /\ MaxMore \in Nat

VARIABLES
  limit,        \* max_concurrent_prompts
  phase,        \* of the service: serving, then how far stop() is
  starts,       \* how often it was started
  stopper,      \* who called stop()
  heartbeat,    \* whether the heartbeat task runs
  queue,        \* requests the endpoint's subscription holds
  dispatched,   \* the request the subscription's task is busy with, or Outside
  slots,        \* the free slots of the current semaphore
  stage,        \* per prompt: where it is
  era,          \* per prompt: the start it was taken under
  cancelled,    \* per prompt: a cancellation its task has not seen yet
  keepalive,    \* per prompt: whether its keep-alive task runs
  frames        \* per prompt: what its caller was sent; "more" is a chunk or a keep-alive ack

pyVars == <<limit, phase, starts, stopper, heartbeat, queue, dispatched, slots, stage, era,
            cancelled, keepalive, frames>>

Running == {"admitting", "intercepting", "handling", "failing", "answered", "closing", "ended"}

PyTypeOK ==
  /\ phase \in {"serving", "heartbeat", "gathering", "stopped"}
  /\ starts \in 1..PyStarts /\ slots \in 0..limit
  /\ stopper \in Prompts \cup {Outside} /\ dispatched \in Prompts \cup {Outside}
  /\ stage \in [Prompts -> Running \cup {"away", "queued", "waiting", "granted", "dropped", "gone"}]
  /\ cancelled \in [Prompts -> BOOLEAN] /\ keepalive \in [Prompts -> BOOLEAN]

PyInit ==
  /\ limit \in Limits /\ slots = limit
  /\ phase = "serving" /\ starts = 1 /\ stopper = Outside /\ heartbeat = TRUE
  /\ queue = <<>> /\ dispatched = Outside
  /\ stage = [p \in Prompts |-> "away"]
  /\ era = [p \in Prompts |-> 1]
  /\ cancelled = [p \in Prompts |-> FALSE]
  /\ keepalive = [p \in Prompts |-> FALSE]
  /\ frames = [p \in Prompts |-> <<>>]

Count(f, what) == Cardinality({i \in DOMAIN f : f[i] = what})
Concurrent == limit > 1
Tasks == {p \in Prompts : stage[p] \in Running}
To(p, where) == stage' = [stage EXCEPT ![p] = where]
Send(p, frame) == frames' = [frames EXCEPT ![p] = Append(@, frame)]

service   == <<limit, phase, starts, stopper, heartbeat>>
intake    == <<queue, dispatched, slots, era>>
prompting == <<stage, cancelled, keepalive, frames>>

-----------------------------------------------------------------------------
(* The endpoint. *)

PromptArrives(p) ==
  /\ phase \in {"serving", "heartbeat"} /\ stage[p] = "away"
  /\ \A earlier \in 1..(p - 1) : stage[earlier] # "away"
  /\ To(p, "queued") /\ queue' = Append(queue, p)
  /\ UNCHANGED <<service, dispatched, slots, era, cancelled, keepalive, frames>>

\* The subscription's task takes the next request when the handler it called
\* for the one before has returned: at once, above 1, when a slot was free.
TakeRequest ==
  /\ phase \in {"serving", "heartbeat"} /\ dispatched = Outside /\ queue # <<>>
  /\ LET p == Head(queue)
         free == ~Concurrent \/ slots > 0
     IN /\ queue' = Tail(queue)
        /\ era' = [era EXCEPT ![p] = starts]
        /\ To(p, IF free THEN "admitting" ELSE "waiting")
        /\ slots' = IF Concurrent /\ free THEN slots - 1 ELSE slots
        /\ dispatched' = IF Concurrent /\ free THEN Outside ELSE p
  /\ UNCHANGED <<service, cancelled, keepalive, frames>>

\* The dispatcher goes on with the slot it was given.
SlotTaken(p) ==
  /\ stage[p] = "granted" /\ phase \in {"serving", "heartbeat"}
  /\ To(p, "admitting") /\ dispatched' = Outside
  /\ UNCHANGED <<service, queue, slots, era, cancelled, keepalive, frames>>

\* release(): to the dispatcher that waits, else back to the free ones.
Released(where, free) ==
  LET waits == {p \in Prompts : where[p] = "waiting"} IN
  IF waits = {} THEN stage' = where /\ slots' = free + 1
  ELSE stage' = [where EXCEPT ![CHOOSE p \in waits : TRUE] = "granted"] /\ slots' = free

\* _prompt_task_done: the slot goes back to the semaphore it came from.
TaskDone(p) ==
  /\ stage[p] = "ended"
  /\ LET where == [stage EXCEPT ![p] = "gone"] IN
     IF Concurrent /\ era[p] = starts THEN Released(where, slots)
     ELSE stage' = where /\ UNCHANGED slots
  /\ dispatched' = IF dispatched = p THEN Outside ELSE dispatched
  /\ UNCHANGED <<service, queue, era, cancelled, keepalive, frames>>

-----------------------------------------------------------------------------
(* _on_prompt_request. *)

\* The envelope and the sender gate: go on, or an error frame and the end.
AdmitPrompt(p) ==
  /\ stage[p] = "admitting" /\ ~cancelled[p]
  /\ \/ To(p, "intercepting") /\ UNCHANGED frames
     \/ To(p, "closing") /\ Send(p, "error")
  /\ UNCHANGED <<service, intake, cancelled, keepalive>>

\* The request interceptors: the innermost call_next() acks and starts the
\* handler; one that refuses, or never calls it, fails the request.
Intercepted(p) ==
  /\ stage[p] = "intercepting" /\ ~cancelled[p]
  /\ \/ To(p, "handling") /\ Send(p, "ack") /\ keepalive' = [keepalive EXCEPT ![p] = TRUE]
     \/ To(p, "failing") /\ UNCHANGED <<frames, keepalive>>
  /\ UNCHANGED <<service, intake, cancelled>>

HandlerSends(p) ==
  /\ stage[p] = "handling" /\ Count(frames[p], "more") < MaxMore
  /\ Send(p, "more")
  /\ UNCHANGED <<service, intake, stage, cancelled, keepalive>>

\* The handler returns, and then no failure is the caller's; or it raises.
HandlerEnds(p) ==
  /\ stage[p] = "handling" /\ ~cancelled[p] /\ ~(stopper = p /\ phase \notin {"serving", "stopped"})
  /\ \E how \in {"answered", "failing"} : To(p, how)
  /\ UNCHANGED <<service, intake, cancelled, keepalive, frames>>

KeepAlive(p) ==
  /\ keepalive[p] /\ Count(frames[p], "more") < MaxMore
  /\ Send(p, "more")
  /\ UNCHANGED <<service, intake, stage, cancelled, keepalive>>

\* The keep-alive task is cancelled and awaited before the error frame; a
\* cancellation that comes meanwhile is swallowed with the keep-alive's own.
KeepAliveStopped(p) ==
  /\ stage[p] \in {"failing", "answered"}
  /\ keepalive' = [keepalive EXCEPT ![p] = FALSE]
  /\ cancelled' = [cancelled EXCEPT ![p] = FALSE]
  /\ To(p, "closing")
  /\ IF stage[p] = "failing" THEN Send(p, "error") ELSE UNCHANGED frames
  /\ UNCHANGED <<service, intake>>

\* CancelledError where the task awaits the gate, an interceptor or the
\* handler: no error frame, straight to the `finally`.
Cancelled(p) ==
  /\ stage[p] \in {"admitting", "intercepting", "handling"} /\ cancelled[p]
  /\ cancelled' = [cancelled EXCEPT ![p] = FALSE]
  /\ To(p, "closing")
  /\ UNCHANGED <<service, intake, keepalive, frames>>

\* Fault: the `finally` leaves the keep-alive task to the other paths.
TerminateOnly(p) ==
  /\ stage[p] = "closing"
  /\ Send(p, "end") /\ To(p, "ended")
  /\ UNCHANGED <<service, intake, cancelled, keepalive>>

\* The `finally`: whatever happened, the keep-alive is over and the terminator is out.
Terminate(p) ==
  /\ stage[p] = "closing"
  /\ keepalive' = [keepalive EXCEPT ![p] = FALSE]
  /\ Send(p, "end") /\ To(p, "ended")
  /\ UNCHANGED <<service, intake, cancelled>>

-----------------------------------------------------------------------------
(* stop() and start(). *)

\* By anyone, or by a handler; in the subscription's own task that would be
\* cancelled by its own call.
StopCalled(by) ==
  /\ phase = "serving"
  /\ by # Outside => Concurrent /\ stage[by] = "handling" /\ ~cancelled[by]
  /\ phase' = "heartbeat" /\ stopper' = by
  /\ UNCHANGED <<limit, starts, heartbeat, intake, prompting>>

\* stop() has awaited the publisher's last beat.  The endpoint goes and its
\* task is cancelled: what is queued or waits for a slot gets no reply, a slot
\* just given goes back; at 1 the prompt in flight is cancelled with the task.
\* Above 1 the prompts' own tasks are cancelled.
Unsubscribed ==
  /\ phase = "heartbeat"
  /\ heartbeat' = FALSE /\ queue' = <<>>
  /\ stage' = [p \in Prompts |-> IF stage[p] \in {"queued", "waiting", "granted"} THEN "dropped" ELSE stage[p]]
  /\ slots' = slots + Cardinality({p \in Prompts : stage[p] = "granted"})
  /\ cancelled' = [p \in Prompts |->
       cancelled[p] \/ (stage[p] \in Running \ {"ended"} /\ p # stopper)]
  /\ dispatched' = IF Concurrent THEN Outside ELSE dispatched
  /\ phase' = IF Concurrent /\ Tasks # {} THEN "gathering" ELSE "stopped"
  /\ UNCHANGED <<limit, starts, stopper, era, keepalive, frames>>

\* Fault: stop() waits for the prompt that called it as well.
GatheredEvery ==
  /\ phase = "gathering" /\ Tasks = {}
  /\ phase' = "stopped"
  /\ UNCHANGED <<limit, starts, stopper, heartbeat, intake, prompting>>

\* gather(): every task but the one that called stop().
Gathered ==
  /\ phase = "gathering" /\ Tasks \subseteq {stopper}
  /\ phase' = "stopped"
  /\ UNCHANGED <<limit, starts, stopper, heartbeat, intake, prompting>>

\* start() again: a new semaphore.
StartAgain ==
  /\ phase = "stopped" /\ starts < PyStarts
  /\ phase' = "serving" /\ starts' = starts + 1 /\ heartbeat' = TRUE
  /\ slots' = limit /\ stopper' = Outside /\ dispatched' = Outside
  /\ UNCHANGED <<limit, queue, era, prompting>>

PromptSteps(p) ==
  \/ AdmitPrompt(p) \/ Intercepted(p) \/ HandlerEnds(p) \/ KeepAliveStopped(p)
  \/ Cancelled(p) \/ Terminate(p) \/ TaskDone(p) \/ SlotTaken(p)

StopSteps == Unsubscribed \/ Gathered

PyNext ==
  \/ \E p \in Prompts : PromptArrives(p) \/ PromptSteps(p) \/ HandlerSends(p) \/ KeepAlive(p)
  \/ TakeRequest \/ StopSteps \/ StartAgain
  \/ \E by \in Prompts \cup {Outside} : StopCalled(by)

\* Tasks that can go on do, and handlers end when they are cancelled; a handler
\* that is not may run for ever.
PyFairness ==
  /\ \A p \in Prompts : WF_pyVars(Cancelled(p) \/ KeepAliveStopped(p) \/ Terminate(p) \/ TaskDone(p)
                                  \/ SlotTaken(p))
  /\ WF_pyVars(StopSteps) /\ WF_pyVars(TakeRequest)

PySpec == PyInit /\ [][PyNext]_pyVars /\ PyFairness

-----------------------------------------------------------------------------

\* A caller gets nothing after the terminator, and nothing between an error
\* frame and the terminator, whoever was cancelled where; a stream that was
\* acked begins with the ack.
StreamsEndOnce ==
  \A p \in Prompts : LET f == frames[p] IN
    /\ \A i \in DOMAIN f : f[i] = "end" => i = Len(f)
    /\ \A i \in DOMAIN f : f[i] = "error" => Len(f) <= i + 1
    /\ stage[p] \in {"ended", "gone"} <=> (f # <<>> /\ Last(f) = "end")
    /\ (\E i \in DOMAIN f : f[i] = "more") => f[1] = "ack"

\* No slot is lost or invented, whether its task ended, was cancelled, or was
\* still waiting for it when stop() came.
SlotsConserved ==
  Concurrent =>
    slots + Cardinality({p \in Prompts : era[p] = starts /\ stage[p] \in Running \cup {"granted"}})
      = limit

\* When stop() has returned, the prompts that had begun have their terminator,
\* but the one that called it, and no other begins (above 1).
StopIsComplete ==
  phase = "stopped" /\ Concurrent =>
    /\ Tasks \subseteq {stopper} /\ ~heartbeat
    /\ \A p \in Prompts : stage[p] \notin {"queued", "waiting", "granted"}

\* stop() returns, and what it cancelled ends.
StopReturns ==
  LET Over == phase \in {"serving", "stopped"} /\ \A p \in Prompts : cancelled[p] => stage[p] = "gone"
  IN  []<>Over

\* However a prompt's task ends, its stream, its slot and stop() know of it
\* (service.py: the dispatch task's finally, _cancel_prompt_tasks).
TasksLeaveNothing == StreamsEndOnce /\ SlotsConserved /\ StopIsComplete
=============================================================================
