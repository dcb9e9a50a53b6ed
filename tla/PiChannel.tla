------------------------------- MODULE PiChannel -------------------------------
(***************************************************************************)
(* The channel between AgentService and an interactive PI session          *)
(* (agents/pi/extensions: nats-channel.ts, prompt-queue.ts,                *)
(* local-turns.ts).                                                        *)
(*                                                                         *)
(* Prompts from NATS queue for the session, which works on one run at a    *)
(* time; its user types runs of their own.  PI is foreign code that the    *)
(* channel knows from its events: it takes an injected prompt some time    *)
(* after sendUserMessage() returned, may refuse it without a word, and is  *)
(* idle again before the channel hears that a run has settled.             *)
(***************************************************************************)
EXTENDS Integers, Sequences, FiniteSets

CONSTANTS
  Prompts,      \* the prompts callers send
  User,         \* who types at the terminal
  None,         \* no prompt
  MaxTyped,     \* bound: runs the user starts
  MaxThrows,    \* bound: calls of sendUserMessage() that throw
  MaxRefusals   \* bound: injections PI refuses

ASSUME PiAssumption ==
  /\ IsFiniteSet(Prompts) /\ User \notin Prompts /\ None \notin Prompts
  /\ {MaxTyped, MaxThrows, MaxRefusals} \subseteq Nat

VARIABLES
  phase,      \* "up", "closing" once cleanup() has failed what was pending,
              \* "stopped" once the service is
  state,      \* of each prompt: not sent, in #pending, or how it was settled
  arrived,    \* the prompts in the order they were enqueued: their createdAt
  queue,      \* #queued
  active,     \* #activeId
  local,      \* a local turn is open
  retry,      \* injectionRetryTimer is armed
  flushing,   \* agent_settled handlers between the settling and the drain
  throws      \* how often sendUserMessage() threw

channelVars == <<phase, state, arrived, queue, active, local, retry, flushing, throws>>

VARIABLES
  pi,         \* "idle" (isIdle()), "begun", or "running" after agent_start
  run,        \* whose input the current run works on
  settled,    \* the run whose agent_settled is under way, {} for none
  injected,   \* prompts handed to PI that it has not decided on
  refused,    \* prompts it has refused
  typed       \* how many runs the user started

piVars == <<pi, run, settled, injected, refused, typed>>
vars == <<channelVars, piVars>>

TypeOK ==
  /\ phase \in {"up", "closing", "stopped"}
  /\ state \in [Prompts -> {"new", "pending", "answered", "failed"}]
  /\ arrived \in Seq(Prompts) /\ queue \in Seq(Prompts)
  /\ active \in Prompts \cup {None}
  /\ {local, retry} \subseteq BOOLEAN
  /\ {flushing, throws, typed} \subseteq Nat
  /\ pi \in {"idle", "begun", "running"}
  /\ {run, settled} \subseteq SUBSET (Prompts \cup {User})
  /\ {injected, refused} \subseteq SUBSET Prompts

Init ==
  /\ phase = "up" /\ state = [p \in Prompts |-> "new"]
  /\ arrived = <<>> /\ queue = <<>> /\ active = None
  /\ local = FALSE /\ retry = FALSE /\ flushing = 0 /\ throws = 0
  /\ pi = "idle" /\ run = {} /\ settled = {}
  /\ injected = {} /\ refused = {} /\ typed = 0

-----------------------------------------------------------------------------
(* The queue (prompt-queue.ts).                                            *)

Rest(q, k) == SubSeq(q, k, Len(q))

(* Fault: a deferred prompt goes to the end of the queue.                  *)
PutBackLast(q, k) == Append(Rest(q, k + 1), q[k])

(* requeueActive: the deferred prompt is the head again.                   *)
PutBack(q, k) == Rest(q, k)

(* When drainQueue hands a prompt over.                                    *)
MayHandOver == active = None /\ ~local /\ pi = "idle"

(* drainQueue, with the queue q, the prompts' states st and the retry      *)
(* timer armed or not.  takeNext() drops what has expired in the queue;    *)
(* prompts whose attachments cannot be staged fail; the first that can be  *)
(* is handed over, or put back if sendUserMessage() throws.                *)
Drain(st, q, armed) ==
  \/ /\ ~MayHandOver
     /\ state' = st /\ queue' = q /\ retry' = armed
     /\ UNCHANGED <<active, injected, throws>>
  \/ /\ MayHandOver
     /\ \E k \in 1..Len(q) + 1 :
          /\ state' = [p \in Prompts |->
                         IF st[p] = "pending" /\ \E i \in 1..k - 1 : q[i] = p
                         THEN "failed" ELSE st[p]]
          /\ \/ /\ k > Len(q)
                /\ queue' = <<>> /\ retry' = armed
                /\ UNCHANGED <<active, injected, throws>>
             \/ /\ k <= Len(q) /\ st[q[k]] = "pending"
                /\ queue' = Rest(q, k + 1)
                /\ active' = q[k]
                /\ injected' = injected \cup {q[k]}
                /\ retry' = armed
                /\ UNCHANGED throws
             \/ /\ k <= Len(q) /\ st[q[k]] = "pending" /\ throws < MaxThrows
                /\ queue' = PutBack(q, k)
                /\ retry' = TRUE
                /\ throws' = throws + 1
                /\ UNCHANGED <<active, injected>>

(* The service's prompt handler: it waits for what settles the prompt.     *)
(* Nothing asks whether the session is shutting down.                      *)
OnPrompt(p) ==
  /\ phase # "stopped"
  /\ state[p] = "new"
  /\ arrived' = Append(arrived, p)
  /\ Drain([state EXCEPT ![p] = "pending"], Append(queue, p), retry)
  /\ UNCHANGED <<phase, local, flushing, pi, run, settled, refused, typed>>

(* The 250 ms after a throw are over.                                      *)
RetryInjection ==
  /\ retry
  /\ Drain(state, queue, FALSE)
  /\ UNCHANGED <<phase, arrived, local, flushing, pi, run, settled, refused, typed>>

(* In #pending, and not active.                                            *)
Waiting == {p \in Prompts : state[p] = "pending" /\ p # active}

(* The prune interval: whatever waits since before the cutoff is rejected. *)
Expire ==
  /\ phase # "stopped"
  /\ \E n \in 1..Len(arrived) :
       LET old == {arrived[i] : i \in 1..n} \cap Waiting
       IN /\ old # {}
          /\ state' = [p \in Prompts |-> IF p \in old THEN "failed" ELSE state[p]]
  /\ UNCHANGED <<phase, arrived, queue, active, local, retry, flushing, throws, piVars>>

(* session_shutdown and the first half of cleanup(): everything pending is *)
(* failed.  The service is stopped some awaits later.                      *)
Shutdown ==
  /\ phase = "up"
  /\ phase' = "closing"
  /\ state' = [p \in Prompts |-> IF state[p] = "pending" THEN "failed" ELSE state[p]]
  /\ queue' = <<>> /\ active' = None
  /\ local' = FALSE /\ retry' = FALSE
  /\ UNCHANGED <<arrived, flushing, throws, piVars>>

(* service.stop(), after the extensions' stop hooks and a flush.           *)
ServiceStopped ==
  /\ phase = "closing"
  /\ phase' = "stopped"
  /\ UNCHANGED <<state, arrived, queue, active, local, retry, flushing, throws, piVars>>

-----------------------------------------------------------------------------
(* PI, and the channel's handlers of its events.                           *)

(* PI starts on a prompt it was given, or, with a run under way, adds it   *)
(* to the run.                                                             *)
Takes(p) ==
  /\ p \in injected
  /\ injected' = injected \ {p}
  /\ run' = run \cup {p}
  /\ pi' = IF pi = "idle" THEN "begun" ELSE pi
  /\ UNCHANGED <<channelVars, settled, refused, typed>>

(* PI refuses it, and tells only its own log.                              *)
Refuses(p) ==
  /\ p \in injected
  /\ Cardinality(refused) < MaxRefusals
  /\ injected' = injected \ {p}
  /\ refused' = refused \cup {p}
  /\ UNCHANGED <<channelVars, pi, run, settled, typed>>

(* The user types: a run of its own, or more input for the current one.    *)
Types ==
  /\ phase # "stopped"
  /\ typed < MaxTyped
  /\ typed' = typed + 1
  /\ run' = run \cup {User}
  /\ pi' = IF pi = "idle" THEN "begun" ELSE pi
  /\ UNCHANGED <<channelVars, settled, injected, refused>>

(* Fault: a run of the session opens a local turn whoever started it.      *)
OpensAnyTurn == ~local

(* PiLocalTurns.start: no prompt is active and no local turn open.         *)
OpensTurn == ~local /\ active = None

(* agent_start, at the start of a run and whenever PI continues it.  PI    *)
(* reports the end of one run before the start of the next.                *)
AgentStart ==
  /\ pi \in {"begun", "running"}
  /\ settled = {}
  /\ pi' = "running"
  /\ local' = (local \/ OpensTurn)
  /\ UNCHANGED <<phase, state, arrived, queue, active, retry, flushing, throws,
                 run, settled, injected, refused, typed>>

(* The run is over and PI idle; its agent_settled is not delivered yet.    *)
(* What was injected PI has taken or refused by then.                      *)
RunSettles ==
  /\ pi = "running"
  /\ injected = {}
  /\ pi' = "idle"
  /\ settled' = run
  /\ run' = {}
  /\ UNCHANGED <<channelVars, injected, refused, typed>>

(* Fault: the handler leaves it to the next arrival to drain the queue.    *)
AgentSettledOnly ==
  /\ settled # {}
  /\ settled' = {}
  /\ local' = FALSE
  /\ active' = None
  /\ state' = IF active = None THEN state ELSE [state EXCEPT ![active] = "answered"]
  /\ UNCHANGED <<phase, arrived, queue, retry, flushing, throws, pi, run, injected,
                 refused, typed>>

(* agent_settled: the local turn closes, the active prompt is completed,   *)
(* and the service is given the time to send its terminator.               *)
AgentSettled ==
  /\ settled # {}
  /\ settled' = {}
  /\ local' = FALSE
  /\ active' = None
  /\ state' = IF active = None THEN state ELSE [state EXCEPT ![active] = "answered"]
  /\ flushing' = flushing + 1
  /\ UNCHANGED <<phase, arrived, queue, retry, throws, pi, run, injected, refused,
                 typed>>

(* Its flush is through: the next prompt.                                  *)
Flushed ==
  /\ flushing > 0
  /\ flushing' = flushing - 1
  /\ Drain(state, queue, retry)
  /\ UNCHANGED <<phase, arrived, local, pi, run, settled, refused, typed>>

-----------------------------------------------------------------------------
Next ==
  \/ \E p \in Prompts : OnPrompt(p) \/ Takes(p) \/ Refuses(p)
  \/ RetryInjection \/ Expire \/ Shutdown \/ ServiceStopped
  \/ Types \/ AgentStart \/ RunSettles \/ AgentSettled \/ Flushed

Spec == Init /\ [][Next]_vars

(* Timers fire and handlers resume; PI decides on what it is given, and    *)
(* its runs end.  Nobody has to type, and nothing has to expire.           *)
Fairness ==
  /\ WF_vars(RetryInjection) /\ WF_vars(Flushed)
  /\ WF_vars(AgentStart) /\ WF_vars(RunSettles) /\ WF_vars(AgentSettled)
  /\ \A p \in Prompts : WF_vars(Takes(p) \/ Refuses(p))

FairSpec == Spec /\ Fairness

-----------------------------------------------------------------------------
(* "A NATS prompt never starts inside a local turn" (local-turns.ts): the  *)
(* two never overlap, though PI is idle before the channel hears that the  *)
(* local run has settled.                                                  *)
OneTurnAtATime == ~(local /\ active # None)

(* A prompt is completed by the end of a run that worked on it; only one   *)
(* PI refused may be completed by another's (README of agents/pi: refused  *)
(* injections).                                                            *)
AnsweredByItsRun ==
  \A p \in Prompts :
    (phase = "up" /\ state[p] = "pending" /\ state'[p] = "answered")
      => p \in settled \cup refused

(* Prompts are handed to PI in the order they arrived, though some expire, *)
(* some cannot be staged and some are put back.                            *)
HandedInOrder ==
  \A i, j \in 1..Len(arrived') :
    (i < j /\ active # arrived'[j] /\ active' = arrived'[j])
      => state'[arrived'[i]] # "pending"

(* Prompts get their own answers, and in the order they came               *)
(* (nats-channel.ts, local-turns.ts).                                      *)
PromptsAreServed == [][AnsweredByItsRun /\ HandedInOrder]_vars

(* No prompt waits for ever, unless PI refused an injection or the session *)
(* shuts down: neither a throwing sendUserMessage() nor a local run costs  *)
(* the queue its next drain.                                               *)
PromptSettles ==
  []<>(refused # {} \/ phase # "up" \/ \A p \in Prompts : state[p] # "pending")

(* "Requests that ... remain during shutdown are explicitly settled        *)
(* instead of being silently dropped" (README of agents/pi): once the      *)
(* service is stopped none is pending.                                     *)
ShutdownSettles == phase = "stopped" => \A p \in Prompts : state[p] # "pending"
=============================================================================
