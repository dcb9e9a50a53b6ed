------------------------------- MODULE SelfId -------------------------------
(***************************************************************************)
(* The memo of a connection's own agent ID (identity/self-id.ts), the      *)
(* IdentityContext that plans a request's sender header from it            *)
(* (identity/context.ts), and the prompts of agent.ts, which plan twice:   *)
(* when they are made, to bound their size, and when they are published.   *)
(*                                                                         *)
(* The memo has one entry per identity source: a lookup in flight, shared  *)
(* by whoever asks, and what the last one settled to.  A connection that   *)
(* reconnects may be another user's: the server sessions of one            *)
(* connection are numbered, and an agent ID is the number of the session   *)
(* that answered.  The listener of status events hears of a reconnect some *)
(* time after it, and drops every entry: a lookup still in flight settles  *)
(* into an entry nobody reaches any more.                                  *)
(***************************************************************************)
EXTENDS Integers, FiniteSets

CONSTANTS
  Signers,        \* the signers configured on the connection's clients
  Unsigned,       \* the identity source of a client without one
  Prompts,
  Slots,          \* lookups that can be in flight at once: a bound
  MaxReconnects,  \* a bound
  None            \* no lookup, no answer, no header

Sources  == Signers \cup {Unsigned}
Sessions == 0..MaxReconnects

\* An entry is named by its source and by the reconnect that made room for it.
Lookup == [source : Sources, entry : Sessions, session : Sessions]

ASSUME SelfIdAssumption ==
  /\ Unsigned \notin Signers
  /\ MaxReconnects \in Nat
  /\ Slots \subseteq Nat /\ IsFiniteSet(Slots)
  /\ None \notin Sessions \cup Slots \cup Lookup

VARIABLES
  session,   \* the server session the connection is in
  heard,     \* the session the status listener knows of
  memo,      \* per source: its ID, its failure and the lookup in flight
  lookups,   \* per slot: the lookup's source, entry and session
  pc,        \* per prompt: how far it is
  source,    \* per prompt: its client's identity source
  plan,      \* per prompt: the ID of its header, or None
  awaits     \* per prompt: the lookup it awaits

vars == <<session, heard, memo, lookups, pc, source, plan, awaits>>

\* A failure is remembered for SELF_ID_NEGATIVE_TTL_MS, then it has expired.
Entry == [id : Sessions \cup {None}, failure : {"no", "remembered", "expired"},
          inflight : Slots \cup {None}]

Empty == [id |-> None, failure |-> "no", inflight |-> None]

SelfIdTypeOK ==
  /\ session \in Sessions /\ heard \in 0..session
  /\ memo \in [Sources -> Entry]
  /\ lookups \in [Slots -> Lookup \cup {None}]
  /\ pc \in [Prompts -> {"new", "sizing", "held", "planning", "planned",
                         "published", "refused"}]
  /\ source \in [Prompts -> Sources]
  /\ plan \in [Prompts -> Sessions \cup {None}]
  /\ awaits \in [Prompts -> Slots \cup {None}]

Init ==
  /\ session = 0 /\ heard = 0
  /\ memo = [s \in Sources |-> Empty]
  /\ lookups = [l \in Slots |-> None]
  /\ pc = [p \in Prompts |-> "new"]
  /\ source \in [Prompts -> Sources]
  /\ plan = [p \in Prompts |-> None]
  /\ awaits = [p \in Prompts |-> None]

(***************************************************************************)
(* The memo.                                                               *)
(***************************************************************************)
FreeSlots == {l \in Slots : lookups[l] = None}
FirstFree == CHOOSE f \in FreeSlots : \A k \in FreeSlots : f <= k

\* startLookup: one request at a time for an entry, whoever asks.
StartLookup(s) ==
  \/ /\ memo[s].inflight # None
     /\ UNCHANGED <<memo, lookups>>
  \/ /\ memo[s].inflight = None
     /\ FreeSlots # {}
     /\ lookups' = [lookups EXCEPT
          ![FirstFree] = [source |-> s, entry |-> heard, session |-> session]]
     /\ memo' = [memo EXCEPT ![s].inflight = FirstFree]

\* Fault: a lookup that once failed is not started again.
KickoffOnce(s) ==
  /\ memo[s].id = None /\ memo[s].failure = "no"
  /\ memo[s].inflight = None
  /\ StartLookup(s)
  /\ UNCHANGED <<session, heard, pc, source, plan, awaits>>

\* discover(): start a lookup unless the memo already has an answer.
Kickoff(s) ==
  /\ memo[s].id = None /\ memo[s].failure # "remembered"
  /\ memo[s].inflight = None
  /\ StartLookup(s)
  /\ UNCHANGED <<session, heard, pc, source, plan, awaits>>

\* refreshSelfId: forget the answer and ask again, unless a lookup is asking.
Refresh(s) ==
  /\ memo[s].inflight = None
  /\ FreeSlots # {}
  /\ lookups' = [lookups EXCEPT
       ![FirstFree] = [source |-> s, entry |-> heard, session |-> session]]
  /\ memo' = [memo EXCEPT ![s] = [Empty EXCEPT !.inflight = FirstFree]]
  /\ UNCHANGED <<session, heard, pc, source, plan, awaits>>

Expire(s) ==
  /\ memo[s].failure = "remembered"
  /\ memo' = [memo EXCEPT ![s].failure = "expired"]
  /\ UNCHANGED <<session, heard, lookups, pc, source, plan, awaits>>

Settled(outcome) ==
  [id |-> outcome, failure |-> IF outcome = None THEN "remembered" ELSE "no",
   inflight |-> None]

After(at) == IF at = "sizing" THEN "held" ELSE "planned"

\* Fault: the answer is stored under its source, whatever entry is there now.
SettleBySource(l, outcome) ==
  LET lookup  == lookups[l]
      waiting == {p \in Prompts : awaits[p] = l}
      dropped(p) == outcome = None /\ source[p] \in Signers
  IN  /\ lookup # None
      /\ lookups' = [lookups EXCEPT ![l] = None]
      /\ memo' = [memo EXCEPT ![lookup.source] =
                         Settled(outcome)]
      /\ pc' = [p \in Prompts |->
                  IF p \notin waiting THEN pc[p]
                  ELSE IF dropped(p) THEN "refused" ELSE After(pc[p])]
      /\ plan' = [p \in Prompts |->
                  IF p \notin waiting THEN plan[p]
                  ELSE outcome]
      /\ awaits' = [p \in Prompts |-> IF p \in waiting THEN None ELSE awaits[p]]
      /\ UNCHANGED <<session, heard, source>>

(***************************************************************************)
(* A lookup settles its entry, if the entry is still the memo's, and the   *)
(* prompts awaiting it go on: with the ID; without a header, when it       *)
(* failed and no signer is configured; or not at all.  None is a failure.  *)
(***************************************************************************)
Settle(l, outcome) ==
  LET lookup  == lookups[l]
      waiting == {p \in Prompts : awaits[p] = l}
      dropped(p) == outcome = None /\ source[p] \in Signers
  IN  /\ lookup # None
      /\ lookups' = [lookups EXCEPT ![l] = None]
      /\ memo' = IF lookup.entry = heard
                 THEN [memo EXCEPT ![lookup.source] =
                         Settled(outcome)]
                 ELSE memo
      /\ pc' = [p \in Prompts |->
                  IF p \notin waiting THEN pc[p]
                  ELSE IF dropped(p) THEN "refused" ELSE After(pc[p])]
      /\ plan' = [p \in Prompts |->
                  IF p \notin waiting THEN plan[p]
                  ELSE outcome]
      /\ awaits' = [p \in Prompts |-> IF p \in waiting THEN None ELSE awaits[p]]
      /\ UNCHANGED <<session, heard, source>>

\* The reply arrives on the session the request went out on, or never.
Answered(l) ==
  /\ lookups[l] # None
  /\ lookups[l].session = session
  /\ Settle(l, session)

\* No responder, no permission, no reply in time, or not the signer's user.
Fails(l) == Settle(l, None)

Reconnect ==
  /\ session < MaxReconnects
  /\ session' = session + 1
  /\ UNCHANGED <<heard, memo, lookups, pc, source, plan, awaits>>

\* entriesFor's listener: a reconnect event clears every source.
Hear ==
  /\ heard < session
  /\ heard' = heard + 1
  /\ memo' = [s \in Sources |-> Empty]
  /\ UNCHANGED <<session, lookups, pc, source, plan, awaits>>

(***************************************************************************)
(* The prompts.                                                            *)
(***************************************************************************)
PlanWith(p, header, at) ==
  /\ plan' = [plan EXCEPT ![p] = header]
  /\ pc' = [pc EXCEPT ![p] = After(at)]
  /\ UNCHANGED <<memo, lookups, awaits>>

\* resolveForRequest: the header's identity, from the memo or a lookup.
ResolveForRequest(p, at) ==
  LET s == source[p]
      entry == memo[s]
  IN  /\ \/ /\ entry.id # None
            /\ PlanWith(p, entry.id, at)
         \/ /\ entry.failure = "remembered" /\ s = Unsigned
            /\ PlanWith(p, None, at)
         \/ /\ entry.failure = "remembered" /\ s \in Signers
            /\ pc' = [pc EXCEPT ![p] = "refused"]
            /\ UNCHANGED <<memo, lookups, plan, awaits>>
         \/ /\ entry.failure = "expired" /\ s = Unsigned
            /\ plan' = [plan EXCEPT ![p] = None]
            /\ pc' = [pc EXCEPT ![p] = After(at)]
            /\ StartLookup(s)
            /\ UNCHANGED awaits
         \/ /\ entry.id = None
            /\ entry.failure = "no" \/ (entry.failure = "expired" /\ s \in Signers)
            /\ StartLookup(s)
            /\ awaits' = [awaits EXCEPT ![p] = memo'[s].inflight]
            /\ pc' = [pc EXCEPT ![p] = at]
            /\ UNCHANGED plan
      /\ UNCHANGED <<session, heard, source>>

\* prompt() plans a header to know the size of the request.
Prompt(p) ==
  /\ pc[p] = "new"
  /\ ResolveForRequest(p, "sizing")

\* prepareAtPublish, on the stream's first iteration, plans it again ...
Iterate(p) ==
  /\ pc[p] = "held"
  /\ ResolveForRequest(p, "planning")

\* ... and runs the interceptors and the signer before the stream publishes.
Publish(p) ==
  /\ pc[p] = "planned"
  /\ pc' = [pc EXCEPT ![p] = "published"]
  /\ UNCHANGED <<session, heard, memo, lookups, source, plan, awaits>>

Next ==
  \/ \E s \in Sources : Kickoff(s) \/ Refresh(s) \/ Expire(s)
  \/ \E l \in Slots : Answered(l) \/ Fails(l)
  \/ Reconnect
  \/ Hear
  \/ \E p \in Prompts : Prompt(p) \/ Iterate(p) \/ Publish(p)

Spec == Init /\ [][Next]_vars

\* A lookup of this source gets its answer.
AnsweredFor(s) == \E l \in Slots : Answered(l) /\ lookups[l].source = s

(***************************************************************************)
(* The listener runs, a request ends by its timeout, the TTL passes, some  *)
(* client goes on discovering, and the server does not fail every lookup   *)
(* of a source for ever.                                                   *)
(***************************************************************************)
Fairness ==
  /\ WF_vars(Hear)
  /\ \A l \in Slots : WF_vars(Answered(l) \/ Fails(l))
  /\ \A s \in Sources : WF_vars(Kickoff(s)) /\ WF_vars(Expire(s))
                        /\ SF_vars(AnsweredFor(s))

FairSpec == Spec /\ Fairness

(***************************************************************************)
(* Properties.                                                             *)
(***************************************************************************)

\* Once the listener has heard of a reconnect, the memo holds no ID of an
\* earlier session (self-id.ts: entriesFor, startLookup).
MemoIsOfThisSession ==
  \A s \in Sources : memo[s].id # None => memo[s].id >= heard

\* A failure never replaces an ID: only a reconnect or a refresh forgets one,
\* though a lookup of an earlier session may time out long after its successor
\* was answered (self-id.ts: startLookup settles the entry it was started for).
KnownUntilForgotten ==
  \A s \in Sources :
    (memo[s].id # None /\ memo'[s].id # memo[s].id)
      => heard' # heard \/ memo'[s].failure = "no"

\* Callers of one entry share one lookup: no two are in flight for it
\* (self-id.ts: startLookup and refreshSelfId).
SingleFlight ==
  \A k, l \in Slots :
    (k # l /\ lookups[k] # None /\ lookups[l] # None)
      => <<lookups[k].source, lookups[k].entry>> # <<lookups[l].source, lookups[l].entry>>

\* A prompt that plans its header for publication never plans an ID of a
\* session older than the last reconnect heard of, however long it was held
\* between prompt() and its first iteration (agent.ts: prepareAtPublish).
PlannedForThisSession ==
  \A p \in Prompts :
    (pc[p] # "planned" /\ pc'[p] = "planned" /\ plan'[p] # None) => plan'[p] >= heard'

\* The memo as a whole: what it holds is of the session heard of, and its
\* callers share one lookup per entry (self-id.ts).
MemoSound == MemoIsOfThisSession /\ SingleFlight

\* The identity in use is of the session, whatever the step: it leaves a sound
\* memo, a lookup that settles late undoes nothing, and a prompt is signed with
\* a plan of its time (self-id.ts, agent.ts).
IdentityIsSound == [][MemoSound' /\ KnownUntilForgotten /\ PlannedForThisSession]_vars

\* Whoever asks gets an identity in the end: a lookup that failed does not
\* stick, the memo learns the ID again and again (self-id.ts: the negative
\* cache and the sharing of lookups in flight).
IdentityIsLearnt == \A s \in Sources : []<>(memo[s].id # None)
=============================================================================
