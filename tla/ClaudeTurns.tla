----------------------------- MODULE ClaudeTurns -----------------------------
(***************************************************************************)
(* What the server of the Claude Code channel makes of the hooks' records: *)
(* the TurnTracker, which follows Claude Code's turns by their prompt ids  *)
(* (agents/claude-code/src/turns.ts), and the TurnLedger, which says which *)
(* served prompt a turn belongs to and which prompts a turn left without   *)
(* their reply (src/permission-routing.ts).  Each method is an operator    *)
(* from the server's state S, a record, to the next one.                   *)
(*                                                                         *)
(* Times are positions in the order of the hooks' events.  Rule 6's bound  *)
(* of 30 s, which guards against a lost Stop line, is left out: no line is *)
(* lost here.                                                              *)
(***************************************************************************)
EXTENDS Integers, Sequences, FiniteSets, Functions, FiniteSetsExt

CONSTANTS
  Requests,
  LastId,      \* prompt ids are 1..LastId: a bound
  MaxNow,      \* times are 0..MaxNow: a bound
  None         \* no record, no text, no request

PromptIds == 1..LastId

\* The records: a message that was submitted, a tool call, and the end of a turn with
\* its final text, of which it matters in which turn it was written and when.
Texts     == [number : Nat, at : Nat]
Submits   == [kind : {"submit"}, id : PromptIds, request : Requests \cup {None}, at : Nat]
ToolCalls == [kind : {"activity"}, id : PromptIds, at : Nat, first : Nat]
TurnEnds  == [kind : {"stop", "failure"}, id : PromptIds, request : {None},
              background : BOOLEAN, text : Texts \cup {None}, at : Nat]

ASSUME ClaudeTurnsAssumption ==
  /\ {LastId, MaxNow} \subseteq Nat
  /\ None \notin Requests \cup Seq(Requests) \cup Texts \cup [text : Texts \cup {None}]
  /\ None \notin ToolCalls \cup TurnEnds

NoTurn    == [id |-> 0, kind |-> "none", start |-> 0, requests |-> <<>>, batch |-> FALSE]

\* A served prompt as the ledger holds it.
NotDelivered == [at |-> -1, stopsBefore |-> 0, startsTurn |-> FALSE, firstStop |-> None,
                 boundTo |-> 0, ended |-> None, graced |-> FALSE]

ServerStart == [
  binding      |-> FALSE,
  current      |-> NoTurn,
  lastStart    |-> -1,
  lastEnd      |-> -1,
  ended        |-> [i \in PromptIds |-> None],      \* the requests of a turn that ended
  bound        |-> [r \in Requests |-> 0],
  alias        |-> [i \in PromptIds |-> i],
  heard        |-> <<>>,                            \* local turns as the extensions hear of them
  deliveries   |-> [r \in Requests |-> NotDelivered],
  stops        |-> 0,
  lastStop     |-> None,
  lastDelivery |-> -1,
  pending      |-> [r \in Requests |-> "none"],     \* then open, answering, ended
  text         |-> [r \in Requests |-> None]]       \* the final text a request is answered with

\* finished: the request has ended or is not known.
OpenIn(S, r) == S.pending[r] \in {"open", "answering"}

-----------------------------------------------------------------------------
(* TurnLedger *)

\* A Stop, or a StopFailure counted as one: once, and never one older than the last.
ObserveStop(S, stop) ==
  IF stop = None \/ (S.lastStop # None /\ stop.at <= S.lastStop.at) THEN S
  ELSE [S EXCEPT
    !.deliveries = [r \in Requests |->
      IF @[r].at # -1 /\ @[r].stopsBefore = S.stops THEN [@[r] EXCEPT !.firstStop = stop]
      ELSE @[r]],
    !.lastStop = stop,
    !.stops = @ + 1]

BindIn(S, r, id) == [S EXCEPT !.deliveries[r].boundTo = id]

\* The open prompts bound to the turn that ended end with it.
LedgerTurnEnded(S, id, end) ==
  [S EXCEPT !.deliveries = [r \in Requests |->
     LET d == @[r] IN
     IF d.boundTo # id \/ ~OpenIn(S, r) \/ d.ended # None \/ end.kind = "shutdown" THEN d
     ELSE IF end.kind = "stop" /\ end.background THEN [d EXCEPT !.graced = TRUE]
     ELSE [d EXCEPT !.ended = [text |-> IF end.kind = "stop" THEN end.text ELSE None]]]]

\* unanswered(): the prompts no turn will answer, with the final text or none.
NoTurnStarted(S, view) == view.activity = None \/ view.activity.at <= S.lastStop.at

Unanswered(S, view, grace) ==
  LET over == grace /\ S.lastStop # None /\ NoTurnStarted(S, view)
      end(r, text) == [request |-> r, text |-> text]
      open == {r \in Requests : OpenIn(S, r)}
      D == S.deliveries
      owned == {r \in open : D[r].startsTurn /\ D[r].firstStop # None
                             /\ ~D[r].firstStop.background /\ D[r].firstStop.at > D[r].at}
  IN IF S.binding
     THEN {end(r, D[r].ended.text) : r \in {q \in open : D[q].ended # None}}
          \cup {end(r, None) : r \in {q \in open :
                  /\ D[q].ended = None /\ (D[q].boundTo = 0 \/ D[q].graced)
                  /\ D[q].firstStop # None /\ over}}
     ELSE {end(r, D[r].firstStop.text) : r \in owned}
          \cup {end(r, None) : r \in {q \in open \ owned : D[q].firstStop # None /\ over}}

\* quiet(): nothing but the prompt now delivered can start the next turn.
Quiet(S, view) ==
  /\ view.stop = None \/ ~view.stop.background
  /\ view.activity # None => S.lastStop # None /\ view.activity.at <= S.lastStop.at
  /\ S.lastDelivery # -1 => S.lastStop # None /\ S.lastDelivery <= S.lastStop.at
  /\ \A r \in Requests : OpenIn(S, r) =>
       S.deliveries[r].startsTurn \/ S.stops - S.deliveries[r].stopsBefore >= 2

Delivered(S, r, view, now) ==
  LET T == ObserveStop(S, view.stop) IN
  [T EXCEPT !.deliveries[r] = [NotDelivered EXCEPT !.at = now, !.stopsBefore = T.stops,
                                                   !.startsTurn = Quiet(T, view)],
            !.lastDelivery = now,
            !.pending[r] = "open"]

\* The prompts the running turn belongs to, for the Stop hook.
Owning(S) ==
  {r \in Requests : OpenIn(S, r) /\
     IF S.binding
     THEN S.deliveries[r].boundTo # 0 /\ S.deliveries[r].ended = None /\ ~S.deliveries[r].graced
     ELSE S.deliveries[r].startsTurn /\ S.deliveries[r].stopsBefore = S.stops}

\* ownerOf(): the one request a question of the running turn goes to, or None.
OwnerOf(S, view) ==
  LET act == view.activity
      bound == {r \in Requests : S.deliveries[r].boundTo = act.id /\ OpenIn(S, r)}
      guessed == {r \in Requests :
        /\ S.deliveries[r].startsTurn /\ S.deliveries[r].stopsBefore = S.stops
        /\ S.pending[r] # "none" /\ act.first >= S.deliveries[r].at}
      owners == IF S.binding THEN bound ELSE guessed
  IN IF act = None \/ (S.lastStop # None /\ act.at <= S.lastStop.at) \/ Cardinality(owners) # 1
     THEN None
     ELSE CHOOSE r \in owners : TRUE

-----------------------------------------------------------------------------
(* TurnTracker *)

End(S, end) ==
  IF S.current.id = 0 THEN S
  ELSE LET id == S.current.id
           T == [S EXCEPT !.current = NoTurn, !.ended[id] = S.current.requests]
           U == LedgerTurnEnded(T, id, end)
       IN IF S.current.kind # "local" THEN U
          ELSE [U EXCEPT !.heard = Append(@, [event |-> "ended", id |-> id])]

Begin(S, id, kind, at) ==
  [S EXCEPT !.current = [id |-> id, kind |-> kind, start |-> at, requests |-> <<>>,
                         batch |-> kind = "served"],
            !.lastStart = at]

BeginLocal(S, id, at) ==
  [Begin(S, id, "local", at) EXCEPT !.heard = Append(@, [event |-> "started", id |-> id])]

BreakBatch(S) == [S EXCEPT !.current.batch = FALSE]

\* Rule 6: the open turn goes by another id from now on, its requests with it.
Rename(S, id) ==
  LET from == S.current.id
      mine == Range(S.current.requests)
  IN [S EXCEPT
        !.alias = [i \in PromptIds |-> IF @[i] = from THEN id ELSE @[i]],
        !.current.id = id,
        !.bound = [r \in Requests |-> IF r \in mine THEN id ELSE @[r]],
        !.deliveries = [r \in Requests |->
           IF r \in mine /\ @[r].at # -1 THEN [@[r] EXCEPT !.boundTo = id] ELSE @[r]]]

\* Rule 1 and rule 6: a channel message was taken.
ChannelSubmit(S, id, rec) ==
  LET r == rec.request
      open == S.bound[r] = 0 /\ OpenIn(S, r)
      T == IF S.current.id = id THEN S
           ELSE IF S.current.batch THEN Rename(S, id)
           ELSE Begin(End(S, [kind |-> "next"]), id, "served", rec.at)
  IN IF ~open THEN T
     ELSE BindIn([T EXCEPT !.current.requests = Append(@, r), !.bound[r] = id], r, id)

\* Fault: typed text begins a turn, also while one runs.
TypedBegins(S, id, rec) == BeginLocal(End(S, [kind |-> "next"]), id, rec.at)

\* Rule 2: typed text.
TypedSubmit(S, id, rec) ==
  IF S.current.id = id THEN BreakBatch(S)
  ELSE BeginLocal(End(S, [kind |-> "next"]), id, rec.at)

Submitted(S, rec) ==
  LET id == S.alias[rec.id]
      T == [S EXCEPT !.binding = TRUE]
  IN IF S.ended[id] # None THEN T
     ELSE IF rec.request # None THEN ChannelSubmit(T, id, rec)
     ELSE TypedSubmit(T, id, rec)

\* Rule 3: a record of a turn no submit announced.
Surfaces(S, id) == S.current.id # id /\ S.ended[id] = None

Surface(S, id, at) ==
  IF ~Surfaces(S, id) THEN S
  ELSE LET since == IF S.lastEnd # -1 /\ S.lastEnd <= at /\ S.lastEnd > S.lastStart
                    THEN S.lastEnd ELSE at
       IN BeginLocal(End(S, [kind |-> "next"]), id, since)

\* A tool call.
Activity(S, act) ==
  IF ~S.binding THEN S
  ELSE LET id == S.alias[act.id]
           T == Surface(S, id, act.at)
       IN IF T.current.id = id THEN BreakBatch(T) ELSE T

\* Rule 4: a Stop or a StopFailure ends the turn it names.
TurnRecordEnds(S, rec) ==
  IF ~S.binding THEN S
  ELSE LET id == S.alias[rec.id]
           T == Surface(S, id, rec.at)
       IN IF T.current.id # id \/ (~Surfaces(S, id) /\ rec.at <= T.current.start) THEN T
          ELSE End([T EXCEPT !.lastEnd = rec.at], rec)

\* Rule 5.
TrackerShutdown(S) == End(S, [kind |-> "shutdown"])

-----------------------------------------------------------------------------
(* server.ts: what the server does at each record. *)

\* endUnanswered(): an answer with the final text is sent asynchronously.
EndUnanswered(S, view, grace) ==
  LET T == ObserveStop(S, view.stop)
      ends == {e \in Unanswered(T, view, grace) : T.pending[e.request] = "open"}
      of(r) == CHOOSE e \in ends : e.request = r
      ending == {e.request : e \in ends}
  IN [T EXCEPT
        !.pending = [r \in Requests |->
          IF r \notin ending THEN @[r]
          ELSE IF of(r).text # None THEN "answering" ELSE "ended"],
        !.text = [r \in Requests |-> IF r \in ending THEN of(r).text ELSE @[r]]]

Report(S, rec, view) ==
  LET T == CASE rec.kind = "submit"   -> Submitted(S, rec)
             [] rec.kind = "activity" -> Activity(S, rec)
             [] rec.kind \in {"stop", "failure"} -> TurnRecordEnds(ObserveStop(S, rec), rec)
  IN EndUnanswered(T, view, FALSE)

\* A poll reports the records it has not seen in the order of their times.
ReportAt(S, t, records, view) ==
  IF \A rec \in records : rec.at # t THEN S
  ELSE Report(S, CHOOSE rec \in records : rec.at = t, view)

PollAll(S, records, view, now) ==
  LET upTo[t \in 0..now] == IF t = 0 THEN S ELSE ReportAt(upTo[t - 1], t, records, view)
  IN upTo[now]

\* Fault: the request delivered last.
ChooseLatest(S, id) ==
  LET open == {r \in Requests : OpenIn(S, r)} IN
  IF open = {} THEN None
  ELSE CHOOSE r \in open : \A q \in open : S.deliveries[q].at <= S.deliveries[r].at

\* chooseRequest() for an agent-tool call that names no request: the last open
\* request taken into the turn the call's prompt id names, or into the current
\* one when the id names none.
ChooseRequest(S, id) ==
  LET own  == S.alias[id]
      took == IF S.current.id # own /\ S.ended[own] # None THEN S.ended[own]
              ELSE S.current.requests
      mine == {i \in DOMAIN took : OpenIn(S, took[i])}
  IN IF mine = {} THEN None ELSE took[Max(mine)]
=============================================================================
