----------------------------- MODULE ClaudeProofs -----------------------------
(***************************************************************************)
(* The requests of a Claude Code session get their own turns (ClaudeTurns, *)
(* ClaudeChannel), for any number of requests, prompt ids, events, typed   *)
(* texts and tool calls.                                                   *)
(*                                                                         *)
(* The server reads the hooks' records late, but in the order of their     *)
(* times.  So the invariant says what it knows by what it has read: up to  *)
(* a horizon h, the last prompt id of which is m.  A poll takes the        *)
(* horizon from record to record up to now.                                *)
(***************************************************************************)
EXTENDS ClaudeChannel, NaturalsInduction, WellFoundedInduction, FiniteSetTheorems,
        SequenceTheorems, TLAPS

OpenTurns  == [id : 0..LastId, kind : {"none", "served", "local"}, start : Int,
               requests : Seq(Requests), batch : BOOLEAN]
Deliveries == [at : Int, stopsBefore : Int, startsTurn : BOOLEAN,
               firstStop : TurnEnds \cup {None}, boundTo : 0..LastId,
               ended : [text : Texts \cup {None}] \cup {None}, graced : BOOLEAN]
Servers == [binding : BOOLEAN, current : OpenTurns, lastStart : Int, lastEnd : Int,
            ended : [PromptIds -> Seq(Requests) \cup {None}],
            bound : [Requests -> 0..LastId], alias : [PromptIds -> PromptIds],
            heard : Seq([event : {"started", "ended"}, id : PromptIds]),
            deliveries : [Requests -> Deliveries], stops : Int,
            lastStop : TurnEnds \cup {None}, lastDelivery : Int,
            pending : [Requests -> {"none", "open", "answering", "ended"}],
            text : [Requests -> Texts \cup {None}]]

ClaudeTypes ==
  /\ cc \in [queue : Seq(Requests \cup {"typed"}), id : 0..LastId, number : Nat, taking : Nat,
             call : BOOLEAN, calls : Nat, refused : BOOLEAN, lastId : 0..LastId,
             lastNumber : Nat, typed : Nat]
  /\ files \in [log : Seq(Submits \cup TurnEnds), stop : TurnEnds \cup {None},
                activity : ToolCalls \cup {None}, nudge : Texts \cup {None},
                open : [owning : SUBSET Requests, open : SUBSET Requests]]
  /\ server \in [state : Servers, read : Nat, activityRead : Int, down : BOOLEAN]
  /\ now \in Nat
  /\ numberOf \in [PromptIds -> Nat]
  /\ served \subseteq Nat
  /\ taken \in [Requests -> Texts \cup {None}]
  /\ routed \subseteq Requests \X Nat

-----------------------------------------------------------------------------
(* What the operators on the server's state change. *)

\* The prompt ids and the turns they were given in are as they were.
SameTracker(S, T) ==
  /\ T.binding = S.binding /\ T.current = S.current /\ T.ended = S.ended
  /\ T.bound = S.bound /\ T.alias = S.alias /\ T.heard = S.heard
  /\ T.lastStart = S.lastStart /\ T.lastEnd = S.lastEnd

\* No request is open that was not, and none becomes known or unknown.
Closing(S, T) ==
  \A r \in Requests :
    /\ T.pending[r] = S.pending[r] \/ (S.pending[r] \in {"open", "answering"}
                                       /\ T.pending[r] \in {"answering", "ended"})

SamePending(S, T) == T.pending = S.pending /\ T.text = S.text

(* None is none of the values it stands for the absence of.                *)
LEMMA NoneIsNothing ==
  /\ None \notin Requests /\ None \notin Seq(Requests) /\ None \notin Texts
  /\ None \notin [text : Texts \cup {None}] /\ None \notin ToolCalls /\ None \notin TurnEnds
  /\ "typed" \notin Requests
  BY ClaudeTurnsAssumption, ClaudeAssumption

LEMMA PromptIdsAreIntegers == LastId \in Nat /\ MaxNow \in Nat /\ PromptIds \subseteq 0..LastId
                              /\ \A i : i \in PromptIds <=> i \in 0..LastId /\ i # 0
  BY ClaudeTurnsAssumption DEF PromptIds

(* A server with one field set to another value of its type is a server.   *)
LEMMA Updates ==
  ASSUME NEW S \in Servers
  PROVE  /\ \A v \in BOOLEAN : [S EXCEPT !.binding = v] \in Servers
         /\ \A v \in OpenTurns : [S EXCEPT !.current = v] \in Servers
         /\ \A v \in Int : [S EXCEPT !.lastStart = v] \in Servers
         /\ \A v \in Int : [S EXCEPT !.lastEnd = v] \in Servers
         /\ \A v \in [PromptIds -> Seq(Requests) \cup {None}] : [S EXCEPT !.ended = v] \in Servers
         /\ \A v \in [Requests -> 0..LastId] : [S EXCEPT !.bound = v] \in Servers
         /\ \A v \in [PromptIds -> PromptIds] : [S EXCEPT !.alias = v] \in Servers
         /\ \A v \in Seq([event : {"started", "ended"}, id : PromptIds]) :
              [S EXCEPT !.heard = v] \in Servers
         /\ \A v \in [Requests -> Deliveries] : [S EXCEPT !.deliveries = v] \in Servers
         /\ \A v \in Int : [S EXCEPT !.stops = v] \in Servers
         /\ \A v \in TurnEnds \cup {None} : [S EXCEPT !.lastStop = v] \in Servers
         /\ \A v \in Int : [S EXCEPT !.lastDelivery = v] \in Servers
         /\ \A v \in [Requests -> {"none", "open", "answering", "ended"}] :
              [S EXCEPT !.pending = v] \in Servers
         /\ \A v \in [Requests -> Texts \cup {None}] : [S EXCEPT !.text = v] \in Servers
<1>1. ASSUME NEW v \in BOOLEAN
      PROVE  [S EXCEPT !.binding = v] \in Servers
  BY DEF Servers
<1>2. ASSUME NEW v \in OpenTurns
      PROVE  [S EXCEPT !.current = v] \in Servers
  BY DEF Servers
<1>3. ASSUME NEW v \in Int
      PROVE  [S EXCEPT !.lastStart = v] \in Servers
  BY DEF Servers
<1>4. ASSUME NEW v \in Int
      PROVE  [S EXCEPT !.lastEnd = v] \in Servers
  BY DEF Servers
<1>5. ASSUME NEW v \in [PromptIds -> Seq(Requests) \cup {None}]
      PROVE  [S EXCEPT !.ended = v] \in Servers
  BY DEF Servers
<1>6. ASSUME NEW v \in [Requests -> 0..LastId]
      PROVE  [S EXCEPT !.bound = v] \in Servers
  BY DEF Servers
<1>7. ASSUME NEW v \in [PromptIds -> PromptIds]
      PROVE  [S EXCEPT !.alias = v] \in Servers
  BY DEF Servers
<1>8. ASSUME NEW v \in Seq([event : {"started", "ended"}, id : PromptIds])
      PROVE  [S EXCEPT !.heard = v] \in Servers
  BY DEF Servers
<1>9. ASSUME NEW v \in [Requests -> Deliveries]
      PROVE  [S EXCEPT !.deliveries = v] \in Servers
  BY DEF Servers
<1>10. ASSUME NEW v \in Int
       PROVE  [S EXCEPT !.stops = v] \in Servers
  BY DEF Servers
<1>11. ASSUME NEW v \in TurnEnds \cup {None}
       PROVE  [S EXCEPT !.lastStop = v] \in Servers
  BY DEF Servers
<1>12. ASSUME NEW v \in Int
       PROVE  [S EXCEPT !.lastDelivery = v] \in Servers
  BY DEF Servers
<1>13. ASSUME NEW v \in [Requests -> {"none", "open", "answering", "ended"}]
       PROVE  [S EXCEPT !.pending = v] \in Servers
  BY DEF Servers
<1>14. ASSUME NEW v \in [Requests -> Texts \cup {None}]
       PROVE  [S EXCEPT !.text = v] \in Servers
  BY DEF Servers
<1>. QED
  BY <1>1, <1>2, <1>3, <1>4, <1>5, <1>6, <1>7, <1>8, <1>9, <1>10, <1>11, <1>12, <1>13, <1>14

(* A stop that is observed changes the firstStop of deliveries alone, to   *)
(* that stop.                                                              *)
LEMMA ObserveStopChanges ==
  ASSUME NEW S \in Servers, NEW stop \in TurnEnds \cup {None}
  PROVE  LET T == ObserveStop(S, stop) IN
         /\ T \in Servers /\ SameTracker(S, T) /\ SamePending(S, T)
         /\ \A r \in Requests :
              /\ T.deliveries[r].at = S.deliveries[r].at
              /\ T.deliveries[r].boundTo = S.deliveries[r].boundTo
              /\ T.deliveries[r].ended = S.deliveries[r].ended
              /\ T.deliveries[r].firstStop = S.deliveries[r].firstStop
                 \/ (stop # None /\ T.deliveries[r].firstStop = stop)
<1>. DEFINE D == [r \in Requests |->
                   IF S.deliveries[r].at # -1 /\ S.deliveries[r].stopsBefore = S.stops
                   THEN [S.deliveries[r] EXCEPT !.firstStop = stop] ELSE S.deliveries[r]]
            T == [S EXCEPT !.deliveries = D, !.lastStop = stop, !.stops = @ + 1]
<1>1. CASE ObserveStop(S, stop) = S
  BY <1>1 DEF SameTracker, SamePending
<1>2. CASE ObserveStop(S, stop) = T /\ stop # None
  <2>1. S.deliveries \in [Requests -> Deliveries]
    BY DEF Servers
  <2>2. ASSUME NEW r \in Requests
        PROVE  /\ D[r] \in Deliveries
               /\ D[r].at = S.deliveries[r].at
               /\ D[r].boundTo = S.deliveries[r].boundTo
               /\ D[r].ended = S.deliveries[r].ended
               /\ D[r].firstStop = S.deliveries[r].firstStop \/ D[r].firstStop = stop
    <3>1. S.deliveries[r] \in Deliveries /\ D[r] \in {S.deliveries[r], [S.deliveries[r] EXCEPT !.firstStop = stop]}
      BY <2>1
    <3>2. QED
      BY <3>1 DEF Deliveries
  <2>3. D \in [Requests -> Deliveries]
    BY <2>2
  <2>. HIDE DEF D
  <2>4. T.deliveries = D /\ SameTracker(S, T) /\ SamePending(S, T)
    BY <2>3 DEF Servers, SameTracker, SamePending
  <2>5. T = [[[S EXCEPT !.deliveries = D] EXCEPT !.lastStop = stop] EXCEPT !.stops = S.stops + 1]
    OBVIOUS
  <2>6. S.stops + 1 \in Int
    BY DEF Servers
  <2>7. T \in Servers
    BY <2>3, <2>5, <2>6, Updates
  <2>. QED  BY <1>2, <2>2, <2>4, <2>7
<1>3. ObserveStop(S, stop) = S \/ (ObserveStop(S, stop) = T /\ stop # None)
  BY DEF ObserveStop
<1>4. QED
  BY <1>1, <1>2, <1>3
(* The elements of a sequence one longer.                                  *)
LEMMA RangeOfAppend ==
  ASSUME NEW U, NEW s \in Seq(U), NEW e \in U
  PROVE  Range(Append(s, e)) = Range(s) \cup {e} /\ Range(s) \subseteq U
<1>. DEFINE n == Len(s)
            t == Append(s, e)
<1>1. n \in Nat /\ DOMAIN s = 1..n /\ DOMAIN t = 1..(n + 1)
  OBVIOUS
<1>2. t[n + 1] = e /\ \A i \in 1..n : t[i] = s[i]
  OBVIOUS
<1>3. \A i \in 1..(n + 1) : i \in 1..n \/ i = n + 1
  BY <1>1
<1>4. \A i \in 1..n : i \in 1..(n + 1)
  BY <1>1
<1>5. n + 1 \in 1..(n + 1)
  BY <1>1
<1>6. \A i \in 1..n : s[i] \in U
  OBVIOUS
<1>. HIDE DEF n, t
<1>7. Range(t) \subseteq Range(s) \cup {e}
  BY <1>1, <1>2, <1>3 DEF Range
<1>8. Range(s) \cup {e} \subseteq Range(t)
  BY <1>1, <1>2, <1>4, <1>5 DEF Range
<1>9. Range(s) \subseteq U
  BY <1>1, <1>6 DEF Range
<1>. QED
  BY <1>7, <1>8, <1>9 DEF t


\* What a turn can end with.
Endings == TurnEnds \cup {[kind |-> "next"], [kind |-> "shutdown"]}

\* An ending that leaves no request of the turn open, and the text it has.
Final(end) == end.kind \in {"next", "failure"} \/ (end.kind = "stop" /\ ~end.background)
TextOf(end) == IF end.kind = "stop" THEN end.text ELSE None

LEMMA EndingsHaveAKind ==
  ASSUME NEW end \in Endings
  PROVE  /\ end.kind \in {"stop", "failure", "next", "shutdown"}
         /\ end.kind \in {"stop", "failure"} <=> end \in TurnEnds
         /\ end \in TurnEnds => end.background \in BOOLEAN /\ end.text \in Texts \cup {None}
         /\ TextOf(end) \in Texts \cup {None}
<1>1. CASE end \in TurnEnds
  BY <1>1 DEF TurnEnds, TextOf
<1>2. CASE end = [kind |-> "next"] \/ end = [kind |-> "shutdown"]
  <2>1. end.kind \notin {"stop", "failure"}
    BY <1>2
  <2>2. end \notin TurnEnds
    BY <2>1 DEF TurnEnds
  <2>. QED  BY <1>2, <2>1, <2>2 DEF TextOf
<1>3. QED
  BY <1>1, <1>2 DEF Endings

(* A turn that ends changes what its own open requests ended with.         *)
LEMMA LedgerTurnEndedChanges ==
  ASSUME NEW S \in Servers, NEW id \in PromptIds, NEW end \in Endings
  PROVE  LET T == LedgerTurnEnded(S, id, end) IN
         /\ T \in Servers /\ SameTracker(S, T) /\ SamePending(S, T)
         /\ \A r \in Requests :
              /\ T.deliveries[r].at = S.deliveries[r].at
              /\ T.deliveries[r].boundTo = S.deliveries[r].boundTo
              /\ T.deliveries[r].firstStop = S.deliveries[r].firstStop
              /\ \/ T.deliveries[r].ended = S.deliveries[r].ended
                 \/ /\ S.deliveries[r].boundTo = id /\ Final(end)
                    /\ T.deliveries[r].ended = [text |-> TextOf(end)]
              /\ S.deliveries[r].boundTo = id /\ OpenIn(S, r) /\ Final(end) =>
                   T.deliveries[r].ended # None
<1>. DEFINE d(r) == S.deliveries[r]
            D == [r \in Requests |->
                   IF d(r).boundTo # id \/ ~OpenIn(S, r) \/ d(r).ended # None \/ end.kind = "shutdown"
                   THEN d(r)
                   ELSE IF end.kind = "stop" /\ end.background THEN [d(r) EXCEPT !.graced = TRUE]
                   ELSE [d(r) EXCEPT !.ended = [text |-> IF end.kind = "stop" THEN end.text ELSE None]]]
<1>1. LedgerTurnEnded(S, id, end) = [S EXCEPT !.deliveries = D]
  BY DEF LedgerTurnEnded
<1>2. ASSUME NEW r \in Requests
      PROVE  /\ D[r] \in Deliveries
             /\ D[r].at = S.deliveries[r].at
             /\ D[r].boundTo = S.deliveries[r].boundTo
             /\ D[r].firstStop = S.deliveries[r].firstStop
             /\ \/ D[r].ended = S.deliveries[r].ended
                \/ /\ S.deliveries[r].boundTo = id /\ Final(end)
                   /\ D[r].ended = [text |-> TextOf(end)]
             /\ S.deliveries[r].boundTo = id /\ OpenIn(S, r) /\ Final(end) => D[r].ended # None
  <2>1. d(r) \in Deliveries
    BY DEF Servers
  <2>2. TextOf(end) \in Texts \cup {None} /\ end.kind \in {"stop", "failure", "next", "shutdown"}
    BY EndingsHaveAKind
  <2>3. [text |-> TextOf(end)] \in [text : Texts \cup {None}]
    BY <2>2
  <2>4. [text |-> TextOf(end)] # None
    BY <2>3, NoneIsNothing
  <2>5. CASE d(r).boundTo # id \/ ~OpenIn(S, r) \/ d(r).ended # None \/ end.kind = "shutdown"
    <3>1. D[r] = d(r)
      BY <2>5
    <3>. QED  BY <2>1, <2>5, <3>1 DEF Final
  <2>6. CASE /\ ~(d(r).boundTo # id \/ ~OpenIn(S, r) \/ d(r).ended # None \/ end.kind = "shutdown")
             /\ end.kind = "stop" /\ end.background
    <3>1. D[r] = [d(r) EXCEPT !.graced = TRUE]
      BY <2>6
    <3>2. ~Final(end)
      BY <2>6 DEF Final
    <3>. HIDE DEF D
    <3>. QED  BY <2>1, <2>6, <3>1, <3>2 DEF Deliveries
  <2>7. CASE /\ ~(d(r).boundTo # id \/ ~OpenIn(S, r) \/ d(r).ended # None \/ end.kind = "shutdown")
             /\ ~(end.kind = "stop" /\ end.background)
    <3>1. D[r] = [d(r) EXCEPT !.ended = [text |-> TextOf(end)]]
      BY <2>7 DEF TextOf
    <3>2. Final(end) /\ d(r).boundTo = id
      BY <2>2, <2>7 DEF Final
    <3>. HIDE DEF D
    <3>. QED  BY <2>1, <2>3, <2>4, <3>1, <3>2 DEF Deliveries
  <2>. QED  BY <2>5, <2>6, <2>7
<1>. HIDE DEF D
<1>3. D \in [Requests -> Deliveries]
  BY <1>2 DEF D
<1>4. LedgerTurnEnded(S, id, end) \in Servers
  BY <1>1, <1>3, Updates
<1>5. /\ LedgerTurnEnded(S, id, end).deliveries = D
      /\ SameTracker(S, LedgerTurnEnded(S, id, end)) /\ SamePending(S, LedgerTurnEnded(S, id, end))
  BY <1>1 DEF Servers, SameTracker, SamePending
<1>6. QED
  BY <1>2, <1>4, <1>5

\* T is S with the running turn ended.
Ended(S, T, end) ==
  LET id == S.current.id IN
  /\ T \in Servers /\ SamePending(S, T)
  /\ T.current = NoTurn /\ T.binding = S.binding /\ T.bound = S.bound /\ T.alias = S.alias
  /\ T.ended = [S.ended EXCEPT ![id] = S.current.requests]
  /\ T.heard = IF S.current.kind = "local"
               THEN Append(S.heard, [event |-> "ended", id |-> id]) ELSE S.heard
  /\ \A r \in Requests :
       /\ T.deliveries[r].at = S.deliveries[r].at
       /\ T.deliveries[r].boundTo = S.deliveries[r].boundTo
       /\ T.deliveries[r].firstStop = S.deliveries[r].firstStop
       /\ \/ T.deliveries[r].ended = S.deliveries[r].ended
          \/ /\ S.deliveries[r].boundTo = id /\ Final(end)
             /\ T.deliveries[r].ended = [text |-> TextOf(end)]
       /\ S.deliveries[r].boundTo = id /\ OpenIn(S, r) /\ Final(end) =>
            T.deliveries[r].ended # None

(* The running turn ends.                                                  *)
LEMMA EndChanges ==
  ASSUME NEW S \in Servers, NEW end \in Endings, S.current.id # 0
  PROVE  Ended(S, End(S, end), end)
<1>. DEFINE id == S.current.id
            E  == [S.ended EXCEPT ![id] = S.current.requests]
            T  == [[S EXCEPT !.current = NoTurn] EXCEPT !.ended = E]
            U  == LedgerTurnEnded(T, id, end)
            h  == Append(S.heard, [event |-> "ended", id |-> id])
            V  == [U EXCEPT !.heard = h]
<1>1. S.current \in OpenTurns /\ S.current.requests \in Seq(Requests) /\ id \in PromptIds
  BY PromptIdsAreIntegers DEF Servers, OpenTurns
<1>2. NoTurn \in OpenTurns
  BY PromptIdsAreIntegers DEF NoTurn, OpenTurns
<1>3. E \in [PromptIds -> Seq(Requests) \cup {None}]
  BY <1>1 DEF Servers
<1>4. h \in Seq([event : {"started", "ended"}, id : PromptIds])
  <2>1. S.heard \in Seq([event : {"started", "ended"}, id : PromptIds])
    BY DEF Servers
  <2>2. [event |-> "ended", id |-> id] \in [event : {"started", "ended"}, id : PromptIds]
    BY <1>1
  <2>. QED  BY <2>1, <2>2
<1>5. End(S, end) = IF S.current.kind # "local" THEN U ELSE [U EXCEPT !.heard = Append(@, [event |-> "ended", id |-> id])]
  <2>1. [S EXCEPT !.current = NoTurn, !.ended[id] = S.current.requests] = T
    BY DEF Servers
  <2>. QED  BY <2>1 DEF End
<1>. HIDE DEF E, h
<1>6. /\ T \in Servers /\ T.current = NoTurn /\ T.ended = E /\ T.deliveries = S.deliveries
      /\ T.binding = S.binding /\ T.bound = S.bound /\ T.alias = S.alias /\ T.heard = S.heard
      /\ T.pending = S.pending /\ T.text = S.text
  <2>1. [S EXCEPT !.current = NoTurn] \in Servers
    BY <1>2, Updates
  <2>2. T \in Servers
    BY <1>3, <2>1, Updates
  <2>. QED  BY <2>2 DEF Servers
<1>7. \A r \in Requests : OpenIn(T, r) = OpenIn(S, r)
  BY <1>6 DEF OpenIn
<1>. HIDE DEF T
<1>8. /\ U \in Servers /\ SameTracker(T, U) /\ SamePending(T, U)
      /\ \A r \in Requests :
              /\ U.deliveries[r].at = T.deliveries[r].at
              /\ U.deliveries[r].boundTo = T.deliveries[r].boundTo
              /\ U.deliveries[r].firstStop = T.deliveries[r].firstStop
              /\ \/ U.deliveries[r].ended = T.deliveries[r].ended
                 \/ /\ T.deliveries[r].boundTo = id /\ Final(end)
                    /\ U.deliveries[r].ended = [text |-> TextOf(end)]
              /\ T.deliveries[r].boundTo = id /\ OpenIn(T, r) /\ Final(end) =>
                   U.deliveries[r].ended # None
  BY <1>1, <1>6, LedgerTurnEndedChanges
<1>. HIDE DEF U
<1>9. CASE S.current.kind # "local"
  <2>1. End(S, end) = U
    BY <1>5, <1>9
  <2>. QED  BY <1>6, <1>7, <1>8, <1>9, <2>1 DEF SameTracker, SamePending, E, Ended
<1>10. CASE S.current.kind = "local"
  <2>1. End(S, end) = V
    BY <1>5, <1>6, <1>8, <1>10 DEF SameTracker, h
  <2>2. /\ V \in Servers /\ V.heard = h /\ V.deliveries = U.deliveries /\ V.current = U.current
        /\ V.binding = U.binding /\ V.bound = U.bound /\ V.alias = U.alias /\ V.ended = U.ended
        /\ V.pending = U.pending /\ V.text = U.text
    <3>1. V \in Servers
      BY <1>4, <1>8, Updates
    <3>. QED  BY <1>8, <3>1 DEF Servers
  <2>. HIDE DEF V
  <2>3. V.heard = Append(S.heard, [event |-> "ended", id |-> id])
    BY <2>2 DEF h
  <2>4. V.ended = [S.ended EXCEPT ![id] = S.current.requests]
    BY <1>6, <1>8, <2>2 DEF SameTracker, E
  <2>. QED  BY <1>6, <1>7, <1>8, <1>10, <2>1, <2>2, <2>3, <2>4 DEF SameTracker, SamePending, Ended
<1>11. QED
  BY <1>9, <1>10

\* All but the running turn, and what the extensions heard, is as it was.
SameLedger(S, T) ==
  /\ T.binding = S.binding /\ T.ended = S.ended /\ T.bound = S.bound /\ T.alias = S.alias
  /\ T.deliveries = S.deliveries /\ T.pending = S.pending /\ T.text = S.text

(* A turn begins.                                                          *)
LEMMA BeginChanges ==
  ASSUME NEW S \in Servers, NEW id \in PromptIds, NEW kind \in {"served", "local"}, NEW at \in Int
  PROVE  LET T == Begin(S, id, kind, at) IN
         /\ T \in Servers /\ SameLedger(S, T) /\ T.heard = S.heard
         /\ T.current = [id |-> id, kind |-> kind, start |-> at, requests |-> <<>>,
                         batch |-> kind = "served"]
<1>. DEFINE c == [id |-> id, kind |-> kind, start |-> at, requests |-> <<>>, batch |-> kind = "served"]
            T == [[S EXCEPT !.current = c] EXCEPT !.lastStart = at]
<1>1. c \in OpenTurns
  BY PromptIdsAreIntegers DEF OpenTurns
<1>2. Begin(S, id, kind, at) = T
  BY DEF Begin
<1>. HIDE DEF c
<1>3. [S EXCEPT !.current = c] \in Servers
  BY <1>1, Updates
<1>4. T \in Servers
  BY <1>3, Updates
<1>5. SameLedger(S, T) /\ T.heard = S.heard /\ T.current = c
  BY DEF Servers, SameLedger
<1>. HIDE DEF T
<1>6. QED
  BY <1>2, <1>4, <1>5 DEF c

(* A local turn begins, and the extensions hear of it.                     *)
LEMMA BeginLocalChanges ==
  ASSUME NEW S \in Servers, NEW id \in PromptIds, NEW at \in Int
  PROVE  LET T == BeginLocal(S, id, at) IN
         /\ T \in Servers /\ SameLedger(S, T)
         /\ T.heard = Append(S.heard, [event |-> "started", id |-> id])
         /\ T.current = [id |-> id, kind |-> "local", start |-> at, requests |-> <<>>,
                         batch |-> FALSE]
<1>. DEFINE B == Begin(S, id, "local", at)
            h == Append(S.heard, [event |-> "started", id |-> id])
            T == [B EXCEPT !.heard = h]
<1>1. /\ B \in Servers /\ SameLedger(S, B) /\ B.heard = S.heard
      /\ B.current = [id |-> id, kind |-> "local", start |-> at, requests |-> <<>>,
                         batch |-> "local" = "served"]
  BY BeginChanges
<1>2. BeginLocal(S, id, at) = T
  BY <1>1 DEF BeginLocal
<1>3. h \in Seq([event : {"started", "ended"}, id : PromptIds])
  <2>1. S.heard \in Seq([event : {"started", "ended"}, id : PromptIds])
    BY DEF Servers
  <2>2. [event |-> "started", id |-> id] \in [event : {"started", "ended"}, id : PromptIds]
    OBVIOUS
  <2>. QED  BY <2>1, <2>2
<1>. HIDE DEF B, h
<1>4. T \in Servers
  BY <1>1, <1>3, Updates
<1>5. SameLedger(B, T) /\ T.heard = h /\ T.current = B.current
  BY <1>1 DEF Servers, SameLedger
<1>. HIDE DEF T
<1>6. SameLedger(S, T)
  BY <1>1, <1>5 DEF SameLedger
<1>7. T.current = [id |-> id, kind |-> "local", start |-> at, requests |-> <<>>, batch |-> FALSE]
  BY <1>1, <1>5
<1>8. QED
  BY <1>2, <1>4, <1>5, <1>6, <1>7 DEF h

(* No later channel message is taken for one of the running turn's batch.  *)
LEMMA BreakBatchChanges ==
  ASSUME NEW S \in Servers
  PROVE  LET T == BreakBatch(S) IN
         /\ T \in Servers /\ SameLedger(S, T) /\ T.heard = S.heard
         /\ T.current \in OpenTurns /\ ~T.current.batch
         /\ T.current.id = S.current.id /\ T.current.kind = S.current.kind
         /\ T.current.start = S.current.start /\ T.current.requests = S.current.requests
<1>. DEFINE c == [S.current EXCEPT !.batch = FALSE]
            T == [S EXCEPT !.current = c]
<1>1. S.current \in OpenTurns
  BY DEF Servers
<1>2. /\ c \in OpenTurns /\ ~c.batch
      /\ c.id = S.current.id /\ c.kind = S.current.kind
      /\ c.start = S.current.start /\ c.requests = S.current.requests
  BY <1>1 DEF OpenTurns
<1>3. BreakBatch(S) = T
  BY DEF BreakBatch
<1>. HIDE DEF c
<1>4. T \in Servers
  BY <1>2, Updates
<1>5. SameLedger(S, T) /\ T.heard = S.heard /\ T.current = c
  BY DEF Servers, SameLedger
<1>. HIDE DEF T
<1>6. QED
  BY <1>2, <1>3, <1>4, <1>5

\* R is S with the running turn under another id, its requests with it.
Renamed(S, R, id) ==
  LET mine == Range(S.current.requests) IN
  /\ R \in Servers
  /\ R.binding = S.binding /\ R.ended = S.ended /\ R.heard = S.heard
  /\ R.pending = S.pending /\ R.text = S.text
  /\ R.current \in OpenTurns /\ R.current.id = id /\ R.current.kind = S.current.kind
  /\ R.current.start = S.current.start /\ R.current.requests = S.current.requests
  /\ R.current.batch = S.current.batch
  /\ \A i \in PromptIds : R.alias[i] = IF S.alias[i] = S.current.id THEN id ELSE S.alias[i]
  /\ \A r \in Requests :
       /\ R.bound[r] = IF r \in mine THEN id ELSE S.bound[r]
       /\ R.deliveries[r].boundTo =
            IF r \in mine /\ S.deliveries[r].at # -1 THEN id ELSE S.deliveries[r].boundTo
       /\ R.deliveries[r].at = S.deliveries[r].at
       /\ R.deliveries[r].ended = S.deliveries[r].ended
       /\ R.deliveries[r].firstStop = S.deliveries[r].firstStop

LEMMA RenameChanges ==
  ASSUME NEW S \in Servers, NEW id \in PromptIds, S.current.id # 0
  PROVE  Renamed(S, Rename(S, id), id)
<1>. DEFINE mine == Range(S.current.requests)
            R == Rename(S, id)
            a == [i \in PromptIds |-> IF S.alias[i] = S.current.id THEN id ELSE S.alias[i]]
            c == [S.current EXCEPT !.id = id]
            b == [r \in Requests |-> IF r \in mine THEN id ELSE S.bound[r]]
            D == [r \in Requests |-> IF r \in mine /\ S.deliveries[r].at # -1
                                     THEN [S.deliveries[r] EXCEPT !.boundTo = id]
                                     ELSE S.deliveries[r]]
            T == [[[[S EXCEPT !.alias = a] EXCEPT !.current = c] EXCEPT !.bound = b] EXCEPT !.deliveries = D]
<1>1. R = T
  BY DEF Rename, Servers
<1>2. a \in [PromptIds -> PromptIds] /\ b \in [Requests -> 0..LastId]
  BY PromptIdsAreIntegers DEF Servers
<1>3. S.current \in OpenTurns
  BY DEF Servers
<1>4. /\ c \in OpenTurns /\ c.id = id /\ c.kind = S.current.kind
      /\ c.start = S.current.start /\ c.requests = S.current.requests /\ c.batch = S.current.batch
  BY <1>3, PromptIdsAreIntegers DEF OpenTurns
<1>5. ASSUME NEW r \in Requests
      PROVE  /\ D[r] \in Deliveries
             /\ D[r].boundTo = IF r \in mine /\ S.deliveries[r].at # -1 THEN id ELSE S.deliveries[r].boundTo
             /\ D[r].at = S.deliveries[r].at
             /\ D[r].ended = S.deliveries[r].ended
             /\ D[r].firstStop = S.deliveries[r].firstStop
  <2>. HIDE DEF mine
  <2>1. S.deliveries[r] \in Deliveries
    BY DEF Servers
  <2>2. id \in 0..LastId
    BY PromptIdsAreIntegers
  <2>3. CASE r \in mine /\ S.deliveries[r].at # -1
    <3>1. D[r] = [S.deliveries[r] EXCEPT !.boundTo = id]
      BY <2>3
    <3>. HIDE DEF D
    <3>. QED  BY <2>1, <2>2, <2>3, <3>1 DEF Deliveries
  <2>4. CASE ~(r \in mine /\ S.deliveries[r].at # -1)
    BY <2>1, <2>4
  <2>. QED  BY <2>3, <2>4
<1>6. /\ \A i \in PromptIds : a[i] = IF S.alias[i] = S.current.id THEN id ELSE S.alias[i]
      /\ \A r \in Requests : b[r] = IF r \in mine THEN id ELSE S.bound[r]
  OBVIOUS
<1>. HIDE DEF a, b, c, D
<1>7. D \in [Requests -> Deliveries]
  BY <1>5 DEF D
<1>8. T \in Servers
  <2>1. [S EXCEPT !.alias = a] \in Servers
    BY <1>2, Updates
  <2>2. [[S EXCEPT !.alias = a] EXCEPT !.current = c] \in Servers
    BY <1>4, <2>1, Updates
  <2>3. [[[S EXCEPT !.alias = a] EXCEPT !.current = c] EXCEPT !.bound = b] \in Servers
    BY <1>2, <2>2, Updates
  <2>. QED  BY <1>7, <2>3, Updates
<1>9. /\ T.binding = S.binding /\ T.ended = S.ended /\ T.heard = S.heard
      /\ T.pending = S.pending /\ T.text = S.text
      /\ T.alias = a /\ T.current = c /\ T.bound = b /\ T.deliveries = D
  BY DEF Servers
<1>. HIDE DEF T, R, mine
<1>10. QED
  BY <1>1, <1>4, <1>5, <1>6, <1>8, <1>9 DEF Renamed, R, mine

(* A request is bound to the running turn.                                 *)
Bound(S, r, id) ==
  BindIn([S EXCEPT !.current.requests = Append(@, r), !.bound[r] = id], r, id)

BoundNow(S, R, r, id) ==
  /\ R \in Servers
  /\ R.binding = S.binding /\ R.ended = S.ended /\ R.alias = S.alias /\ R.heard = S.heard
  /\ R.pending = S.pending /\ R.text = S.text
  /\ R.current \in OpenTurns /\ R.current.id = S.current.id /\ R.current.kind = S.current.kind
  /\ R.current.start = S.current.start /\ R.current.batch = S.current.batch
  /\ R.current.requests = Append(S.current.requests, r)
  /\ \A q \in Requests :
       /\ R.bound[q] = IF q = r THEN id ELSE S.bound[q]
       /\ R.deliveries[q].boundTo = IF q = r THEN id ELSE S.deliveries[q].boundTo
       /\ R.deliveries[q].at = S.deliveries[q].at
       /\ R.deliveries[q].ended = S.deliveries[q].ended
       /\ R.deliveries[q].firstStop = S.deliveries[q].firstStop

LEMMA BoundChanges ==
  ASSUME NEW S \in Servers, NEW id \in PromptIds, NEW r \in Requests
  PROVE  BoundNow(S, Bound(S, r, id), r, id)
<1>. DEFINE c == [S.current EXCEPT !.requests = Append(@, r)]
            b == [S.bound EXCEPT ![r] = id]
            D == [S.deliveries EXCEPT ![r].boundTo = id]
            T == [[[S EXCEPT !.current = c] EXCEPT !.bound = b] EXCEPT !.deliveries = D]
<1>1. Bound(S, r, id) = T
  BY DEF Bound, BindIn, Servers
<1>2. b \in [Requests -> 0..LastId]
  BY PromptIdsAreIntegers DEF Servers
<1>3. S.current \in OpenTurns
  BY DEF Servers
<1>4. /\ c \in OpenTurns /\ c.id = S.current.id /\ c.kind = S.current.kind
      /\ c.start = S.current.start /\ c.batch = S.current.batch
      /\ c.requests = Append(S.current.requests, r)
  <2>. DEFINE s == Append(S.current.requests, r)
  <2>1. s \in Seq(Requests)
    BY <1>3 DEF OpenTurns
  <2>2. c = [S.current EXCEPT !.requests = s]
    OBVIOUS
  <2>. HIDE DEF s, c
  <2>3. c \in OpenTurns /\ c.requests = s
    BY <1>3, <2>1, <2>2 DEF OpenTurns
  <2>4. /\ c.id = S.current.id /\ c.kind = S.current.kind
        /\ c.start = S.current.start /\ c.batch = S.current.batch
    BY <1>3, <2>1, <2>2 DEF OpenTurns
  <2>. QED  BY <2>3, <2>4 DEF s
<1>5. ASSUME NEW q \in Requests
      PROVE  /\ D[q] \in Deliveries
             /\ D[q].boundTo = IF q = r THEN id ELSE S.deliveries[q].boundTo
             /\ D[q].at = S.deliveries[q].at
             /\ D[q].ended = S.deliveries[q].ended
             /\ D[q].firstStop = S.deliveries[q].firstStop
  <2>1. S.deliveries \in [Requests -> Deliveries]
    BY DEF Servers
  <2>2. id \in 0..LastId
    BY PromptIdsAreIntegers
  <2>3. D[q] = IF q = r THEN [S.deliveries[r] EXCEPT !.boundTo = id] ELSE S.deliveries[q]
    BY <2>1
  <2>. HIDE DEF D
  <2>. QED  BY <2>1, <2>2, <2>3 DEF Deliveries
<1>6. \A q \in Requests : b[q] = IF q = r THEN id ELSE S.bound[q]
  BY DEF Servers
<1>7. D \in [Requests -> Deliveries]
  <2>1. D = [q \in Requests |-> D[q]]
    BY DEF Servers
  <2>. HIDE DEF D
  <2>. QED  BY <1>5, <2>1
<1>. HIDE DEF b, c, D
<1>8. T \in Servers
  <2>1. [S EXCEPT !.current = c] \in Servers
    BY <1>4, Updates
  <2>2. [[S EXCEPT !.current = c] EXCEPT !.bound = b] \in Servers
    BY <1>2, <2>1, Updates
  <2>. QED  BY <1>7, <2>2, Updates
<1>9. /\ T.binding = S.binding /\ T.ended = S.ended /\ T.alias = S.alias /\ T.heard = S.heard
      /\ T.pending = S.pending /\ T.text = S.text
      /\ T.current = c /\ T.bound = b /\ T.deliveries = D
  BY DEF Servers
<1>. HIDE DEF T
<1>10. QED
  BY <1>1, <1>4, <1>5, <1>6, <1>8, <1>9 DEF BoundNow

-----------------------------------------------------------------------------
(* The invariant. *)

Recs == Range(files.log) \cup ({files.activity} \ {None})
IsEnd(x) == x.kind \in {"stop", "failure"}
ByChannel(x) == x.kind = "submit" /\ x.request # None
NumberOf(x) == numberOf[x.id]

\* The turns of Claude Code are given their prompt ids in the order they run, and
\* a second id only if a channel message started them.
Numbers ==
  /\ cc.id \in {0, cc.lastId}
  /\ cc.id # 0 => cc.number = cc.lastNumber /\ cc.number > 0
  /\ cc.id = 0 => cc.number = 0
  /\ \A i \in PromptIds :
       IF i <= cc.lastId THEN numberOf[i] \in 1..cc.lastNumber ELSE numberOf[i] = 0
  /\ \A i, j \in PromptIds : i <= j /\ j <= cc.lastId => numberOf[i] <= numberOf[j]
  /\ IF cc.lastId = 0 THEN cc.lastNumber = 0 ELSE numberOf[cc.lastId] = cc.lastNumber
  /\ \A i, j \in PromptIds : i < j /\ j <= cc.lastId /\ numberOf[i] = numberOf[j] =>
       numberOf[i] \in served
  /\ served \subseteq 1..cc.lastNumber

InTurn ==
  /\ cc.taking > 0 => cc.id # 0 /\ ~cc.call /\ cc.number \in served
  /\ cc.taking <= Len(cc.queue) /\ \A i \in 1..cc.taking : cc.queue[i] # "typed"
  /\ cc.call => cc.id # 0 /\ cc.taking = 0 /\ files.activity # None /\ files.activity.id = cc.id
  /\ cc.refused /\ cc.id # 0 => files.nudge # None /\ files.nudge.number = cc.number

\* A request waits once, is taken once, and only after it was delivered.
Queue ==
  /\ \A i, j \in DOMAIN cc.queue : cc.queue[i] = cc.queue[j] /\ i # j => cc.queue[i] = "typed"
  /\ \A i \in DOMAIN cc.queue : cc.queue[i] # "typed" =>
       taken[cc.queue[i]] = None /\ server.state.pending[cc.queue[i]] # "none"
  /\ \A r \in Requests : taken[r] # None =>
       server.state.pending[r] # "none" /\ taken[r].number \in 1..cc.lastNumber
  /\ cc.lastNumber = 0 => files.log = <<>> /\ \A i \in DOMAIN cc.queue : cc.queue[i] # "typed"
  /\ cc.lastNumber > 0 => files.log # <<>>

\* No later id is given in the turn of this one.
LastOf(i) ==
  /\ \A j \in PromptIds : numberOf[j] = numberOf[i] => j <= i
  /\ cc.id # 0 /\ cc.number = numberOf[i] => cc.taking = 0

\* The records are in the order of the turns, and the end of a turn is the last of it.
Records ==
  /\ \A x \in Recs : x.at \in 1..now /\ x.id <= cc.lastId
  /\ \A x, y \in Recs : x.at < y.at => x.id <= y.id /\ (IsEnd(x) => NumberOf(x) < NumberOf(y))
  /\ \A x, y \in Recs : x.at = y.at => x = y
  /\ \A i, j \in DOMAIN files.log : i < j => files.log[i].at < files.log[j].at
  /\ files.log # <<>> => files.log[1].kind = "submit"
  /\ files.activity # None => files.log # <<>> /\ files.log[1].at < files.activity.at
  /\ files.stop # None => files.stop \in Range(files.log)
  /\ \A x \in Recs : IsEnd(x) /\ cc.id # 0 => NumberOf(x) < cc.number
  /\ \A x \in Recs : ~ByChannel(x) => LastOf(x.id)

\* The first record of an id of a served turn is the submit of a channel message.
Openers ==
  \A i \in PromptIds : numberOf[i] \in served =>
    \E y \in Range(files.log) :
      ByChannel(y) /\ y.id = i /\ \A x \in Recs : x.id = i => y.at <= x.at

\* A message has one submit, in the turn it was taken into, and a turn's end has
\* a text of that turn.
Messages ==
  /\ \A x \in Recs : ByChannel(x) => taken[x.request] # None /\ taken[x.request].number = NumberOf(x)
  /\ \A x, y \in Recs : ByChannel(x) /\ ByChannel(y) /\ x.request = y.request => x = y
  /\ \A r \in Requests : taken[r] # None => \E x \in Range(files.log) : ByChannel(x) /\ x.request = r
  /\ \A x \in Recs : IsEnd(x) /\ ~x.background /\ x.text # None =>
       x.kind = "stop" /\ x.text.number = NumberOf(x)

World == Numbers /\ InTurn /\ Queue /\ Records /\ Openers /\ Messages

\* The server has read what happened up to h.
Horizon(h) ==
  /\ h \in 0..now /\ server.activityRead <= h
  /\ server.read \in 0..Len(files.log)
  /\ \A i \in DOMAIN files.log : i <= server.read <=> files.log[i].at <= h
  /\ files.activity # None =>
       (files.activity.at = server.activityRead <=> files.activity.at <= h)

\* Nothing is known of any turn.
Fresh(S) ==
  /\ S.current = NoTurn
  /\ \A i \in PromptIds : S.ended[i] = None
  /\ \A r \in Requests : S.bound[r] = 0
  /\ S.heard = <<>>

\* What was read up to h had ids up to m; the rest has later ones, or still this
\* one, if its turn goes on.
Position(S, h, m) ==
  /\ m \in 0..cc.lastId
  /\ S.current.id \in {0, m}
  /\ m = 0 => Fresh(S) /\ \A x \in Recs : x.at > h
  /\ S.current.id = 0 /\ cc.id # 0 => cc.id > m
  /\ \A x \in Recs : IF x.at <= h THEN x.id <= m
                     ELSE x.id >= m /\ (S.current.id = 0 => x.id > m)
  /\ \A j \in PromptIds : (j > m => S.ended[j] = None) /\ (j >= m => S.alias[j] = j)
  /\ S.current.id # 0 => S.ended[m] = None

\* The current turn: a local one is none that a message started, and one that may
\* still take messages of its batch is the last without an end.
Turn(S, h, m) ==
  /\ IF S.current.id = 0 THEN S.current = NoTurn ELSE S.current.kind \in {"served", "local"}
  /\ S.current.kind = "local" => numberOf[m] \notin served /\ ~S.current.batch
  /\ m # 0 /\ ~S.current.batch => LastOf(m)
  /\ m # 0 => \A x \in Recs : IsEnd(x) /\ x.at <= h /\ NumberOf(x) = numberOf[m] => S.current.id = 0
  /\ files.activity # None /\ files.activity.at <= h /\ files.activity.id = S.current.id =>
       ~S.current.batch
  /\ \A n \in 1..cc.lastNumber :
       \/ n = cc.number
       \/ \E x \in Range(files.log) : IsEnd(x) /\ NumberOf(x) = n
       \/ m # 0 /\ (n < numberOf[m] \/ (n = numberOf[m] /\ ~S.current.batch))

\* The requests are bound to the turns they were taken into, those of the current
\* turn to the id it goes by; a text they end with is of their turn.
Bindings(S, h, m) ==
  /\ \A r \in Requests : S.deliveries[r].boundTo = S.bound[r]
  /\ \A r \in Requests : S.bound[r] # 0 =>
       /\ S.bound[r] <= m /\ taken[r] # None /\ taken[r].number = numberOf[S.bound[r]]
       /\ \E x \in Range(files.log) : ByChannel(x) /\ x.request = r /\ x.at <= h
  /\ \A x \in Recs : ByChannel(x) /\ x.at <= h /\ OpenIn(S, x.request) => S.bound[x.request] # 0
  /\ \A r \in Requests : S.current.id # 0 /\ OpenIn(S, r) /\ S.bound[r] # 0
                         /\ numberOf[S.bound[r]] = numberOf[m] =>
       S.bound[r] = m /\ r \in Range(S.current.requests)
  /\ \A r \in Range(S.current.requests) :
       /\ S.bound[r] # 0 /\ S.deliveries[r].at # -1
       /\ taken[r] # None /\ taken[r].number = numberOf[m]
  /\ \A r \in Requests : S.pending[r] # "none" => S.deliveries[r].at # -1
  /\ \A r \in Requests : S.deliveries[r].ended # None /\ S.deliveries[r].ended.text # None =>
       taken[r] # None /\ S.deliveries[r].ended.text.number = taken[r].number

Heard(S, m) ==
  /\ \A i \in DOMAIN S.heard :
       /\ S.heard[i].event = IF i % 2 = 1 THEN "started" ELSE "ended"
       /\ i % 2 = 0 => S.heard[i].id = S.heard[i - 1].id
       /\ S.heard[i].id <= m /\ numberOf[S.heard[i].id] \notin served
  /\ IF S.current.kind = "local"
     THEN Len(S.heard) % 2 = 1 /\ S.heard[Len(S.heard)].id = S.current.id
     ELSE Len(S.heard) % 2 = 0

\* What was answered, and what has ended.
Settled(S, h) ==
  /\ \A r \in Requests : S.text[r] # None => taken[r] # None /\ S.text[r].number = taken[r].number
  /\ \A x \in Recs : IsEnd(x) /\ ~x.background /\ x.at <= h =>
       \A r \in Requests : taken[r] # None /\ taken[r].number = NumberOf(x) => S.pending[r] # "open"

Follows(S, h, m) == Position(S, h, m) /\ Turn(S, h, m) /\ Bindings(S, h, m) /\ Heard(S, m)

\* While nothing was read, every open request waits for the first turn or is in it,
\* and so is the text of any Stop.
FirstTurn(r) ==
  \/ cc.lastNumber = 0 /\ \E i \in DOMAIN cc.queue : cc.queue[i] = r
  \/ cc.number = 1 /\ \E i \in 1..cc.taking : cc.queue[i] = r
  \/ taken[r] # None /\ taken[r].number = 1

FirstText(x) == x # None /\ ~x.background /\ x.text # None => x.text.number = 1

Unheard(S) ==
  /\ \A r \in Requests : OpenIn(S, r) => FirstTurn(r)
  /\ \A x \in Range(files.log) : IsEnd(x) => FirstText(x)
  /\ \A r \in Requests : FirstText(S.deliveries[r].firstStop)
                          /\ (S.deliveries[r].firstStop # None => files.stop # None)

Knows(S, h, m) ==
  /\ Follows(S, h, m) /\ Settled(S, h)
  /\ S.binding <=> m # 0
  /\ S.current.id # 0 => S.current.start <= h
  /\ m = 0 => Unheard(S)

InLine == files.open = [owning |-> Owning(server.state), open |-> OpenRequests(server.state)]

Inv ==
  /\ ClaudeTypes /\ RoutedToItsTurn
  /\ server.down => AnsweredFromItsTurn /\ LocalTurnsAreLocal /\ TurnEndsItsRequests
  /\ ~server.down =>
       /\ World /\ InLine
       /\ \E h \in Nat, m \in 0..LastId : Horizon(h) /\ Knows(server.state, h, m)

-----------------------------------------------------------------------------
(* The records, and the next one the server reads. *)

LEMMA LoggedTypes ==
  ASSUME NEW log \in Seq(Submits \cup TurnEnds), NEW act \in ToolCalls \cup {None},
         NEW x \in Range(log) \cup ({act} \ {None})
  PROVE  /\ x.id \in PromptIds /\ x.at \in Nat
         /\ x.kind \in {"submit", "activity", "stop", "failure"}
         /\ x.kind = "submit" => x.request \in Requests \cup {None}
         /\ IsEnd(x) => x \in TurnEnds
         /\ x.kind = "activity" => x \in ToolCalls
         /\ x.kind # "activity" => x \in Range(log)
         /\ x \notin Range(log) => x = act
<1>1. CASE x \in Range(log)
  <2>1. PICK i \in DOMAIN log : x = log[i]
    BY <1>1 DEF Range
  <2>2. x \in Submits \cup TurnEnds
    BY <2>1
  <2>3. CASE x \in Submits
    BY <1>1, <2>3 DEF Submits, IsEnd
  <2>4. CASE x \in TurnEnds
    BY <1>1, <2>4 DEF TurnEnds, IsEnd
  <2>. QED  BY <2>2, <2>3, <2>4
<1>2. CASE x \notin Range(log)
  <2>1. x = act /\ x \in ToolCalls
    BY <1>2
  <2>. QED  BY <1>2, <2>1 DEF ToolCalls, IsEnd
<1>3. QED
  BY <1>1, <1>2

LEMMA RecordTypes ==
  ASSUME ClaudeTypes, NEW x \in Recs
  PROVE  /\ x.id \in PromptIds /\ x.at \in Nat
         /\ x.kind \in {"submit", "activity", "stop", "failure"}
         /\ x.kind = "submit" => x.request \in Requests \cup {None}
         /\ ByChannel(x) => x.request \in Requests
         /\ IsEnd(x) => x \in TurnEnds
         /\ x.kind = "activity" => x \in ToolCalls
         /\ x.kind # "activity" => x \in Range(files.log)
         /\ x \notin Range(files.log) => x = files.activity
<1>1. files.log \in Seq(Submits \cup TurnEnds) /\ files.activity \in ToolCalls \cup {None}
  BY DEF ClaudeTypes
<1>2. x \in Range(files.log) \cup ({files.activity} \ {None})
  BY DEF Recs
<1>3. QED
  BY <1>1, <1>2, LoggedTypes DEF ByChannel

(* The numbers are naturals; an id in use has one.                         *)
LEMMA NumberTypes ==
  ASSUME ClaudeTypes, Numbers
  PROVE  /\ cc.lastId \in 0..LastId /\ cc.lastNumber \in Nat /\ cc.number \in Nat
         /\ cc.id \in 0..LastId /\ cc.taking \in Nat
         /\ \A i \in PromptIds : numberOf[i] \in Nat /\ i \in Nat /\ i # 0
         /\ \A i \in PromptIds : i <= cc.lastId => numberOf[i] >= 1 /\ numberOf[i] <= cc.lastNumber
         /\ \A i \in PromptIds : i > cc.lastId => numberOf[i] = 0
  BY PromptIdsAreIntegers DEF ClaudeTypes, Numbers

(* The next record has an id the tracker has not ended, the one it knows of*)
(* last or a later one; and a later one is of the same turn only if both   *)
(* came in one batch.                                                      *)
LEMMA NextRecord ==
  ASSUME ClaudeTypes, World, NEW S \in Servers, NEW h \in Nat, NEW m \in 0..LastId,
         Position(S, h, m), Turn(S, h, m), NEW x \in Recs, x.at = h + 1
  PROVE  /\ x.id \in PromptIds /\ x.id >= m /\ x.id <= cc.lastId
         /\ S.alias[x.id] = x.id /\ S.ended[x.id] = None
         /\ S.current.id = 0 => x.id > m
         /\ \A y \in Recs : y.at > h => y.id >= x.id
         /\ \A y \in Recs : y.at <= h + 1 => y.id <= x.id
<1>. USE PromptIdsAreIntegers
<1>1. x.id \in PromptIds /\ x.id <= cc.lastId
  BY RecordTypes DEF World, Records
<1>2. x.id >= m /\ (S.current.id = 0 => x.id > m)
  BY DEF Position
<1>3. m \in Nat /\ S.current.id \in {0, m}
  BY DEF Position
<1>4. S.alias[x.id] = x.id
  BY <1>1, <1>2 DEF Position
<1>5. S.ended[x.id] = None
  <2>1. CASE x.id > m
    BY <1>1, <2>1 DEF Position
  <2>2. CASE x.id = m
    BY <1>1, <1>2, <1>3, <2>2 DEF Position
  <2>. QED  BY <1>1, <1>2, <1>3, <2>1, <2>2
<1>6. ASSUME NEW y \in Recs, y.at > h PROVE y.id >= x.id
  <2>1. y.at \in Nat /\ y.id \in PromptIds /\ x.id \in PromptIds
    BY RecordTypes
  <2>2. CASE y.at = x.at
    BY <2>1, <2>2 DEF World, Records
  <2>3. CASE x.at < y.at
    BY <2>1, <2>3 DEF World, Records
  <2>. QED  BY <1>6, <2>1, <2>2, <2>3
<1>7. ASSUME NEW y \in Recs, y.at <= h + 1 PROVE y.id <= x.id
  <2>1. y.at \in Nat /\ y.id \in PromptIds /\ x.id \in PromptIds
    BY RecordTypes
  <2>2. CASE y.at = x.at
    BY <2>1, <2>2 DEF World, Records
  <2>3. CASE y.at < x.at
    BY <2>1, <2>3 DEF World, Records
  <2>. QED  BY <1>7, <2>1, <2>2, <2>3
<1>8. QED
  BY <1>1, <1>2, <1>4, <1>5, <1>6, <1>7

(* Ids in use of one turn beside a record that is no channel submit.       *)
LEMMA LaterTurn ==
  ASSUME ClaudeTypes, World, NEW S \in Servers, NEW h \in Nat, NEW m \in 0..LastId,
         Position(S, h, m), Turn(S, h, m), NEW x \in Recs, x.at = h + 1, x.id > m
  PROVE  /\ ~ByChannel(x) => numberOf[x.id] \notin served
         /\ m # 0 => numberOf[m] <= numberOf[x.id]
         /\ m # 0 /\ ~ByChannel(x) => numberOf[m] < numberOf[x.id]
         /\ m # 0 /\ ~S.current.batch => numberOf[m] < numberOf[x.id]
         /\ S.current.batch /\ ByChannel(x) => numberOf[m] = numberOf[x.id]
         /\ m # 0 /\ numberOf[m] < numberOf[x.id] => LastOf(m)
<1>. USE PromptIdsAreIntegers
<1>1. /\ x.id \in PromptIds /\ x.id <= cc.lastId
      /\ \A y \in Recs : y.at > h => y.id >= x.id
      /\ \A y \in Recs : y.at <= h + 1 => y.id <= x.id
  BY NextRecord
<1>2. m \in Nat /\ (m # 0 => m \in PromptIds)
  OBVIOUS
<1>3. /\ cc.lastId \in 0..LastId /\ cc.lastNumber \in Nat /\ cc.number \in Nat
      /\ cc.id \in 0..LastId /\ cc.taking \in Nat
      /\ \A i \in PromptIds : numberOf[i] \in Nat
  BY NumberTypes DEF World
<1>4. m # 0 => numberOf[m] <= numberOf[x.id]
  BY <1>1, <1>2 DEF World, Numbers
<1>5. ~ByChannel(x) => numberOf[x.id] \notin served
  <2>. SUFFICES ASSUME ~ByChannel(x), numberOf[x.id] \in served PROVE FALSE
    OBVIOUS
  <2>1. PICK y \in Range(files.log) :
               ByChannel(y) /\ y.id = x.id /\ \A z \in Recs : z.id = x.id => y.at <= z.at
    BY <1>1 DEF World, Openers
  <2>2. y \in Recs /\ y.at <= x.at /\ y # x
    BY <2>1 DEF Recs
  <2>3. y.at \in Nat
    BY <2>2, RecordTypes
  <2>4. y.at # x.at
    BY <2>2 DEF World, Records
  <2>5. y.at <= h
    BY <2>2, <2>3, <2>4
  <2>6. y.id <= m
    BY <2>2, <2>5 DEF Position
  <2>. QED  BY <1>1, <1>2, <2>1, <2>6
<1>6. m # 0 /\ ~ByChannel(x) => numberOf[m] < numberOf[x.id]
  <2>1. m # 0 /\ numberOf[m] = numberOf[x.id] => numberOf[x.id] \in served
    BY <1>1, <1>2 DEF World, Numbers
  <2>. QED  BY <1>1, <1>2, <1>3, <1>4, <1>5, <2>1
<1>7. m # 0 /\ ~S.current.batch => numberOf[m] < numberOf[x.id]
  <2>1. m # 0 /\ ~S.current.batch => numberOf[x.id] # numberOf[m]
    BY <1>1, <1>2 DEF Turn, LastOf
  <2>. QED  BY <1>1, <1>2, <1>3, <1>4, <2>1
<1>8. S.current.batch /\ ByChannel(x) => numberOf[m] = numberOf[x.id]
  <2>. SUFFICES ASSUME S.current.batch, numberOf[m] # numberOf[x.id] PROVE FALSE
    OBVIOUS
  <2>1. S.current.id = m /\ m # 0 /\ m \in PromptIds
    BY DEF Position, Turn, NoTurn
  <2>2. numberOf[m] < numberOf[x.id] /\ numberOf[x.id] <= cc.lastNumber /\ numberOf[m] >= 1
    <3>1. m <= cc.lastId
      BY <1>1, <1>2, <1>3
    <3>. QED  BY <1>1, <1>3, <1>4, <2>1, <3>1, NumberTypes DEF World
  <2>3. numberOf[m] # cc.number
    <3>1. CASE cc.id = 0
      BY <2>2, <3>1 DEF World, Numbers
    <3>2. CASE cc.id # 0
      BY <1>1, <1>3, <2>1, <2>2, <3>2 DEF World, Numbers
    <3>. QED  BY <3>1, <3>2
  <2>4. numberOf[m] \in 1..cc.lastNumber
    BY <1>1, <1>3, <2>1, <2>2
  <2>5. PICK y \in Range(files.log) : IsEnd(y) /\ NumberOf(y) = numberOf[m]
    BY <1>3, <2>1, <2>3, <2>4 DEF Turn
  <2>6. y \in Recs
    BY DEF Recs
  <2>7. y.at \in Nat /\ y.id \in PromptIds
    BY <2>6, RecordTypes
  <2>8. CASE y.at <= h
    BY <2>1, <2>5, <2>6, <2>8 DEF Turn
  <2>9. CASE y.at > h
    <3>1. y.id >= x.id
      BY <1>1, <2>6, <2>9
    <3>2. y.id <= cc.lastId
      BY <2>6 DEF World, Records
    <3>3. numberOf[x.id] <= numberOf[y.id]
      BY <1>1, <2>7, <3>1, <3>2 DEF World, Numbers
    <3>. QED  BY <1>1, <1>3, <2>1, <2>2, <2>5, <2>7, <3>3 DEF NumberOf
  <2>. QED  BY <2>7, <2>8, <2>9
<1>9. ASSUME m # 0, numberOf[m] < numberOf[x.id] PROVE LastOf(m)
  <2>0. m \in PromptIds
    BY <1>2, <1>9
  <2>1. ASSUME NEW j \in PromptIds, numberOf[j] = numberOf[m], j > m PROVE FALSE
    <3>1. j <= cc.lastId
      <4>1. numberOf[m] >= 1
        BY <1>1, <1>3, <2>0, NumberTypes DEF World
      <4>. QED  BY <1>3, <2>0, <2>1, <4>1, NumberTypes DEF World
    <3>2. numberOf[m] \in served
      BY <2>0, <2>1, <3>1 DEF World, Numbers
    <3>3. PICK y \in Range(files.log) :
                 ByChannel(y) /\ y.id = j /\ \A z \in Recs : z.id = j => y.at <= z.at
      BY <2>1, <3>2 DEF World, Openers
    <3>4. y \in Recs
      BY <3>3 DEF Recs
    <3>5. y.at > h
      <4>1. y.at \in Nat
        BY <3>4, RecordTypes
      <4>2. y.at <= h => y.id <= m
        BY <3>4 DEF Position
      <4>. QED  BY <2>1, <3>3, <4>1, <4>2
    <3>6. j >= x.id
      BY <1>1, <3>3, <3>4, <3>5
    <3>7. numberOf[x.id] <= numberOf[j]
      BY <1>1, <2>1, <3>1, <3>6 DEF World, Numbers
    <3>. QED  BY <1>1, <1>3, <1>9, <2>0, <2>1, <3>7
  <2>2. cc.id # 0 => cc.number # numberOf[m]
    <3>1. numberOf[x.id] <= cc.lastNumber
      BY <1>1, NumberTypes DEF World
    <3>2. cc.id # 0 => cc.number = cc.lastNumber
      BY DEF World, Numbers
    <3>. QED  BY <1>1, <1>3, <1>9, <2>0, <3>1, <3>2
  <2>. QED  BY <1>2, <2>1, <2>2 DEF LastOf
<1>10. QED
  BY <1>4, <1>5, <1>6, <1>7, <1>8, <1>9

-----------------------------------------------------------------------------
(* Each thing the tracker does with the next record x keeps to the turns.  *)

LEMMA Parity ==
  ASSUME NEW n \in Nat
  PROVE  /\ n % 2 \in {0, 1}
         /\ n % 2 = 0 <=> (n + 1) % 2 = 1
         /\ n % 2 = 1 <=> (n + 1) % 2 = 0
         /\ n % 2 = 1 => n # 0
         /\ n % 2 = 0 => n # 1
  OBVIOUS

LEMMA HeardTypes ==
  ASSUME NEW S \in Servers
  PROVE  /\ S.heard \in Seq([event : {"started", "ended"}, id : PromptIds])
         /\ Len(S.heard) \in Nat /\ DOMAIN S.heard = 1..Len(S.heard)
         /\ \A i \in DOMAIN S.heard : S.heard[i].id \in PromptIds /\ S.heard[i].id \in Nat
<1>1. S.heard \in Seq([event : {"started", "ended"}, id : PromptIds])
  BY DEF Servers
<1>2. Len(S.heard) \in Nat /\ DOMAIN S.heard = 1..Len(S.heard)
  BY <1>1
<1>3. ASSUME NEW i \in DOMAIN S.heard PROVE S.heard[i].id \in PromptIds
  <2>1. S.heard[i] \in [event : {"started", "ended"}, id : PromptIds]
    BY <1>1, <1>2, ElementOfSeq
  <2>. QED  BY <2>1
<1>4. QED
  BY <1>1, <1>2, <1>3, PromptIdsAreIntegers

(* The extensions hear of one turn after another.                          *)
LEMMA HeardOneMore ==
  ASSUME NEW S \in Servers, NEW T \in Servers, NEW m \in Nat, NEW k \in PromptIds, m <= k,
         Heard(S, m),
         \/ /\ S.current.kind # "local" /\ T.current.kind = "local" /\ T.current.id = k
            /\ T.heard = Append(S.heard, [event |-> "started", id |-> k])
            /\ numberOf[k] \notin served
         \/ /\ S.current.kind = "local" /\ T.current.kind # "local" /\ S.current.id = k
            /\ T.heard = Append(S.heard, [event |-> "ended", id |-> k])
  PROVE  Heard(T, k)
<1>. DEFINE n == Len(S.heard)
            e == IF S.current.kind # "local" THEN [event |-> "started", id |-> k]
                 ELSE [event |-> "ended", id |-> k]
<1>1. S.heard \in Seq([event : {"started", "ended"}, id : PromptIds]) /\ n \in Nat
  BY DEF Servers
<1>2. e \in [event : {"started", "ended"}, id : PromptIds]
  OBVIOUS
<1>3. T.heard = Append(S.heard, e)
  OBVIOUS
<1>4. /\ Len(T.heard) = n + 1 /\ T.heard[n + 1] = e
      /\ \A i \in 1..n : T.heard[i] = S.heard[i]
      /\ DOMAIN T.heard = 1..(n + 1) /\ DOMAIN S.heard = 1..n
  BY <1>1, <1>2, <1>3
<1>5. /\ n % 2 \in {0, 1} /\ (n % 2 = 0 <=> (n + 1) % 2 = 1) /\ (n % 2 = 1 <=> (n + 1) % 2 = 0)
      /\ n % 2 = 1 => n # 0
      /\ \A i \in 1..n : i % 2 = 0 => i # 1
  BY <1>1, Parity
<1>6. ASSUME NEW i \in 1..n
      PROVE  /\ T.heard[i].event = IF i % 2 = 1 THEN "started" ELSE "ended"
             /\ i % 2 = 0 => T.heard[i].id = T.heard[i - 1].id
             /\ T.heard[i].id <= k /\ numberOf[T.heard[i].id] \notin served
  <2>1. /\ S.heard[i].event = IF i % 2 = 1 THEN "started" ELSE "ended"
        /\ i % 2 = 0 => S.heard[i].id = S.heard[i - 1].id
        /\ S.heard[i].id <= m /\ numberOf[S.heard[i].id] \notin served
    BY <1>4 DEF Heard
  <2>2. S.heard[i].id \in Nat /\ k \in Nat
    <3>1. S.heard[i] \in [event : {"started", "ended"}, id : PromptIds]
      BY <1>1, ElementOfSeq
    <3>. QED  BY <3>1, PromptIdsAreIntegers
  <2>3. i % 2 = 0 => i - 1 \in 1..n
    <3>1. i % 2 = 0 => i # 1
      BY <1>5
    <3>. HIDE DEF n
    <3>2. i # 1 => i - 1 \in 1..n
      BY <1>1
    <3>. QED  BY <3>1, <3>2
  <2>4. T.heard[i] = S.heard[i] /\ (i % 2 = 0 => T.heard[i - 1] = S.heard[i - 1])
    BY <1>4, <2>3
  <2>. QED  BY <2>1, <2>2, <2>4
<1>7. CASE S.current.kind # "local"
  <2>1. n % 2 = 0
    BY <1>7 DEF Heard
  <2>2. e = [event |-> "started", id |-> k] /\ e.event = "started" /\ e.id = k
    BY <1>7
  <2>3. T.current.kind = "local" /\ T.current.id = k /\ numberOf[k] \notin served
    BY <1>7
  <2>. HIDE DEF e
  <2>4. \A i \in DOMAIN T.heard :
         /\ T.heard[i].event = IF i % 2 = 1 THEN "started" ELSE "ended"
         /\ i % 2 = 0 => T.heard[i].id = T.heard[i - 1].id
         /\ T.heard[i].id <= k /\ numberOf[T.heard[i].id] \notin served
    <3>1. (n + 1) % 2 = 1
      BY <1>5, <2>1
    <3>2. k <= k
      BY PromptIdsAreIntegers
    <3>3. ASSUME NEW i \in DOMAIN T.heard PROVE i \in 1..n \/ i = n + 1
      BY <1>1, <1>4
    <3>. HIDE DEF n
    <3>. QED  BY <1>4, <1>6, <2>2, <2>3, <3>1, <3>2, <3>3
  <2>. QED  BY <1>4, <1>5, <2>1, <2>2, <2>3, <2>4 DEF Heard
<1>8. CASE S.current.kind = "local"
  <2>1. n % 2 = 1 /\ S.heard[n].id = k
    BY <1>8 DEF Heard
  <2>2. e = [event |-> "ended", id |-> k] /\ e.event = "ended" /\ e.id = k
    BY <1>8
  <2>3. T.current.kind # "local"
    BY <1>8
  <2>4. n # 0
    BY <1>5, <2>1
  <2>5. n \in 1..n
    BY <1>1, <2>4
  <2>6. numberOf[k] \notin served
    BY <1>6, <1>4, <2>1, <2>5
  <2>. HIDE DEF e
  <2>7. \A i \in DOMAIN T.heard :
         /\ T.heard[i].event = IF i % 2 = 1 THEN "started" ELSE "ended"
         /\ i % 2 = 0 => T.heard[i].id = T.heard[i - 1].id
         /\ T.heard[i].id <= k /\ numberOf[T.heard[i].id] \notin served
    <3>1. (n + 1) % 2 = 0 /\ (n + 1) - 1 = n
      <4>. HIDE DEF n
      <4>. QED  BY <1>1, <1>5, <2>1
    <3>2. k <= k
      BY PromptIdsAreIntegers
    <3>3. ASSUME NEW i \in DOMAIN T.heard PROVE i \in 1..n \/ i = n + 1
      BY <1>1, <1>4
    <3>4. T.heard[n].id = k
      BY <1>4, <2>1, <2>5
    <3>5. 0 # 1
      OBVIOUS
    <3>. HIDE DEF n
    <3>. QED  BY <1>4, <1>6, <2>2, <2>6, <3>1, <3>2, <3>3, <3>4, <3>5
  <2>. QED  BY <1>4, <1>5, <2>1, <2>3, <2>7 DEF Heard
<1>9. QED
  BY <1>7, <1>8

(* The current turn ends.                                                  *)
LEMMA EndKeeps ==
  ASSUME ClaudeTypes, World, NEW S \in Servers, NEW h \in Nat, NEW m \in PromptIds,
         Turn(S, h, m), Bindings(S, h, m), Heard(S, m), S.current.id = m, LastOf(m),
         NEW end \in Endings, Final(end) /\ TextOf(end) # None => TextOf(end).number = numberOf[m],
         NEW T, T = End(S, end)
  PROVE  Turn(T, h, m) /\ Bindings(T, h, m) /\ Heard(T, m)
<1>1. /\ T \in Servers /\ SamePending(S, T)
      /\ T.current = NoTurn /\ T.binding = S.binding /\ T.bound = S.bound /\ T.alias = S.alias
      /\ T.ended = [S.ended EXCEPT ![m] = S.current.requests]
      /\ T.heard = IF S.current.kind = "local"
                   THEN Append(S.heard, [event |-> "ended", id |-> m]) ELSE S.heard
      /\ \A r \in Requests :
           /\ T.deliveries[r].at = S.deliveries[r].at
           /\ T.deliveries[r].boundTo = S.deliveries[r].boundTo
           /\ \/ T.deliveries[r].ended = S.deliveries[r].ended
              \/ /\ S.deliveries[r].boundTo = m /\ Final(end)
                 /\ T.deliveries[r].ended = [text |-> TextOf(end)]
  <2>1. Ended(S, T, end)
    BY EndChanges, PromptIdsAreIntegers
  <2>. QED  BY <2>1 DEF Ended
<1>2. T.current.id = 0 /\ T.current.kind = "none" /\ ~T.current.batch /\ T.current.requests = <<>>
  BY <1>1 DEF NoTurn
<1>3. m # 0 /\ m \in Nat
  BY PromptIdsAreIntegers
<1>4. Turn(T, h, m)
  <2>1. \A n \in 1..cc.lastNumber :
       \/ n = cc.number
       \/ \E x \in Range(files.log) : IsEnd(x) /\ NumberOf(x) = n
       \/ m # 0 /\ (n < numberOf[m] \/ (n = numberOf[m] /\ ~T.current.batch))
    BY <1>2 DEF Turn
  <2>. QED  BY <1>1, <1>2, <2>1 DEF Turn
<1>5. Bindings(T, h, m)
  <2>1. \A r \in Requests : OpenIn(T, r) = OpenIn(S, r) /\ T.pending[r] = S.pending[r]
    BY <1>1 DEF OpenIn, SamePending
  <2>2. \A r \in Range(T.current.requests) : FALSE
    BY <1>2 DEF Range
  <2>3. ASSUME NEW r \in Requests, T.deliveries[r].ended # None, T.deliveries[r].ended.text # None
        PROVE  taken[r] # None /\ T.deliveries[r].ended.text.number = taken[r].number
    <3>1. CASE T.deliveries[r].ended = S.deliveries[r].ended
      BY <2>3, <3>1 DEF Bindings
    <3>2. CASE S.deliveries[r].boundTo = m /\ Final(end) /\ T.deliveries[r].ended = [text |-> TextOf(end)]
      <4>1. T.deliveries[r].ended.text = TextOf(end)
        BY <3>2
      <4>2. TextOf(end).number = numberOf[m]
        BY <2>3, <3>2, <4>1
      <4>3. S.bound[r] = m
        BY <3>2 DEF Bindings
      <4>4. taken[r] # None /\ taken[r].number = numberOf[m]
        BY <1>3, <4>3 DEF Bindings
      <4>. QED  BY <4>1, <4>2, <4>4
    <3>. QED  BY <1>1, <3>1, <3>2
  <2>4. \A x \in Recs : ByChannel(x) /\ x.at <= h /\ OpenIn(T, x.request) => T.bound[x.request] # 0
    BY <1>1, <2>1, RecordTypes DEF Bindings
  <2>5. /\ \A r \in Requests : T.deliveries[r].boundTo = T.bound[r]
        /\ \A r \in Requests : T.bound[r] # 0 =>
             /\ T.bound[r] <= m /\ taken[r] # None /\ taken[r].number = numberOf[T.bound[r]]
             /\ \E x \in Range(files.log) : ByChannel(x) /\ x.request = r /\ x.at <= h
        /\ \A r \in Requests : T.pending[r] # "none" => T.deliveries[r].at # -1
    BY <1>1, <2>1 DEF Bindings
  <2>. QED  BY <1>2, <2>2, <2>3, <2>4, <2>5 DEF Bindings
<1>6. Heard(T, m)
  <2>1. CASE S.current.kind = "local"
    <3>1. m <= m /\ T.current.kind # "local"
      BY <1>2, <1>3
    <3>2. T.heard = Append(S.heard, [event |-> "ended", id |-> m])
      BY <1>1, <2>1
    <3>. QED  BY <1>1, <1>3, <2>1, <3>1, <3>2, HeardOneMore
  <2>2. CASE S.current.kind # "local"
    <3>1. T.heard = S.heard /\ T.current.kind # "local"
      BY <1>1, <1>2, <2>2
    <3>. QED  BY <2>2, <3>1 DEF Heard
  <2>. QED  BY <2>1, <2>2
<1>7. QED
  BY <1>4, <1>5, <1>6

\* A turn that begins with x: a served one with a channel message, or a local one.
Begun(S, T, x) ==
  /\ SameLedger(S, T)
  /\ T.current.id = x.id /\ T.current.requests = <<>>
  /\ \/ /\ ByChannel(x) /\ T.current.kind = "served" /\ T.current.batch
        /\ T.heard = S.heard
     \/ /\ ~ByChannel(x) /\ T.current.kind = "local" /\ ~T.current.batch
        /\ T.heard = Append(S.heard, [event |-> "started", id |-> x.id])

LEMMA BeginKeeps ==
  ASSUME ClaudeTypes, World, NEW S \in Servers, NEW h \in Nat, NEW m \in 0..LastId,
         Follows(S, h, m), S.current.id = 0, NEW x \in Recs, x.at = h + 1,
         NEW T \in Servers, Begun(S, T, x)
  PROVE  Follows(T, h, x.id)
<1>. USE PromptIdsAreIntegers
<1>. DEFINE k == x.id
<1>1. /\ k \in PromptIds /\ k <= cc.lastId
      /\ S.alias[k] = k /\ S.ended[k] = None /\ k > m
      /\ \A y \in Recs : y.at > h => y.id >= k
  BY NextRecord DEF Follows
<1>2. /\ ~ByChannel(x) => numberOf[k] \notin served
      /\ m # 0 => numberOf[m] < numberOf[k]
  <2>1. ~S.current.batch
    BY DEF Follows, Turn, NoTurn
  <2>. QED  BY <1>1, <2>1, LaterTurn DEF Follows
<1>3. /\ cc.lastId \in 0..LastId /\ cc.lastNumber \in Nat
      /\ \A i \in PromptIds : numberOf[i] \in Nat /\ i \in Nat /\ i # 0
      /\ k \in Nat /\ k # 0 /\ m \in Nat /\ (m # 0 => m \in PromptIds)
  BY <1>1, NumberTypes DEF World
<1>4. Position(T, h, k)
  <2>1. k \in 0..cc.lastId
    BY <1>1, <1>3
  <2>2. ASSUME NEW y \in Recs, y.at <= h PROVE y.id <= k
    <3>1. y.id <= m /\ y.id \in PromptIds
      BY <2>2, RecordTypes DEF Follows, Position
    <3>. QED  BY <1>1, <1>3, <3>1
  <2>3. \A y \in Recs : y.at \in Nat
    BY RecordTypes
  <2>4. \A j \in PromptIds : (j > k => S.ended[j] = None) /\ (j >= k => S.alias[j] = j)
    BY <1>1, <1>3 DEF Follows, Position
  <2>5. T.current.id = k /\ k # 0 /\ T.ended = S.ended /\ T.alias = S.alias
    BY <1>3 DEF Begun, SameLedger
  <2>. HIDE DEF k
  <2>. QED  BY <1>1, <1>3, <2>1, <2>2, <2>3, <2>4, <2>5 DEF Position
<1>5. Turn(T, h, k)
  <2>1. ASSUME NEW y \in Recs, IsEnd(y), y.at <= h, NumberOf(y) = numberOf[k] PROVE FALSE
    <3>1. y.id \in PromptIds /\ y.id <= m
      BY <2>1, RecordTypes DEF Follows, Position
    <3>2. m \in PromptIds /\ m <= cc.lastId
      BY <1>1, <1>3, <3>1
    <3>3. numberOf[y.id] <= numberOf[m]
      BY <3>1, <3>2 DEF World, Numbers
    <3>. QED  BY <1>1, <1>2, <1>3, <2>1, <3>1, <3>2, <3>3 DEF NumberOf
  <2>2. files.activity # None /\ files.activity.at <= h => files.activity.id # k
    <3>. SUFFICES ASSUME files.activity # None, files.activity.at <= h, files.activity.id = k PROVE FALSE
      OBVIOUS
    <3>1. files.activity \in Recs
      BY DEF Recs
    <3>2. files.activity.id <= m
      BY <3>1 DEF Follows, Position
    <3>. QED  BY <1>1, <1>3, <3>2
  <2>3. ASSUME NEW n \in 1..cc.lastNumber
        PROVE \/ n = cc.number
              \/ \E y \in Range(files.log) : IsEnd(y) /\ NumberOf(y) = n
              \/ n < numberOf[k]
              \/ n = numberOf[k] /\ ~T.current.batch
    <3>1. \/ n = cc.number
          \/ \E y \in Range(files.log) : IsEnd(y) /\ NumberOf(y) = n
          \/ m # 0 /\ (n < numberOf[m] \/ (n = numberOf[m] /\ ~S.current.batch))
      BY DEF Follows, Turn
    <3>. QED  BY <1>1, <1>2, <1>3, <3>1
  <2>4. T.current.batch => ByChannel(x)
    BY DEF Begun
  <2>5. ~ByChannel(x) => LastOf(k)
    BY DEF World, Records
  <2>6. T.current.id = k /\ T.current.kind \in {"served", "local"}
        /\ (T.current.kind = "local" => ~ByChannel(x) /\ ~T.current.batch)
        /\ (ByChannel(x) => T.current.batch)
    BY DEF Begun
  <2>. HIDE DEF k
  <2>7. \A y \in Recs : IsEnd(y) /\ y.at <= h /\ NumberOf(y) = numberOf[k] => T.current.id = 0
    BY <2>1
  <2>8. \A n \in 1..cc.lastNumber :
          \/ n = cc.number
          \/ \E y \in Range(files.log) : IsEnd(y) /\ NumberOf(y) = n
          \/ k # 0 /\ (n < numberOf[k] \/ (n = numberOf[k] /\ ~T.current.batch))
    BY <1>3, <2>3
  <2>. QED  BY <1>2, <1>3, <2>2, <2>4, <2>5, <2>6, <2>7, <2>8 DEF Turn
<1>6. Bindings(T, h, k)
  <2>1. /\ T.deliveries = S.deliveries /\ T.bound = S.bound /\ T.pending = S.pending
        /\ T.current.requests = <<>>
    BY DEF Begun, SameLedger
  <2>2. \A r \in Requests : OpenIn(T, r) = OpenIn(S, r)
    BY <2>1 DEF OpenIn
  <2>3. \A r \in Range(T.current.requests) : FALSE
    BY <2>1 DEF Range
  <2>4. ASSUME NEW r \in Requests, S.bound[r] # 0
        PROVE  S.bound[r] <= k /\ numberOf[S.bound[r]] # numberOf[k]
    <3>1. S.bound[r] \in PromptIds /\ S.bound[r] <= m
      BY <2>4 DEF Servers, Follows, Bindings
    <3>2. m \in PromptIds /\ m <= cc.lastId
      BY <1>1, <1>3, <3>1
    <3>3. numberOf[S.bound[r]] <= numberOf[m]
      BY <3>1, <3>2 DEF World, Numbers
    <3>. QED  BY <1>1, <1>2, <1>3, <3>1, <3>2, <3>3
  <2>5. \A y \in Recs : ByChannel(y) /\ y.at <= h /\ OpenIn(T, y.request) => T.bound[y.request] # 0
    BY <2>1, <2>2, RecordTypes DEF Follows, Bindings
  <2>6. \A r \in Requests : T.bound[r] # 0 =>
             /\ T.bound[r] <= k /\ taken[r] # None /\ taken[r].number = numberOf[T.bound[r]]
             /\ \E y \in Range(files.log) : ByChannel(y) /\ y.request = r /\ y.at <= h
    BY <2>1, <2>4 DEF Follows, Bindings
  <2>7. /\ \A r \in Requests : T.deliveries[r].boundTo = T.bound[r]
        /\ \A r \in Requests : T.pending[r] # "none" => T.deliveries[r].at # -1
        /\ \A r \in Requests : T.deliveries[r].ended # None /\ T.deliveries[r].ended.text # None =>
             taken[r] # None /\ T.deliveries[r].ended.text.number = taken[r].number
    BY <2>1 DEF Follows, Bindings
  <2>8. \A r \in Requests : T.bound[r] # 0 => numberOf[T.bound[r]] # numberOf[k]
    BY <2>1, <2>4
  <2>. QED  BY <2>3, <2>5, <2>6, <2>7, <2>8 DEF Bindings
<1>7. Heard(T, k)
  <2>1. Heard(S, m) /\ m <= k /\ S.current.kind # "local"
    <3>1. S.current = NoTurn
      BY DEF Follows, Turn
    <3>2. NoTurn.kind # "local"
      BY DEF NoTurn
    <3>. QED  BY <1>1, <1>3, <3>1, <3>2 DEF Follows
  <2>2. CASE ByChannel(x)
    <3>1. T.heard = S.heard /\ T.current.kind # "local"
      BY <2>2 DEF Begun
    <3>2. \A i \in DOMAIN S.heard : S.heard[i].id <= m => S.heard[i].id <= k
      <4>. SUFFICES ASSUME NEW i \in DOMAIN S.heard, S.heard[i].id <= m PROVE S.heard[i].id <= k
        OBVIOUS
      <4>2. S.heard[i].id \in Nat
        BY HeardTypes
      <4>. HIDE DEF k
      <4>. QED  BY <1>1, <1>3, <4>2
    <3>. HIDE DEF k
    <3>. QED  BY <2>1, <3>1, <3>2 DEF Heard
  <2>3. CASE ~ByChannel(x)
    <3>1. /\ T.current.kind = "local" /\ T.current.id = k
          /\ T.heard = Append(S.heard, [event |-> "started", id |-> k])
          /\ numberOf[k] \notin served
      BY <1>2, <2>3 DEF Begun
    <3>. HIDE DEF k
    <3>. QED  BY <1>1, <1>3, <2>1, <3>1, HeardOneMore
  <2>. QED  BY <2>2, <2>3
<1>8. QED
  BY <1>4, <1>5, <1>6, <1>7 DEF Follows

(* The current turn goes by the id of x, which came in its batch.          *)
LEMMA RenameKeeps ==
  ASSUME ClaudeTypes, World, NEW S \in Servers, NEW h \in Nat, NEW m \in 0..LastId,
         Follows(S, h, m), S.current.batch, NEW x \in Recs, x.at = h + 1, x.id > m, ByChannel(x),
         NEW T, T = Rename(S, x.id)
  PROVE  Follows(T, h, x.id)
<1>. USE PromptIdsAreIntegers
<1>. DEFINE k == x.id
            mine == Range(S.current.requests)
<1>1. /\ k \in PromptIds /\ k <= cc.lastId
      /\ S.alias[k] = k /\ S.ended[k] = None /\ k > m
      /\ \A y \in Recs : y.at > h => y.id >= k
  BY NextRecord DEF Follows
<1>2. numberOf[m] = numberOf[k]
  BY LaterTurn DEF Follows
<1>3. /\ cc.lastId \in 0..LastId /\ cc.lastNumber \in Nat
      /\ \A i \in PromptIds : numberOf[i] \in Nat /\ i \in Nat /\ i # 0
      /\ k \in Nat /\ k # 0 /\ m \in Nat
  BY <1>1, NumberTypes DEF World
<1>4. S.current.id = m /\ m # 0 /\ m \in PromptIds /\ S.current.kind = "served"
  <2>1. S.current.id # 0
    BY DEF Follows, Turn, NoTurn
  <2>. QED  BY <2>1 DEF Follows, Turn, Position
<1>5. /\ T \in Servers
      /\ T.binding = S.binding /\ T.ended = S.ended /\ T.heard = S.heard
      /\ T.pending = S.pending /\ T.text = S.text
      /\ T.current \in OpenTurns /\ T.current.id = k /\ T.current.kind = S.current.kind
      /\ T.current.requests = S.current.requests /\ T.current.batch = S.current.batch
      /\ \A i \in PromptIds : T.alias[i] = IF S.alias[i] = S.current.id THEN k ELSE S.alias[i]
      /\ \A r \in Requests :
           /\ T.bound[r] = IF r \in mine THEN k ELSE S.bound[r]
           /\ T.deliveries[r].boundTo =
                IF r \in mine /\ S.deliveries[r].at # -1 THEN k ELSE S.deliveries[r].boundTo
           /\ T.deliveries[r].at = S.deliveries[r].at
           /\ T.deliveries[r].ended = S.deliveries[r].ended
  <2>1. Renamed(S, T, k)
    BY <1>1, <1>4, RenameChanges
  <2>. HIDE DEF k
  <2>. QED  BY <2>1 DEF Renamed
<1>6. Position(T, h, k)
  <2>1. k \in 0..cc.lastId
    BY <1>1, <1>3
  <2>2. ASSUME NEW y \in Recs, y.at <= h PROVE y.id <= k
    <3>1. y.id <= m /\ y.id \in PromptIds
      BY <2>2, RecordTypes DEF Follows, Position
    <3>. QED  BY <1>1, <1>3, <3>1
  <2>3. \A y \in Recs : y.at \in Nat
    BY RecordTypes
  <2>4. ASSUME NEW j \in PromptIds
        PROVE  (j > k => T.ended[j] = None) /\ (j >= k => T.alias[j] = j)
    <3>1. (j > m => S.ended[j] = None) /\ (j >= m => S.alias[j] = j)
      BY DEF Follows, Position
    <3>. HIDE DEF k
    <3>2. j \in Nat /\ (j > k => j >= k) /\ (j >= k => j > m /\ j >= m /\ j # m)
      BY <1>1, <1>3
    <3>3. T.ended[j] = S.ended[j] /\ T.alias[j] = IF S.alias[j] = m THEN k ELSE S.alias[j]
      BY <1>4, <1>5
    <3>. QED  BY <3>1, <3>2, <3>3
  <2>5. T.current.id = k /\ k # 0 /\ T.ended[k] = None
    BY <1>1, <1>3, <1>5
  <2>. HIDE DEF k
  <2>. QED  BY <1>1, <1>3, <2>1, <2>2, <2>3, <2>4, <2>5 DEF Position
<1>7. Turn(T, h, k)
  <2>1. files.activity # None /\ files.activity.at <= h => files.activity.id # k
    <3>. SUFFICES ASSUME files.activity # None, files.activity.at <= h, files.activity.id = k PROVE FALSE
      OBVIOUS
    <3>1. files.activity \in Recs
      BY DEF Recs
    <3>2. files.activity.id <= m
      BY <3>1 DEF Follows, Position
    <3>. QED  BY <1>1, <1>3, <3>2
  <2>2. T.current.id = k /\ T.current.kind = "served" /\ T.current.batch
    BY <1>4, <1>5
  <2>. HIDE DEF k
  <2>3. \A y \in Recs : IsEnd(y) /\ y.at <= h /\ NumberOf(y) = numberOf[k] => T.current.id = 0
    BY <1>2, <1>4 DEF Follows, Turn
  <2>4. \A n \in 1..cc.lastNumber :
          \/ n = cc.number
          \/ \E y \in Range(files.log) : IsEnd(y) /\ NumberOf(y) = n
          \/ k # 0 /\ (n < numberOf[k] \/ (n = numberOf[k] /\ ~T.current.batch))
    BY <1>2, <1>3, <1>4, <2>2 DEF Follows, Turn
  <2>. QED  BY <1>3, <2>1, <2>2, <2>3, <2>4 DEF Turn
<1>8. Bindings(T, h, k)
  <2>1. \A r \in Requests : OpenIn(T, r) = OpenIn(S, r)
    BY <1>5 DEF OpenIn
  <2>2. ASSUME NEW r \in mine PROVE r \in Requests /\ taken[r] # None /\ taken[r].number = numberOf[k]
    <3>1. S.current.requests \in Seq(Requests)
      BY DEF Servers, OpenTurns
    <3>2. r \in Requests
      BY <2>2, <3>1 DEF Range
    <3>. QED  BY <1>2, <3>2 DEF Follows, Bindings
  <2>3. ASSUME NEW r \in mine PROVE S.deliveries[r].at # -1 /\ S.bound[r] # 0
    BY DEF Follows, Bindings
  <2>4. ASSUME NEW r \in Requests PROVE T.deliveries[r].boundTo = T.bound[r]
    BY <1>5, <2>3 DEF Follows, Bindings
  <2>5. ASSUME NEW r \in Requests, S.bound[r] # 0 PROVE S.bound[r] <= k /\ S.bound[r] \in Nat
    <3>1. S.bound[r] \in 0..LastId /\ S.bound[r] <= m
      BY <2>5 DEF Servers, Follows, Bindings
    <3>. QED  BY <1>3, <3>1
  <2>6. ASSUME NEW r \in mine
        PROVE  \E y \in Range(files.log) : ByChannel(y) /\ y.request = r /\ y.at <= h
    BY <2>2, <2>3 DEF Follows, Bindings
  <2>7. ASSUME NEW r \in Requests, T.bound[r] # 0
        PROVE  /\ T.bound[r] <= k /\ taken[r] # None /\ taken[r].number = numberOf[T.bound[r]]
               /\ \E y \in Range(files.log) : ByChannel(y) /\ y.request = r /\ y.at <= h
    <3>1. CASE r \in mine
      BY <1>3, <1>5, <2>2, <2>6, <3>1
    <3>2. CASE r \notin mine
      BY <1>5, <2>5, <2>7, <3>2 DEF Follows, Bindings
    <3>. QED  BY <3>1, <3>2
  <2>8. ASSUME NEW r \in Requests, OpenIn(T, r), T.bound[r] # 0, numberOf[T.bound[r]] = numberOf[k]
        PROVE  T.bound[r] = k /\ r \in Range(T.current.requests)
    <3>1. r \notin mine => S.bound[r] = T.bound[r]
      BY <1>5
    <3>2. r \notin mine => r \in mine
      BY <1>2, <1>4, <2>1, <2>8, <3>1 DEF Follows, Bindings
    <3>. QED  BY <1>5, <3>2
  <2>9. \A y \in Recs : ByChannel(y) /\ y.at <= h /\ OpenIn(T, y.request) => T.bound[y.request] # 0
    BY <1>3, <1>5, <2>1, RecordTypes DEF Follows, Bindings
  <2>10. /\ \A r \in Requests : T.pending[r] # "none" => T.deliveries[r].at # -1
         /\ \A r \in Requests : T.deliveries[r].ended # None /\ T.deliveries[r].ended.text # None =>
              taken[r] # None /\ T.deliveries[r].ended.text.number = taken[r].number
    BY <1>5 DEF Follows, Bindings
  <2>11. \A r \in Range(T.current.requests) :
           /\ T.bound[r] # 0 /\ T.deliveries[r].at # -1
           /\ taken[r] # None /\ taken[r].number = numberOf[k]
    BY <1>3, <1>5, <2>2, <2>3
  <2>. HIDE DEF k, mine
  <2>. QED  BY <2>4, <2>7, <2>8, <2>9, <2>10, <2>11 DEF Bindings
<1>9. Heard(T, k)
  <2>1. Heard(S, m) /\ T.heard = S.heard /\ S.current.kind # "local" /\ T.current.kind # "local"
    BY <1>4, <1>5 DEF Follows
  <2>2. ASSUME NEW i \in DOMAIN S.heard, S.heard[i].id <= m PROVE S.heard[i].id <= k
    <3>1. S.heard[i].id \in Nat
      BY HeardTypes
    <3>. HIDE DEF k
    <3>. QED  BY <1>1, <1>3, <2>2, <3>1
  <2>. HIDE DEF k
  <2>. QED  BY <2>1, <2>2 DEF Heard
<1>10. QED
  BY <1>6, <1>7, <1>8, <1>9 DEF Follows

(* x was read, and is no end: the turn goes on.                            *)
LEMMA ReadKeepsTurn ==
  ASSUME ClaudeTypes, World, NEW S \in Servers, NEW h \in Nat, NEW x \in Recs, x.at = h + 1,
         Position(S, h, x.id), Turn(S, h, x.id), S.current.id = x.id, ~IsEnd(x),
         x.kind = "activity" => ~S.current.batch
  PROVE  Position(S, h + 1, x.id) /\ Turn(S, h + 1, x.id)
<1>. USE PromptIdsAreIntegers
<1>. DEFINE k == x.id
<1>1. k \in PromptIds /\ k \in 0..LastId /\ k # 0
  BY RecordTypes
<1>2. /\ \A y \in Recs : y.at > h => y.id >= k
      /\ \A y \in Recs : y.at <= h + 1 => y.id <= k
  BY <1>1, NextRecord
<1>3. \A y \in Recs : y.at \in Nat /\ y.id \in PromptIds
  BY RecordTypes
<1>4. \A y \in Recs : y.at <= h + 1 => y.at <= h \/ y = x
  <2>1. ASSUME NEW y \in Recs, y.at <= h + 1, ~(y.at <= h) PROVE y = x
    <3>1. y.at = x.at
      BY <1>3, <2>1
    <3>. QED  BY <3>1 DEF World, Records
  <2>. QED  BY <2>1
<1>5. Position(S, h + 1, k)
  <2>1. \A y \in Recs : IF y.at <= h + 1 THEN y.id <= k ELSE y.id >= k
    BY <1>2, <1>3
  <2>. QED  BY <1>1, <2>1 DEF Position
<1>6. Turn(S, h + 1, k)
  <2>1. \A y \in Recs : IsEnd(y) /\ y.at <= h + 1 /\ NumberOf(y) = numberOf[k] => S.current.id = 0
    BY <1>1, <1>4 DEF Turn
  <2>2. files.activity # None /\ files.activity.at <= h + 1 /\ files.activity.id = S.current.id =>
          ~S.current.batch
    <3>. SUFFICES ASSUME files.activity # None, files.activity.at <= h + 1,
                         files.activity.id = S.current.id
                  PROVE  ~S.current.batch
      OBVIOUS
    <3>1. files.activity \in Recs
      BY DEF Recs
    <3>2. files.activity = x => x.kind = "activity"
      <4>1. files.activity \in ToolCalls
        BY DEF ClaudeTypes
      <4>. QED  BY <4>1 DEF ToolCalls
    <3>. QED  BY <1>4, <3>1, <3>2 DEF Turn
  <2>. QED  BY <2>1, <2>2 DEF Turn
<1>7. QED
  BY <1>5, <1>6

(* x was read, and no request is to be bound.                              *)
LEMMA ReadKeepsBindings ==
  ASSUME ClaudeTypes, World, NEW S \in Servers, NEW h \in Nat, NEW m \in 0..LastId,
         NEW x \in Recs, x.at = h + 1, Bindings(S, h, m),
         ByChannel(x) /\ OpenIn(S, x.request) => S.bound[x.request] # 0
  PROVE  Bindings(S, h + 1, m)
<1>1. \A y \in Recs : y.at \in Nat
  BY RecordTypes
<1>2. \A y \in Recs : y.at <= h + 1 => y.at <= h \/ y = x
  <2>1. ASSUME NEW y \in Recs, y.at <= h + 1, ~(y.at <= h) PROVE y = x
    <3>1. y.at = x.at
      BY <1>1, <2>1
    <3>. QED  BY <3>1 DEF World, Records
  <2>. QED  BY <2>1
<1>3. \A y \in Recs : ByChannel(y) /\ y.at <= h + 1 /\ OpenIn(S, y.request) => S.bound[y.request] # 0
  BY <1>2 DEF Bindings
<1>4. ASSUME NEW r \in Requests, S.bound[r] # 0
      PROVE  \E y \in Range(files.log) : ByChannel(y) /\ y.request = r /\ y.at <= h + 1
  <2>1. PICK y \in Range(files.log) : ByChannel(y) /\ y.request = r /\ y.at <= h
    BY <1>4 DEF Bindings
  <2>2. y.at <= h + 1
    BY <1>1, <2>1 DEF Recs
  <2>. QED  BY <2>1, <2>2
<1>5. QED
  BY <1>3, <1>4 DEF Bindings

(* x was read, and its request is bound.                                   *)
LEMMA BoundKeeps ==
  ASSUME ClaudeTypes, World, NEW S \in Servers, NEW h \in Nat, NEW x \in Recs, x.at = h + 1,
         Follows(S, h, x.id), S.current.id = x.id, ByChannel(x),
         OpenIn(S, x.request),
         NEW T, BoundNow(S, T, x.request, x.id)
  PROVE  Follows(T, h + 1, x.id)
<1>. USE PromptIdsAreIntegers
<1>. DEFINE k == x.id
            r == x.request
<1>1. k \in PromptIds /\ k \in 0..LastId /\ k # 0 /\ r \in Requests /\ x.kind = "submit"
      /\ x \in Range(files.log)
  BY RecordTypes DEF ByChannel
<1>2. Position(S, h + 1, k) /\ Turn(S, h + 1, k)
  BY <1>1, ReadKeepsTurn DEF Follows, IsEnd
<1>3. /\ T.ended = S.ended /\ T.alias = S.alias /\ T.heard = S.heard
      /\ T.pending = S.pending
      /\ T.current.id = S.current.id /\ T.current.kind = S.current.kind
      /\ T.current.batch = S.current.batch
      /\ T.current.requests = Append(S.current.requests, r)
      /\ \A q \in Requests :
           /\ T.bound[q] = IF q = r THEN k ELSE S.bound[q]
           /\ T.deliveries[q].boundTo = IF q = r THEN k ELSE S.deliveries[q].boundTo
           /\ T.deliveries[q].at = S.deliveries[q].at
           /\ T.deliveries[q].ended = S.deliveries[q].ended
  BY DEF BoundNow
<1>. HIDE DEF k, r
<1>4. Position(T, h + 1, k)
  BY <1>1, <1>2, <1>3 DEF Position
<1>5. Turn(T, h + 1, k)
  <2>1. T.current.id = k /\ T.current.id # 0
    BY <1>1, <1>3 DEF k
  <2>. QED  BY <1>2, <1>3, <2>1 DEF Turn
<1>6. Heard(T, k)
  <2>1. Heard(S, k)
    BY DEF Follows, k
  <2>. QED  BY <1>3, <2>1 DEF Heard
<1>7. Bindings(T, h + 1, k)
  <2>0. Bindings(S, h, k) /\ S.current.id = k
    BY DEF Follows, k
  <2>1. \A y \in Recs : y.at \in Nat
    BY RecordTypes
  <2>2. \A y \in Recs : y.at <= h + 1 => y.at <= h \/ y = x
    <3>1. ASSUME NEW y \in Recs, y.at <= h + 1, ~(y.at <= h) PROVE y = x
      <4>1. y.at = x.at
        BY <2>1, <3>1
      <4>. QED  BY <4>1 DEF World, Records
    <3>. QED  BY <3>1
  <2>3. taken[r] # None /\ taken[r].number = numberOf[k]
    BY DEF World, Messages, NumberOf, k, r
  <2>4. \A q \in Requests : OpenIn(T, q) = OpenIn(S, q)
    BY <1>3 DEF OpenIn
  <2>5. S.deliveries[r].at # -1
    <3>1. S.pending[r] # "none"
      BY DEF OpenIn, r
    <3>. QED  BY <1>1, <2>0, <3>1 DEF Bindings
  <2>6. \A q \in Requests : T.deliveries[q].boundTo = T.bound[q]
    BY <1>3, <2>0 DEF Bindings
  <2>7. ASSUME NEW q \in Requests, T.bound[q] # 0
        PROVE  /\ T.bound[q] <= k /\ taken[q] # None /\ taken[q].number = numberOf[T.bound[q]]
               /\ \E y \in Range(files.log) : ByChannel(y) /\ y.request = q /\ y.at <= h + 1
    <3>1. CASE q = r
      <4>1. x.at <= h + 1 /\ ByChannel(x) /\ x.request = r /\ x \in Range(files.log)
        BY <1>1 DEF r
      <4>2. T.bound[q] = k
        BY <1>3, <3>1
      <4>. QED  BY <1>1, <2>3, <3>1, <4>1, <4>2
    <3>2. CASE q # r
      <4>1. T.bound[q] = S.bound[q]
        BY <1>3, <3>2
      <4>2. PICK y \in Range(files.log) : ByChannel(y) /\ y.request = q /\ y.at <= h
        BY <2>0, <2>7, <4>1 DEF Bindings
      <4>3. y.at <= h + 1
        BY <2>1, <4>2 DEF Recs
      <4>. QED  BY <2>0, <2>7, <4>1, <4>2, <4>3 DEF Bindings
    <3>. QED  BY <3>1, <3>2
  <2>8. \A y \in Recs : ByChannel(y) /\ y.at <= h + 1 /\ OpenIn(T, y.request) => T.bound[y.request] # 0
    <3>. SUFFICES ASSUME NEW y \in Recs, ByChannel(y), y.at <= h + 1, OpenIn(T, y.request)
                  PROVE  T.bound[y.request] # 0
      OBVIOUS
    <3>1. y.request \in Requests
      BY RecordTypes
    <3>2. CASE y = x
      BY <1>1, <1>3, <3>1, <3>2 DEF r
    <3>3. CASE y.at <= h
      BY <1>1, <1>3, <2>0, <2>4, <3>1, <3>3 DEF Bindings
    <3>. QED  BY <2>2, <3>2, <3>3
  <2>9. /\ Range(S.current.requests) \subseteq Requests
        /\ Range(T.current.requests) = Range(S.current.requests) \cup {r}
    <3>1. S.current.requests \in Seq(Requests)
      BY DEF Servers, OpenTurns
    <3>2. Range(Append(S.current.requests, r)) = Range(S.current.requests) \cup {r}
      BY <1>1, <3>1, RangeOfAppend
    <3>. QED  BY <1>1, <1>3, <3>1, <3>2, RangeOfAppend
  <2>10. ASSUME NEW q \in Requests, OpenIn(T, q), T.bound[q] # 0, numberOf[T.bound[q]] = numberOf[k]
         PROVE  T.bound[q] = k /\ q \in Range(T.current.requests)
    <3>1. CASE q = r
      BY <1>3, <2>9, <3>1
    <3>2. CASE q # r
      <4>1. T.bound[q] = S.bound[q] /\ OpenIn(S, q)
        BY <1>3, <2>4, <2>10, <3>2
      <4>. QED  BY <1>1, <2>0, <2>9, <2>10, <4>1 DEF Bindings
    <3>. QED  BY <3>1, <3>2
  <2>11. ASSUME NEW q \in Range(T.current.requests)
         PROVE /\ T.bound[q] # 0 /\ T.deliveries[q].at # -1
               /\ taken[q] # None /\ taken[q].number = numberOf[k]
    <3>1. CASE q = r
      BY <1>1, <1>3, <2>3, <2>5, <3>1
    <3>2. CASE q # r
      <4>1. q \in Range(S.current.requests) /\ q \in Requests
        BY <2>9, <2>11, <3>2
      <4>. QED  BY <1>3, <2>0, <3>2, <4>1 DEF Bindings
    <3>. QED  BY <3>1, <3>2
  <2>12. /\ \A q \in Requests : T.pending[q] # "none" => T.deliveries[q].at # -1
         /\ \A q \in Requests : T.deliveries[q].ended # None /\ T.deliveries[q].ended.text # None =>
              taken[q] # None /\ T.deliveries[q].ended.text.number = taken[q].number
    BY <1>3, <2>0 DEF Bindings
  <2>. QED  BY <2>6, <2>7, <2>8, <2>10, <2>11, <2>12 DEF Bindings
<1>8. QED
  BY <1>4, <1>5, <1>6, <1>7 DEF Follows, k

(* The turn takes no more messages for one of its batch.                   *)
LEMMA BreakKeeps ==
  ASSUME ClaudeTypes, NEW S \in Servers, NEW h \in Nat, NEW k \in PromptIds,
         Follows(S, h, k), S.current.id = k, LastOf(k), NEW T, T = BreakBatch(S)
  PROVE  T \in Servers /\ Follows(T, h, k) /\ T.current.id = k /\ ~T.current.batch /\ SamePending(S, T)
<1>1. /\ T \in Servers /\ SameLedger(S, T) /\ T.heard = S.heard
      /\ ~T.current.batch
      /\ T.current.id = S.current.id /\ T.current.kind = S.current.kind
      /\ T.current.requests = S.current.requests
  BY BreakBatchChanges
<1>2. k # 0
  BY PromptIdsAreIntegers
<1>3. Position(T, h, k)
  BY <1>1, <1>2 DEF Follows, Position, SameLedger
<1>4. Turn(T, h, k)
  <2>1. \A n \in 1..cc.lastNumber :
         \/ n = cc.number
         \/ \E x \in Range(files.log) : IsEnd(x) /\ NumberOf(x) = n
         \/ k # 0 /\ (n < numberOf[k] \/ (n = numberOf[k] /\ ~T.current.batch))
    BY <1>1 DEF Follows, Turn
  <2>. QED  BY <1>1, <1>2, <2>1 DEF Follows, Turn
<1>5. Bindings(T, h, k)
  <2>1. \A r \in Requests : OpenIn(T, r) = OpenIn(S, r)
    BY <1>1 DEF OpenIn, SameLedger
  <2>2. \A y \in Recs : ByChannel(y) /\ y.at <= h /\ OpenIn(T, y.request) => T.bound[y.request] # 0
    BY <1>1, <2>1, RecordTypes DEF Follows, Bindings, SameLedger
  <2>. QED  BY <1>1, <2>1, <2>2 DEF Follows, Bindings, SameLedger
<1>6. Heard(T, k)
  BY <1>1 DEF Follows, Heard
<1>7. SamePending(S, T)
  BY <1>1 DEF SamePending, SameLedger
<1>8. QED
  BY <1>1, <1>3, <1>4, <1>5, <1>6, <1>7 DEF Follows

\* The requests of the turn x ends know what they ended with, but for background work.
Due(T, x) ==
  IsEnd(x) /\ ~x.background =>
    \A r \in Requests : taken[r] # None /\ taken[r].number = NumberOf(x) /\ OpenIn(T, r) =>
      T.deliveries[r].ended # None

(* x was read, and ends its turn.                                          *)
LEMMA EndRead ==
  ASSUME ClaudeTypes, World, NEW S \in Servers, NEW h \in Nat, NEW x \in Recs, x.at = h + 1,
         Follows(S, h, x.id), S.current.id = x.id, IsEnd(x),
         NEW T, T = End(S, x)
  PROVE  T \in Servers /\ Follows(T, h + 1, x.id) /\ T.current.id = 0 /\ Due(T, x) /\ SamePending(S, T)
<1>. USE PromptIdsAreIntegers
<1>. DEFINE k == x.id
<1>1. k \in PromptIds /\ k \in 0..LastId /\ k # 0 /\ x \in TurnEnds /\ x \in Endings
  BY RecordTypes DEF Endings
<1>2. /\ k <= cc.lastId
      /\ \A y \in Recs : y.at > h => y.id >= k
      /\ \A y \in Recs : y.at <= h + 1 => y.id <= k
  BY <1>1, NextRecord DEF Follows
<1>3. \A y \in Recs : y.at \in Nat /\ y.id \in PromptIds
  BY RecordTypes
<1>4. /\ cc.lastId \in 0..LastId /\ cc.id \in 0..LastId
      /\ \A i \in PromptIds : numberOf[i] \in Nat /\ i \in Nat
  BY NumberTypes DEF World
<1>5. ~ByChannel(x) /\ LastOf(k)
  <2>1. ~ByChannel(x)
    BY DEF IsEnd, ByChannel
  <2>. QED  BY <2>1 DEF World, Records
<1>6. Turn(T, h, k) /\ Bindings(T, h, k) /\ Heard(T, k)
  <2>1. Final(x) /\ TextOf(x) # None => TextOf(x).number = numberOf[k]
    <3>. SUFFICES ASSUME Final(x), TextOf(x) # None PROVE TextOf(x).number = numberOf[k]
      OBVIOUS
    <3>1. x.kind = "stop" /\ TextOf(x) = x.text
      BY DEF TextOf
    <3>2. ~x.background
      BY <3>1 DEF Final
    <3>. QED  BY <3>1, <3>2 DEF World, Messages, NumberOf
  <2>. HIDE DEF k
  <2>2. Turn(S, h, k) /\ Bindings(S, h, k) /\ Heard(S, k) /\ S.current.id = k
    BY DEF Follows, k
  <2>. QED  BY <1>1, <1>5, <2>1, <2>2, EndKeeps
<1>7. /\ T \in Servers /\ SamePending(S, T)
      /\ T.current = NoTurn /\ T.bound = S.bound /\ T.alias = S.alias
      /\ T.ended = [S.ended EXCEPT ![k] = S.current.requests]
      /\ \A r \in Requests : S.deliveries[r].boundTo = k /\ OpenIn(S, r) /\ Final(x) =>
              T.deliveries[r].ended # None
  <2>1. Ended(S, T, x)
    BY <1>1, EndChanges
  <2>. HIDE DEF k
  <2>2. S.current.id = k
    BY DEF k
  <2>. QED  BY <2>1, <2>2 DEF Ended
<1>8. T.current.id = 0 /\ ~T.current.batch
  BY <1>7 DEF NoTurn
<1>9. Position(T, h + 1, k)
  <2>1. ASSUME NEW y \in Recs
        PROVE  IF y.at <= h + 1 THEN y.id <= k ELSE y.id >= k /\ y.id > k
    <3>1. CASE y.at <= h + 1
      BY <1>2, <3>1
    <3>2. CASE y.at > h + 1
      <4>1. y.id >= k
        BY <1>2, <1>3, <3>2
      <4>2. numberOf[k] < numberOf[y.id]
        BY <3>2 DEF World, Records, NumberOf
      <4>3. y.id # k
        BY <1>1, <1>4, <4>2
      <4>. QED  BY <1>1, <1>3, <1>4, <3>2, <4>1, <4>3
    <3>. QED  BY <1>3, <3>1, <3>2
  <2>2. ASSUME cc.id # 0 PROVE cc.id > k
    <3>1. numberOf[k] < cc.number
      BY <2>2 DEF World, Records, NumberOf
    <3>2. cc.id = cc.lastId /\ cc.number = numberOf[cc.lastId]
      BY <1>4, <2>2 DEF World, Numbers
    <3>3. cc.id # k
      BY <1>1, <1>4, <3>1, <3>2
    <3>. QED  BY <1>1, <1>2, <1>4, <3>2, <3>3
  <2>3. ASSUME NEW j \in PromptIds PROVE (j > k => T.ended[j] = None) /\ (j >= k => T.alias[j] = j)
    <3>1. (j > k => S.ended[j] = None) /\ (j >= k => S.alias[j] = j)
      BY DEF Follows, Position
    <3>2. j > k => j # k
      BY <1>1, <1>4
    <3>3. j # k => T.ended[j] = S.ended[j]
      BY <1>7 DEF Servers
    <3>. QED  BY <1>7, <3>1, <3>2, <3>3
  <2>4. k \in 0..cc.lastId
    BY <1>1, <1>2, <1>4
  <2>. HIDE DEF k
  <2>. QED  BY <1>1, <1>8, <2>1, <2>2, <2>3, <2>4 DEF Position
<1>10. Turn(T, h + 1, k)
  <2>1. files.activity # None => files.activity.id # 0
    BY <1>3 DEF Recs
  <2>. HIDE DEF k
  <2>. QED  BY <1>6, <1>8, <2>1 DEF Turn
<1>11. Bindings(T, h + 1, k)
  <2>. HIDE DEF k
  <2>. QED  BY <1>1, <1>5, <1>6, <1>7, ReadKeepsBindings
<1>12. Due(T, x)
  <2>. SUFFICES ASSUME ~x.background,
                       NEW r \in Requests, taken[r] # None, taken[r].number = numberOf[k], OpenIn(T, r)
                PROVE  T.deliveries[r].ended # None
    BY DEF Due, NumberOf
  <2>1. PICK y \in Range(files.log) : ByChannel(y) /\ y.request = r
    BY DEF World, Messages
  <2>2. y \in Recs /\ numberOf[y.id] = numberOf[k]
    BY <2>1 DEF World, Messages, NumberOf, Recs
  <2>3. y.at <= h
    <3>1. y # x
      BY <1>5, <2>1
    <3>2. y.at # x.at
      BY <2>2, <3>1 DEF World, Records
    <3>3. x.at < y.at => numberOf[k] < numberOf[y.id]
      BY <2>2 DEF World, Records, NumberOf
    <3>4. ~(x.at < y.at)
      BY <1>1, <1>4, <2>2, <3>3
    <3>. QED  BY <1>3, <2>2, <3>2, <3>4
  <2>4. OpenIn(S, r)
    BY <1>7 DEF OpenIn, SamePending
  <2>5. S.bound[r] # 0
    BY <2>1, <2>2, <2>3, <2>4 DEF Follows, Bindings
  <2>6. S.bound[r] = k
    BY <1>1, <2>4, <2>5 DEF Follows, Bindings
  <2>7. S.deliveries[r].boundTo = k
    BY <2>6 DEF Follows, Bindings
  <2>8. Final(x)
    BY DEF Final, IsEnd
  <2>. QED  BY <1>7, <2>4, <2>7, <2>8
<1>13. QED
  BY <1>6, <1>7, <1>8, <1>9, <1>10, <1>11, <1>12 DEF Follows


\* E is S without a running turn.
Over(S, E, h, m) ==
  E \in Servers /\ Follows(E, h, m) /\ E.current.id = 0 /\ SamePending(S, E) /\ E.binding = S.binding

(* The next record is of a later turn: the running one has ended.          *)
LEMMA TurnOver ==
  ASSUME ClaudeTypes, World, NEW S \in Servers, NEW h \in Nat, NEW m \in 0..LastId,
         Follows(S, h, m), NEW x \in Recs, x.at = h + 1, x.id > m,
         ByChannel(x) => ~S.current.batch,
         NEW E, E = End(S, [kind |-> "next"])
  PROVE  Over(S, E, h, m)
<1>. USE PromptIdsAreIntegers
<1>. DEFINE next == [kind |-> "next"]
<1>1. CASE S.current.id = 0
  <2>1. E = S
    BY <1>1 DEF End
  <2>. QED  BY <1>1, <2>1 DEF SamePending, Over
<1>2. CASE S.current.id # 0
  <2>1. S.current.id = m /\ m # 0 /\ m \in PromptIds
    BY <1>2 DEF Follows, Position
  <2>2. /\ x.id \in PromptIds /\ x.id <= cc.lastId
        /\ \A y \in Recs : y.at > h => y.id >= x.id
    BY NextRecord DEF Follows
  <2>3. /\ cc.lastId \in 0..LastId
        /\ \A i \in PromptIds : numberOf[i] \in Nat /\ i \in Nat
    BY NumberTypes DEF World
  <2>4. LastOf(m)
    BY <2>1, LaterTurn DEF Follows
  <2>5. next \in Endings /\ TextOf(next) = None
    BY DEF Endings, TextOf
  <2>6. Ended(S, E, next)
    BY <1>2, <2>5, EndChanges
  <2>7. E \in Servers /\ SamePending(S, E) /\ E.binding = S.binding /\ E.current.id = 0
        /\ E.alias = S.alias /\ E.ended = [S.ended EXCEPT ![m] = S.current.requests]
    BY <2>1, <2>6 DEF Ended, NoTurn
  <2>8. Turn(E, h, m) /\ Bindings(E, h, m) /\ Heard(E, m)
    BY <2>1, <2>4, <2>5, EndKeeps DEF Follows
  <2>9. Position(E, h, m)
    <3>1. ASSUME NEW y \in Recs
          PROVE  IF y.at <= h THEN y.id <= m ELSE y.id >= m /\ y.id > m
      <4>1. y.at \in Nat /\ y.id \in Nat
        BY RecordTypes
      <4>2. y.at <= h => y.id <= m
        BY DEF Follows, Position
      <4>3. y.at > h => y.id > m
        BY <2>2, <2>3, <4>1
      <4>. QED  BY <2>1, <2>3, <4>1, <4>2, <4>3
    <3>2. cc.id # 0 => cc.id > m
      <4>1. cc.id # 0 => cc.id = cc.lastId
        BY DEF World, Numbers
      <4>. QED  BY <2>1, <2>2, <2>3, <4>1
    <3>3. ASSUME NEW j \in PromptIds
          PROVE  (j > m => E.ended[j] = None) /\ (j >= m => E.alias[j] = j)
      <4>1. (j > m => S.ended[j] = None) /\ (j >= m => S.alias[j] = j)
        BY DEF Follows, Position
      <4>2. j > m => j # m
        BY <2>1, <2>3
      <4>3. j # m => E.ended[j] = S.ended[j]
        BY <2>7 DEF Servers
      <4>. QED  BY <2>7, <4>1, <4>2, <4>3
    <3>4. m \in 0..cc.lastId
      BY DEF Follows, Position
    <3>. QED  BY <2>1, <2>7, <3>1, <3>2, <3>3, <3>4 DEF Position
  <2>. QED  BY <2>7, <2>8, <2>9 DEF Over, Follows
<1>3. QED
  BY <1>1, <1>2

\* T is S with the turn of x running, before x is made anything else of.
Opened(S, T, h, x) ==
  /\ T \in Servers /\ Follows(T, h, x.id) /\ T.current.id = x.id
  /\ SamePending(S, T) /\ T.binding = S.binding
  /\ T.current.start <= h + 1 /\ T.current.start \in Int

(* A local turn begins with x.                                             *)
LEMMA OpensLocal ==
  ASSUME ClaudeTypes, World, NEW S \in Servers, NEW h \in Nat, NEW m \in 0..LastId,
         Follows(S, h, m), NEW x \in Recs, x.at = h + 1, x.id > m, ~ByChannel(x),
         NEW at \in Int, at <= h + 1,
         NEW T, T = BeginLocal(End(S, [kind |-> "next"]), x.id, at)
  PROVE  Opened(S, T, h, x)
<1>. DEFINE E == End(S, [kind |-> "next"])
<1>1. Over(S, E, h, m)
  BY TurnOver
<1>2. x.id \in PromptIds
  BY RecordTypes
<1>. HIDE DEF E
<1>3. E \in Servers /\ Follows(E, h, m) /\ E.current.id = 0 /\ SamePending(S, E) /\ E.binding = S.binding
  BY <1>1 DEF Over
<1>4. T = BeginLocal(E, x.id, at)
  BY DEF E
<1>5. /\ T \in Servers /\ SameLedger(E, T)
      /\ T.heard = Append(E.heard, [event |-> "started", id |-> x.id])
      /\ T.current = [id |-> x.id, kind |-> "local", start |-> at, requests |-> <<>>,
                         batch |-> FALSE]
  BY <1>2, <1>3, <1>4, BeginLocalChanges
<1>6. /\ T.current.id = x.id /\ T.current.kind = "local" /\ T.current.start = at
      /\ T.current.requests = <<>> /\ ~T.current.batch
  BY <1>5
<1>7. Begun(E, T, x)
  BY <1>5, <1>6 DEF Begun
<1>8. Follows(T, h, x.id)
  BY <1>3, <1>5, <1>7, BeginKeeps
<1>9. QED
  BY <1>3, <1>5, <1>6, <1>8 DEF Opened, SamePending, SameLedger

(* A served turn begins with x.                                            *)
LEMMA OpensServed ==
  ASSUME ClaudeTypes, World, NEW S \in Servers, NEW h \in Nat, NEW m \in 0..LastId,
         Follows(S, h, m), NEW x \in Recs, x.at = h + 1, x.id > m, ByChannel(x), ~S.current.batch,
         NEW T, T = Begin(End(S, [kind |-> "next"]), x.id, "served", x.at)
  PROVE  Opened(S, T, h, x)
<1>. DEFINE E == End(S, [kind |-> "next"])
<1>1. Over(S, E, h, m)
  BY TurnOver
<1>2. x.id \in PromptIds /\ x.at \in Int
  BY RecordTypes
<1>. HIDE DEF E
<1>3. E \in Servers /\ Follows(E, h, m) /\ E.current.id = 0 /\ SamePending(S, E) /\ E.binding = S.binding
  BY <1>1 DEF Over
<1>4. T = Begin(E, x.id, "served", x.at)
  BY DEF E
<1>5. /\ T \in Servers /\ SameLedger(E, T) /\ T.heard = E.heard
      /\ T.current = [id |-> x.id, kind |-> "served", start |-> x.at, requests |-> <<>>,
                      batch |-> TRUE]
  <2>1. ("served" = "served") = TRUE
    OBVIOUS
  <2>2. /\ T \in Servers /\ SameLedger(E, T) /\ T.heard = E.heard
        /\ T.current = [id |-> x.id, kind |-> "served", start |-> x.at, requests |-> <<>>,
                        batch |-> "served" = "served"]
    BY <1>2, <1>3, <1>4, BeginChanges
  <2>. QED  BY <2>1, <2>2, Zenon
<1>6. /\ T.current.id = x.id /\ T.current.kind = "served" /\ T.current.start = x.at
      /\ T.current.requests = <<>> /\ T.current.batch
  BY <1>5
<1>7. Begun(E, T, x)
  BY <1>5, <1>6 DEF Begun
<1>8. Follows(T, h, x.id)
  BY <1>3, <1>5, <1>7, BeginKeeps
<1>9. QED
  BY <1>2, <1>3, <1>5, <1>6, <1>8 DEF Opened, SamePending, SameLedger

\* The tracker's turns and what the ledger holds of them are as they were.
SameTurns(S, T) ==
  /\ T.current = S.current /\ T.ended = S.ended /\ T.bound = S.bound /\ T.alias = S.alias
  /\ T.heard = S.heard
  /\ \A r \in Requests :
       /\ T.deliveries[r].at = S.deliveries[r].at
       /\ T.deliveries[r].boundTo = S.deliveries[r].boundTo
       /\ T.deliveries[r].ended = S.deliveries[r].ended

(* What was read keeps to the turns, whatever requests close.              *)
LEMMA ClosingKeeps ==
  ASSUME ClaudeTypes, NEW S \in Servers, NEW T \in Servers, NEW h \in Nat, NEW m \in 0..LastId,
         Follows(S, h, m), SameTurns(S, T), Closing(S, T)
  PROVE  Follows(T, h, m)
<1>1. Position(T, h, m)
  BY DEF Follows, Position, SameTurns, Fresh
<1>2. Turn(T, h, m)
  BY DEF Follows, Turn, SameTurns
<1>3. Heard(T, m)
  BY DEF Follows, Heard, SameTurns
<1>4. Bindings(T, h, m)
  <2>1. \A r \in Requests : OpenIn(T, r) => OpenIn(S, r)
    BY DEF OpenIn, Closing
  <2>2. \A r \in Requests : T.pending[r] # "none" => S.pending[r] # "none"
    BY DEF Closing
  <2>3. Range(S.current.requests) \subseteq Requests
    BY DEF Servers, OpenTurns, Range
  <2>4. T.current = S.current /\ T.bound = S.bound
    BY DEF SameTurns
  <2>5. \A y \in Recs : ByChannel(y) /\ y.at <= h /\ OpenIn(T, y.request) => T.bound[y.request] # 0
    BY <2>1, <2>4, RecordTypes DEF Follows, Bindings
  <2>6. /\ \A r \in Requests : T.deliveries[r].boundTo = T.bound[r]
        /\ \A r \in Requests : T.pending[r] # "none" => T.deliveries[r].at # -1
        /\ \A r \in Requests : T.deliveries[r].ended # None /\ T.deliveries[r].ended.text # None =>
              taken[r] # None /\ T.deliveries[r].ended.text.number = taken[r].number
    BY <2>2, <2>4 DEF Follows, Bindings, SameTurns
  <2>7. /\ \A r \in Requests : T.bound[r] # 0 =>
             /\ T.bound[r] <= m /\ taken[r] # None /\ taken[r].number = numberOf[T.bound[r]]
             /\ \E x \in Range(files.log) : ByChannel(x) /\ x.request = r /\ x.at <= h
        /\ \A r \in Requests : T.current.id # 0 /\ OpenIn(T, r) /\ T.bound[r] # 0
                                 /\ numberOf[T.bound[r]] = numberOf[m] =>
              T.bound[r] = m /\ r \in Range(T.current.requests)
    BY <2>1, <2>4 DEF Follows, Bindings
  <2>8. \A r \in Range(T.current.requests) :
           /\ T.bound[r] # 0 /\ T.deliveries[r].at # -1
           /\ taken[r] # None /\ taken[r].number = numberOf[m]
    BY <2>3, <2>4 DEF Follows, Bindings, SameTurns
  <2>. QED  BY <2>5, <2>6, <2>7, <2>8 DEF Bindings
<1>5. QED
  BY <1>1, <1>2, <1>3, <1>4 DEF Follows

LEMMA SamePendingCloses ==
  ASSUME NEW S, NEW T, SamePending(S, T)
  PROVE  Closing(S, T)
  BY DEF SamePending, Closing

\* T is S with x, the record read next, made what there is to make of it.
Told(S, T, h, x) ==
  /\ T \in Servers /\ Follows(T, h + 1, x.id) /\ T.binding
  /\ SamePending(S, T) /\ Due(T, x)
  /\ T.current.id # 0 => T.current.start <= h + 1

(* A record that is no end leaves its turn running.                        *)
LEMMA GoesOn ==
  ASSUME ClaudeTypes, World, NEW S \in Servers, NEW h \in Nat, NEW x \in Recs, x.at = h + 1,
         NEW T, Opened(S, T, h, x), T.binding, ~IsEnd(x),
         x.kind = "activity" => ~T.current.batch,
         ByChannel(x) => ~OpenIn(T, x.request)
  PROVE  Told(S, T, h, x)
<1>1. T \in Servers /\ Follows(T, h, x.id) /\ T.current.id = x.id /\ SamePending(S, T) /\ T.current.start <= h + 1
  BY DEF Opened
<1>2. Position(T, h + 1, x.id) /\ Turn(T, h + 1, x.id)
  BY <1>1, ReadKeepsTurn DEF Follows
<1>3. x.id \in 0..LastId
  BY RecordTypes, PromptIdsAreIntegers
<1>4. Bindings(T, h + 1, x.id)
  BY <1>1, <1>3, ReadKeepsBindings DEF Follows
<1>5. Heard(T, x.id)
  BY <1>1 DEF Follows
<1>6. Due(T, x)
  BY DEF Due
<1>7. QED
  BY <1>1, <1>2, <1>4, <1>5, <1>6 DEF Told, Follows

(* A message of the same batch: the turn goes by the later id.             *)
LEMMA OpensBatch ==
  ASSUME ClaudeTypes, World, NEW S \in Servers, NEW h \in Nat, NEW m \in 0..LastId,
         Follows(S, h, m), S.current.start <= h, S.current.batch,
         NEW x \in Recs, x.at = h + 1, x.id > m, ByChannel(x),
         NEW T, T = Rename(S, x.id)
  PROVE  Opened(S, T, h, x)
<1>1. S.current.id # 0
  BY DEF Follows, Turn, NoTurn
<1>2. x.id \in PromptIds
  BY RecordTypes
<1>3. Renamed(S, T, x.id)
  BY <1>1, <1>2, RenameChanges
<1>4. Follows(T, h, x.id)
  BY RenameKeeps
<1>5. S.current.start \in Int
  BY DEF Servers, OpenTurns
<1>6. T \in Servers /\ T.binding = S.binding /\ SamePending(S, T) /\ T.current.id = x.id
      /\ T.current.start = S.current.start
  BY <1>3 DEF Renamed, SamePending
<1>7. T.current.start <= h + 1
  BY <1>5, <1>6
<1>8. QED
  BY <1>4, <1>5, <1>6, <1>7 DEF Opened

(* A server that knows of a submit follows the turns as before.            *)
LEMMA BindingKeeps ==
  ASSUME ClaudeTypes, NEW S \in Servers, NEW h \in Nat, NEW m \in 0..LastId, Follows(S, h, m),
         NEW T, T = [S EXCEPT !.binding = TRUE]
  PROVE  /\ T \in Servers /\ Follows(T, h, m) /\ T.binding /\ SamePending(S, T)
         /\ T.current = S.current /\ T.alias = S.alias /\ T.ended = S.ended /\ T.bound = S.bound
<1>1. T \in Servers
  BY Updates
<1>2. SameTurns(S, T) /\ SamePending(S, T) /\ T.binding
  BY DEF Servers, SameTurns, SamePending
<1>3. Follows(T, h, m)
  BY <1>1, <1>2, SamePendingCloses, ClosingKeeps
<1>4. QED
  BY <1>1, <1>2, <1>3 DEF SameTurns

(* A request whose submit is read now is not bound yet.                    *)
LEMMA NotBoundYet ==
  ASSUME ClaudeTypes, World, NEW S \in Servers, NEW h \in Nat, NEW m \in 0..LastId,
         Bindings(S, h, m), NEW x \in Recs, x.at = h + 1, ByChannel(x)
  PROVE  S.bound[x.request] = 0
<1>. SUFFICES ASSUME S.bound[x.request] # 0 PROVE FALSE
  OBVIOUS
<1>1. x.request \in Requests
  BY RecordTypes
<1>2. PICK y \in Range(files.log) : ByChannel(y) /\ y.request = x.request /\ y.at <= h
  BY <1>1 DEF Bindings
<1>3. y \in Recs
  BY DEF Recs
<1>4. y = x
  BY <1>2, <1>3 DEF World, Messages
<1>5. QED
  BY <1>2, <1>4

\* The turn of a channel message, which may be its first.
InItsTurn(S, id, at) ==
  IF S.current.id = id THEN S
  ELSE IF S.current.batch THEN Rename(S, id)
  ELSE Begin(End(S, [kind |-> "next"]), id, "served", at)

LEMMA InItsTurnOpens ==
  ASSUME ClaudeTypes, World, NEW S \in Servers, NEW h \in Nat, NEW m \in 0..LastId,
         Follows(S, h, m), S.current.id # 0 => S.current.start <= h,
         NEW x \in Recs, x.at = h + 1, ByChannel(x),
         NEW T, T = InItsTurn(S, x.id, x.at)
  PROVE  Opened(S, T, h, x)
<1>1. x.id \in PromptIds /\ x.id # 0 /\ x.id \in Nat /\ m \in Nat
  BY RecordTypes, PromptIdsAreIntegers
<1>2. x.id >= m /\ (S.current.id = 0 => x.id > m) /\ S.current.id \in {0, m}
  BY NextRecord DEF Follows, Position
<1>3. CASE S.current.id = x.id
  <2>1. T = S
    BY <1>3 DEF InItsTurn
  <2>2. S.current.id # 0
    BY <1>1, <1>3
  <2>3. S.current.start \in Int
    BY DEF Servers, OpenTurns
  <2>4. x.id = m
    BY <1>1, <1>2, <1>3
  <2>5. Follows(S, h, x.id)
    BY <2>4
  <2>6. S.current.start <= h + 1
    BY <2>2, <2>3
  <2>. QED  BY <1>3, <2>1, <2>3, <2>5, <2>6 DEF Opened, SamePending
<1>4. CASE S.current.id # x.id /\ S.current.batch
  <2>1. x.id > m
    BY <1>1, <1>2, <1>4
  <2>2. T = Rename(S, x.id)
    BY <1>4 DEF InItsTurn
  <2>3. S.current.id # 0
    BY <1>4 DEF Follows, Turn, NoTurn
  <2>. QED  BY <1>4, <2>1, <2>2, <2>3, OpensBatch
<1>5. CASE S.current.id # x.id /\ ~S.current.batch
  <2>1. x.id > m
    BY <1>1, <1>2, <1>5
  <2>2. T = Begin(End(S, [kind |-> "next"]), x.id, "served", x.at)
    BY <1>5 DEF InItsTurn
  <2>. QED  BY <1>5, <2>1, <2>2, OpensServed
<1>6. QED
  BY <1>3, <1>4, <1>5

(* A message was taken (rules 1 and 6).                                    *)
LEMMA ChannelSubmitKeeps ==
  ASSUME ClaudeTypes, World, NEW S \in Servers, NEW h \in Nat, NEW m \in 0..LastId,
         Follows(S, h, m), S.current.id # 0 => S.current.start <= h, S.binding,
         NEW x \in Recs, x.at = h + 1, ByChannel(x),
         NEW T, T = ChannelSubmit(S, x.id, x)
  PROVE  Told(S, T, h, x)
<1>. DEFINE r == x.request
            U == InItsTurn(S, x.id, x.at)
<1>1. Opened(S, U, h, x)
  BY InItsTurnOpens
<1>2. r \in Requests /\ S.bound[r] = 0 /\ x.id \in PromptIds
  BY RecordTypes, NotBoundYet DEF Follows
<1>3. T = IF ~OpenIn(S, r) THEN U ELSE Bound(U, r, x.id)
  BY <1>2 DEF ChannelSubmit, InItsTurn, Bound
<1>. HIDE DEF U, r
<1>4. /\ U \in Servers /\ Follows(U, h, x.id) /\ U.current.id = x.id
      /\ SamePending(S, U) /\ U.binding = S.binding /\ U.current.start <= h + 1
  BY <1>1 DEF Opened
<1>5. OpenIn(U, r) = OpenIn(S, r)
  BY <1>4 DEF OpenIn, SamePending
<1>6. ~IsEnd(x) /\ x.kind # "activity"
  BY DEF ByChannel, IsEnd
<1>7. CASE ~OpenIn(S, r)
  <2>1. T = U
    BY <1>3, <1>7
  <2>2. ~OpenIn(U, x.request)
    BY <1>5, <1>7 DEF r
  <2>. QED  BY <1>1, <1>4, <1>6, <2>1, <2>2, GoesOn
<1>8. CASE OpenIn(S, r)
  <2>1. BoundNow(U, T, r, x.id)
    BY <1>2, <1>3, <1>4, <1>8, BoundChanges
  <2>2. OpenIn(U, x.request)
    BY <1>5, <1>8 DEF r
  <2>3. Follows(T, h + 1, x.id)
    BY <1>4, <2>1, <2>2, BoundKeeps DEF r
  <2>4. T \in Servers /\ SamePending(S, T) /\ T.binding /\ T.current.start <= h + 1
    BY <1>4, <2>1 DEF BoundNow, SamePending
  <2>5. Due(T, x)
    BY <1>6 DEF Due
  <2>. QED  BY <2>3, <2>4, <2>5 DEF Told
<1>9. QED
  BY <1>7, <1>8

(* Text was typed (rule 2).                                                *)
LEMMA TypedSubmitKeeps ==
  ASSUME ClaudeTypes, World, NEW S \in Servers, NEW h \in Nat, NEW m \in 0..LastId,
         Follows(S, h, m), S.current.id # 0 => S.current.start <= h, S.binding,
         NEW x \in Recs, x.at = h + 1, ~ByChannel(x), x.kind = "submit",
         NEW T, T = TypedSubmit(S, x.id, x)
  PROVE  Told(S, T, h, x)
<1>1. x.id \in PromptIds /\ x.id # 0 /\ x.id \in Nat /\ m \in Nat /\ x.at \in Int
  BY RecordTypes, PromptIdsAreIntegers
<1>2. x.id >= m /\ (S.current.id = 0 => x.id > m) /\ S.current.id \in {0, m}
  BY NextRecord DEF Follows, Position
<1>3. ~IsEnd(x) /\ x.kind # "activity"
  BY DEF IsEnd
<1>4. CASE S.current.id = x.id
  <2>1. T = BreakBatch(S)
    BY <1>4 DEF TypedSubmit
  <2>2. LastOf(x.id)
    BY DEF World, Records
  <2>3. x.id = m
    BY <1>1, <1>2, <1>4
  <2>4. Follows(S, h, x.id)
    BY <2>3
  <2>5. T \in Servers /\ Follows(T, h, x.id) /\ T.current.id = x.id /\ SamePending(S, T)
    BY <1>1, <1>4, <2>1, <2>2, <2>4, BreakKeeps
  <2>6. T.current.start = S.current.start /\ T.binding = S.binding /\ S.current.start \in Int
    <3>1. S.current.start \in Int
      BY DEF Servers, OpenTurns
    <3>2. T.current.start = S.current.start /\ SameLedger(S, T)
      BY <2>1, BreakBatchChanges
    <3>. QED  BY <3>1, <3>2 DEF SameLedger
  <2>7. T.current.start <= h + 1
    BY <1>1, <1>4, <2>6
  <2>8. Opened(S, T, h, x)
    BY <2>5, <2>6, <2>7 DEF Opened
  <2>. QED  BY <1>3, <2>6, <2>8, GoesOn
<1>5. CASE S.current.id # x.id
  <2>1. x.id > m
    BY <1>1, <1>2, <1>5
  <2>2. T = BeginLocal(End(S, [kind |-> "next"]), x.id, x.at)
    BY <1>5 DEF TypedSubmit
  <2>3. x.at <= h + 1
    BY <1>1
  <2>4. Opened(S, T, h, x)
    BY <1>1, <2>1, <2>2, <2>3, OpensLocal
  <2>5. T.binding
    BY <2>4 DEF Opened
  <2>. QED  BY <1>3, <2>4, <2>5, GoesOn
<1>6. QED
  BY <1>4, <1>5

(* A submit was read.                                                      *)
LEMMA SubmittedKeeps ==
  ASSUME ClaudeTypes, World, NEW S \in Servers, NEW h \in Nat, NEW m \in 0..LastId,
         Follows(S, h, m), S.current.id # 0 => S.current.start <= h,
         NEW x \in Recs, x.at = h + 1, x.kind = "submit",
         NEW T, T = Submitted(S, x)
  PROVE  Told(S, T, h, x)
<1>. DEFINE B == [S EXCEPT !.binding = TRUE]
<1>1. /\ B \in Servers /\ Follows(B, h, m) /\ B.binding /\ SamePending(S, B)
      /\ B.current = S.current
  BY BindingKeeps
<1>2. S.alias[x.id] = x.id /\ S.ended[x.id] = None
  BY NextRecord DEF Follows
<1>3. T = IF x.request # None THEN ChannelSubmit(B, x.id, x) ELSE TypedSubmit(B, x.id, x)
  BY <1>2 DEF Submitted
<1>. HIDE DEF B
<1>4. Told(B, T, h, x)
  <2>1. CASE x.request # None
    BY <1>1, <1>3, <2>1, ChannelSubmitKeeps DEF ByChannel
  <2>2. CASE x.request = None
    BY <1>1, <1>3, <2>2, TypedSubmitKeeps DEF ByChannel
  <2>. QED  BY <2>1, <2>2
<1>5. QED
  BY <1>1, <1>4 DEF Told, SamePending

(* Before a record that is no submit one was read that is.                 *)
LEMMA Announced ==
  ASSUME ClaudeTypes, World, NEW S \in Servers, NEW h \in Nat, NEW m \in 0..LastId,
         Position(S, h, m), NEW x \in Recs, x.at = h + 1, x.kind # "submit"
  PROVE  m # 0
<1>. SUFFICES ASSUME m = 0 PROVE FALSE
  OBVIOUS
<1>1. files.log \in Seq(Submits \cup TurnEnds)
  BY DEF ClaudeTypes
<1>2. files.log # <<>> /\ files.log[1].at < x.at
  <2>1. CASE x \in Range(files.log)
    <3>1. PICK i \in DOMAIN files.log : x = files.log[i]
      BY <2>1 DEF Range
    <3>2. files.log # <<>> /\ 1 \in DOMAIN files.log /\ i \in Nat /\ i >= 1
      BY <1>1, <3>1
    <3>3. i # 1
      BY <3>1, <3>2 DEF World, Records
    <3>4. 1 < i
      BY <3>2, <3>3
    <3>. QED  BY <3>1, <3>2, <3>4 DEF World, Records
  <2>2. CASE x \notin Range(files.log)
    <3>1. x = files.activity /\ files.activity # None
      BY <2>2 DEF Recs
    <3>. QED  BY <3>1 DEF World, Records
  <2>. QED  BY <2>1, <2>2
<1>3. 1 \in DOMAIN files.log
  BY <1>1, <1>2
<1>4. files.log[1] \in Recs
  BY <1>3 DEF Recs, Range
<1>5. files.log[1].at \in Nat
  BY <1>4, RecordTypes
<1>6. files.log[1].at > h
  BY <1>4 DEF Position
<1>7. QED
  BY <1>2, <1>5, <1>6

(* A record of a turn no submit announced begins a local one (rule 3).     *)
LEMMA SurfaceOpens ==
  ASSUME ClaudeTypes, World, NEW S \in Servers, NEW h \in Nat, NEW m \in 0..LastId,
         Follows(S, h, m), S.current.id # 0 => S.current.start <= h,
         NEW x \in Recs, x.at = h + 1, x.kind # "submit",
         NEW T, T = Surface(S, x.id, x.at)
  PROVE  Opened(S, T, h, x)
<1>1. x.id \in PromptIds /\ x.id # 0 /\ x.id \in Nat /\ m \in Nat /\ x.at \in Int
  BY RecordTypes, PromptIdsAreIntegers
<1>2. /\ x.id >= m /\ (S.current.id = 0 => x.id > m) /\ S.current.id \in {0, m}
      /\ S.ended[x.id] = None
  BY NextRecord DEF Follows, Position
<1>3. CASE S.current.id = x.id
  <2>1. T = S
    BY <1>3 DEF Surface, Surfaces
  <2>3. S.current.start \in Int
    BY DEF Servers, OpenTurns
  <2>4. x.id = m
    BY <1>1, <1>2, <1>3
  <2>5. Follows(S, h, x.id)
    BY <2>4
  <2>6. S.current.start <= h + 1
    BY <1>1, <1>3, <2>3
  <2>. QED  BY <1>3, <2>1, <2>3, <2>5, <2>6 DEF Opened, SamePending
<1>4. CASE S.current.id # x.id
  <2>1. x.id > m
    BY <1>1, <1>2, <1>4
  <2>. DEFINE since == IF S.lastEnd # -1 /\ S.lastEnd <= x.at /\ S.lastEnd > S.lastStart
                       THEN S.lastEnd ELSE x.at
  <2>2. T = BeginLocal(End(S, [kind |-> "next"]), x.id, since)
    BY <1>2, <1>4 DEF Surface, Surfaces
  <2>3. since \in Int /\ since <= h + 1
    <3>1. S.lastEnd \in Int
      BY DEF Servers
    <3>. QED  BY <1>1, <3>1
  <2>4. ~ByChannel(x)
    BY DEF ByChannel
  <2>. HIDE DEF since
  <2>. QED  BY <2>1, <2>2, <2>3, <2>4, OpensLocal
<1>5. QED
  BY <1>3, <1>4

(* A tool call was read.                                                   *)
LEMMA ActivityKeeps ==
  ASSUME ClaudeTypes, World, NEW S \in Servers, NEW h \in Nat, NEW m \in 0..LastId,
         Follows(S, h, m), S.current.id # 0 => S.current.start <= h, S.binding <=> m # 0,
         NEW x \in Recs, x.at = h + 1, x.kind = "activity",
         NEW T, T = Activity(S, x)
  PROVE  Told(S, T, h, x)
<1>. DEFINE U == Surface(S, x.id, x.at)
<1>1. S.binding
  BY Announced DEF Follows
<1>2. Opened(S, U, h, x)
  BY SurfaceOpens
<1>3. S.alias[x.id] = x.id /\ x.id \in PromptIds
  BY NextRecord DEF Follows
<1>4. T = IF U.current.id = x.id THEN BreakBatch(U) ELSE U
  BY <1>1, <1>3 DEF Activity
<1>. HIDE DEF U
<1>5. /\ U \in Servers /\ Follows(U, h, x.id) /\ U.current.id = x.id
      /\ SamePending(S, U) /\ U.binding = S.binding /\ U.current.start <= h + 1
  BY <1>2 DEF Opened
<1>6. T = BreakBatch(U)
  BY <1>4, <1>5
<1>7. LastOf(x.id) /\ ~ByChannel(x) /\ ~IsEnd(x)
  BY DEF World, Records, ByChannel, IsEnd
<1>8. T \in Servers /\ Follows(T, h, x.id) /\ T.current.id = x.id /\ ~T.current.batch /\ SamePending(U, T)
  BY <1>3, <1>5, <1>6, <1>7, BreakKeeps
<1>9. T.current.start = U.current.start /\ SameLedger(U, T)
  BY <1>5, <1>6, BreakBatchChanges
<1>10. T.current.start \in Int
  BY <1>8 DEF Servers, OpenTurns
<1>11. T.binding
  BY <1>1, <1>5, <1>9 DEF SameLedger
<1>12. T.current.start <= h + 1
  BY <1>5, <1>9
<1>13. SamePending(S, T)
  BY <1>5, <1>8 DEF SamePending
<1>14. Opened(S, T, h, x)
  BY <1>1, <1>8, <1>10, <1>11, <1>12, <1>13 DEF Opened
<1>15. QED
  BY <1>7, <1>8, <1>11, <1>14, GoesOn

(* The end of a turn was read (rule 4).                                    *)
LEMMA TurnRecordEndsKeeps ==
  ASSUME ClaudeTypes, World, NEW S \in Servers, NEW h \in Nat, NEW m \in 0..LastId,
         Follows(S, h, m), S.current.id # 0 => S.current.start <= h, S.binding <=> m # 0,
         NEW x \in Recs, x.at = h + 1, IsEnd(x),
         NEW T, T = TurnRecordEnds(S, x)
  PROVE  Told(S, T, h, x)
<1>. DEFINE U == Surface(S, x.id, x.at)
            V == [U EXCEPT !.lastEnd = x.at]
<1>0. x.kind # "submit"
  BY DEF IsEnd
<1>1. S.binding
  BY <1>0, Announced DEF Follows
<1>2. Opened(S, U, h, x)
  BY <1>0, SurfaceOpens
<1>3. S.alias[x.id] = x.id /\ x.id \in PromptIds /\ S.ended[x.id] = None
  BY NextRecord DEF Follows
<1>4. x.id # 0 /\ x.at \in Int /\ x \in Endings
  BY <1>3, RecordTypes, PromptIdsAreIntegers DEF Endings
<1>5. T = IF U.current.id # x.id \/ (~Surfaces(S, x.id) /\ x.at <= U.current.start) THEN U
          ELSE End(V, x)
  BY <1>1, <1>3 DEF TurnRecordEnds
<1>6. /\ U \in Servers /\ Follows(U, h, x.id) /\ U.current.id = x.id
      /\ SamePending(S, U) /\ U.binding = S.binding
  BY <1>2 DEF Opened
<1>7. ~(~Surfaces(S, x.id) /\ x.at <= U.current.start)
  <2>. SUFFICES ASSUME ~Surfaces(S, x.id), x.at <= U.current.start PROVE FALSE
    OBVIOUS
  <2>1. S.current.id = x.id
    BY <1>3 DEF Surfaces
  <2>2. U = S
    BY <2>1 DEF Surface, Surfaces
  <2>3. S.current.start <= h /\ S.current.start \in Int
    BY <1>4, <2>1 DEF Servers, OpenTurns
  <2>. QED  BY <2>2, <2>3
<1>. HIDE DEF U
<1>8. T = End(V, x)
  BY <1>5, <1>6, <1>7
<1>9. V \in Servers
  BY <1>4, <1>6, Updates
<1>10. SameTurns(U, V) /\ SamePending(U, V) /\ V.binding = U.binding /\ V.current = U.current
  BY <1>6 DEF Servers, SameTurns, SamePending
<1>. HIDE DEF V
<1>11. x.id \in 0..LastId
  BY <1>3, PromptIdsAreIntegers
<1>12. Follows(V, h, x.id)
  BY <1>6, <1>9, <1>10, <1>11, SamePendingCloses, ClosingKeeps
<1>13. V.current.id = x.id
  BY <1>6, <1>10
<1>14. /\ T \in Servers /\ Follows(T, h + 1, x.id) /\ T.current.id = 0 /\ Due(T, x)
       /\ SamePending(V, T)
  BY <1>8, <1>9, <1>12, <1>13, EndRead
<1>15. Ended(V, T, x)
  BY <1>4, <1>8, <1>9, <1>13, EndChanges
<1>16. T.binding
  BY <1>1, <1>6, <1>10, <1>15 DEF Ended
<1>17. SamePending(S, T)
  BY <1>6, <1>10, <1>14 DEF SamePending
<1>18. QED
  BY <1>14, <1>16, <1>17 DEF Told

\* What the tracker makes of a record.
Tracked(S, rec) ==
  CASE rec.kind = "submit"   -> Submitted(S, rec)
    [] rec.kind = "activity" -> Activity(S, rec)
    [] rec.kind \in {"stop", "failure"} -> TurnRecordEnds(ObserveStop(S, rec), rec)

LEMMA TrackedKeeps ==
  ASSUME ClaudeTypes, World, NEW S \in Servers, NEW h \in Nat, NEW m \in 0..LastId,
         Follows(S, h, m), S.current.id # 0 => S.current.start <= h, S.binding <=> m # 0,
         NEW x \in Recs, x.at = h + 1,
         NEW T, T = Tracked(S, x)
  PROVE  Told(S, T, h, x)
<1>1. x.kind \in {"submit", "activity", "stop", "failure"}
  BY RecordTypes
<1>2. CASE x.kind = "submit"
  BY <1>2, SubmittedKeeps DEF Tracked
<1>3. CASE x.kind = "activity"
  BY <1>3, ActivityKeeps DEF Tracked
<1>4. CASE IsEnd(x)
  <2>. DEFINE O == ObserveStop(S, x)
  <2>1. x \in TurnEnds
    BY <1>4, RecordTypes
  <2>2. T = TurnRecordEnds(O, x)
    BY <1>4 DEF Tracked, IsEnd
  <2>3. /\ O \in Servers /\ SameTracker(S, O) /\ SamePending(S, O)
        /\ \A r \in Requests :
             /\ O.deliveries[r].at = S.deliveries[r].at
             /\ O.deliveries[r].boundTo = S.deliveries[r].boundTo
             /\ O.deliveries[r].ended = S.deliveries[r].ended
    BY <2>1, ObserveStopChanges
  <2>. HIDE DEF O
  <2>4. SameTurns(S, O) /\ O.binding = S.binding /\ O.current = S.current
    BY <2>3 DEF SameTurns, SameTracker
  <2>5. Follows(O, h, m)
    BY <2>3, <2>4, SamePendingCloses, ClosingKeeps
  <2>6. (O.current.id # 0 => O.current.start <= h) /\ (O.binding <=> m # 0)
    BY <2>4
  <2>7. Told(O, T, h, x)
    BY <1>4, <2>2, <2>3, <2>5, <2>6, TurnRecordEndsKeeps
  <2>. QED  BY <2>3, <2>7 DEF Told, SamePending
<1>5. QED
  BY <1>1, <1>2, <1>3, <1>4 DEF IsEnd

-----------------------------------------------------------------------------
(* What answers the requests. *)

\* The text r is answered with: of its turn's end, or of the first Stop after its
\* delivery while the server knows of no submit.
TextFor(S, r, text) ==
  \/ /\ S.binding /\ S.deliveries[r].ended # None /\ text = S.deliveries[r].ended.text
  \/ /\ ~S.binding /\ S.deliveries[r].firstStop # None /\ ~S.deliveries[r].firstStop.background
     /\ text = S.deliveries[r].firstStop.text

LEMMA UnansweredTypes ==
  ASSUME NEW S \in Servers, NEW view, NEW grace, NEW e \in Unanswered(S, view, grace)
  PROVE  /\ e.request \in Requests /\ OpenIn(S, e.request)
         /\ e.text = None \/ TextFor(S, e.request, e.text)
         /\ e.text \in Texts \cup {None}
<1>. DEFINE over == grace /\ S.lastStop # None /\ NoTurnStarted(S, view)
            open == {r \in Requests : OpenIn(S, r)}
            D == S.deliveries
            owned == {r \in open : D[r].startsTurn /\ D[r].firstStop # None
                                   /\ ~D[r].firstStop.background /\ D[r].firstStop.at > D[r].at}
<1>1. ASSUME NEW r \in Requests PROVE D[r] \in Deliveries
  BY DEF Servers
<1>. HIDE DEF over
<1>2. CASE S.binding
  <2>1. Unanswered(S, view, grace) =
          {[request |-> r, text |-> D[r].ended.text] : r \in {q \in open : D[q].ended # None}}
          \cup {[request |-> r, text |-> None] : r \in {q \in open :
                  /\ D[q].ended = None /\ (D[q].boundTo = 0 \/ D[q].graced)
                  /\ D[q].firstStop # None /\ over}}
    BY <1>2 DEF Unanswered, over
  <2>2. CASE e \in {[request |-> r, text |-> D[r].ended.text] : r \in {q \in open : D[q].ended # None}}
    <3>1. PICK r \in {q \in open : D[q].ended # None} : e = [request |-> r, text |-> D[r].ended.text]
      BY <2>2
    <3>2. r \in Requests /\ OpenIn(S, r) /\ D[r].ended # None
      OBVIOUS
    <3>3. D[r].ended \in [text : Texts \cup {None}]
      BY <1>1, <3>2 DEF Deliveries
    <3>4. D[r].ended.text \in Texts \cup {None}
      BY <3>3
    <3>5. e.request = r /\ e.text = D[r].ended.text
      BY <3>1
    <3>. QED  BY <1>2, <3>2, <3>4, <3>5 DEF TextFor
  <2>3. CASE e \in {[request |-> r, text |-> None] : r \in {q \in open :
                  /\ D[q].ended = None /\ (D[q].boundTo = 0 \/ D[q].graced)
                  /\ D[q].firstStop # None /\ over}}
    <3>1. PICK r \in open : e = [request |-> r, text |-> None]
      BY <2>3
    <3>2. e.request = r /\ e.text = None
      BY <3>1
    <3>. QED  BY <3>2
  <2>. QED  BY <2>1, <2>2, <2>3
<1>3. CASE ~S.binding
  <2>1. Unanswered(S, view, grace) =
          {[request |-> r, text |-> D[r].firstStop.text] : r \in owned}
          \cup {[request |-> r, text |-> None] : r \in {q \in open \ owned : D[q].firstStop # None /\ over}}
    BY <1>3 DEF Unanswered, over
  <2>2. CASE e \in {[request |-> r, text |-> D[r].firstStop.text] : r \in owned}
    <3>1. PICK r \in owned : e = [request |-> r, text |-> D[r].firstStop.text]
      BY <2>2
    <3>2. r \in Requests /\ OpenIn(S, r) /\ D[r].firstStop # None /\ ~D[r].firstStop.background
      OBVIOUS
    <3>3. D[r].firstStop \in TurnEnds
      BY <1>1, <3>2 DEF Deliveries
    <3>4. D[r].firstStop.text \in Texts \cup {None}
      BY <3>3 DEF TurnEnds
    <3>5. e.request = r /\ e.text = D[r].firstStop.text
      BY <3>1
    <3>. QED  BY <1>3, <3>2, <3>4, <3>5 DEF TextFor
  <2>3. CASE e \in {[request |-> r, text |-> None] : r \in {q \in open \ owned : D[q].firstStop # None /\ over}}
    <3>1. PICK r \in open : e = [request |-> r, text |-> None]
      BY <2>3
    <3>2. e.request = r /\ e.text = None
      BY <3>1
    <3>. QED  BY <3>2
  <2>. QED  BY <2>1, <2>2, <2>3
<1>4. QED
  BY <1>2, <1>3

\* T is S with what is unanswered ended, or on its way to it.
Answered(S, T, stop) ==
  /\ T \in Servers /\ SameTurns(S, T) /\ T.binding = S.binding /\ Closing(S, T)
  /\ \A r \in Requests :
       /\ T.deliveries[r].firstStop = S.deliveries[r].firstStop
          \/ (stop # None /\ T.deliveries[r].firstStop = stop)
       /\ T.text[r] = S.text[r] \/ T.text[r] = None
          \/ (OpenIn(S, r) /\ TextFor(T, r, T.text[r]))
       /\ T.binding /\ OpenIn(S, r) /\ T.deliveries[r].ended # None => T.pending[r] # "open"

LEMMA EndUnansweredChanges ==
  ASSUME NEW S \in Servers, NEW view, view.stop \in TurnEnds \cup {None}, NEW grace \in BOOLEAN
  PROVE  Answered(S, EndUnanswered(S, view, grace), view.stop)
<1>. DEFINE O == ObserveStop(S, view.stop)
            U == Unanswered(O, view, grace)
            ends == {e \in U : O.pending[e.request] = "open"}
            of(r) == CHOOSE e \in ends : e.request = r
            ending == {e.request : e \in ends}
            P == [r \in Requests |->
                    IF r \notin ending THEN O.pending[r]
                    ELSE IF of(r).text # None THEN "answering" ELSE "ended"]
            X == [r \in Requests |-> IF r \in ending THEN of(r).text ELSE O.text[r]]
            T == [[O EXCEPT !.pending = P] EXCEPT !.text = X]
<1>1. EndUnanswered(S, view, grace) = T
  BY DEF EndUnanswered
<1>2. /\ O \in Servers /\ SameTracker(S, O) /\ SamePending(S, O)
      /\ \A r \in Requests :
           /\ O.deliveries[r].at = S.deliveries[r].at
           /\ O.deliveries[r].boundTo = S.deliveries[r].boundTo
           /\ O.deliveries[r].ended = S.deliveries[r].ended
           /\ O.deliveries[r].firstStop = S.deliveries[r].firstStop
              \/ (view.stop # None /\ O.deliveries[r].firstStop = view.stop)
  BY ObserveStopChanges
<1>. HIDE DEF O
<1>3. \A e \in U : /\ e.request \in Requests /\ OpenIn(O, e.request)
                   /\ e.text = None \/ TextFor(O, e.request, e.text)
                   /\ e.text \in Texts \cup {None}
  BY <1>2, UnansweredTypes
<1>4. O.binding => \A r \in Requests : OpenIn(O, r) /\ O.deliveries[r].ended # None =>
                     \E e \in U : e.request = r
  <2>. SUFFICES ASSUME O.binding, NEW r \in Requests, OpenIn(O, r), O.deliveries[r].ended # None
                PROVE  \E e \in U : e.request = r
    OBVIOUS
  <2>. DEFINE e == [request |-> r, text |-> O.deliveries[r].ended.text]
  <2>1. e \in U
    BY DEF Unanswered
  <2>2. e.request = r
    OBVIOUS
  <2>. QED  BY <2>1, <2>2
<1>. HIDE DEF U
<1>5. ASSUME NEW r \in ending
      PROVE  /\ r \in Requests /\ O.pending[r] = "open"
             /\ of(r).text = None \/ TextFor(O, r, of(r).text)
             /\ of(r).text \in Texts \cup {None}
  <2>1. \E e \in ends : e.request = r
    OBVIOUS
  <2>2. of(r) \in ends /\ of(r).request = r
    BY <2>1
  <2>. HIDE DEF of
  <2>. QED  BY <1>3, <2>2
<1>6. ASSUME NEW r \in Requests, O.binding, OpenIn(O, r), O.deliveries[r].ended # None, O.pending[r] = "open"
      PROVE  r \in ending
  BY <1>4, <1>6
<1>. HIDE DEF of, ending
<1>7. /\ P \in [Requests -> {"none", "open", "answering", "ended"}]
      /\ X \in [Requests -> Texts \cup {None}]
  <2>1. O.pending \in [Requests -> {"none", "open", "answering", "ended"}]
        /\ O.text \in [Requests -> Texts \cup {None}]
    BY <1>2 DEF Servers
  <2>. QED  BY <1>5, <2>1
<1>8. \A r \in Requests :
        /\ r \notin ending => P[r] = O.pending[r] /\ X[r] = O.text[r]
        /\ r \in ending => P[r] \in {"answering", "ended"} /\ X[r] = of(r).text
  OBVIOUS
<1>. HIDE DEF P, X
<1>9. T \in Servers
  <2>1. [O EXCEPT !.pending = P] \in Servers
    BY <1>2, <1>7, Updates
  <2>. QED  BY <1>7, <2>1, Updates
<1>10. /\ SameTracker(O, T) /\ T.deliveries = O.deliveries /\ T.pending = P /\ T.text = X
  BY <1>2, <1>7 DEF Servers, SameTracker
<1>. HIDE DEF T
<1>11. T.binding = S.binding /\ T.binding = O.binding
  BY <1>2, <1>10 DEF SameTracker
<1>12. SameTurns(S, T)
  BY <1>2, <1>10 DEF SameTracker, SameTurns
<1>13. \A r \in Requests : OpenIn(S, r) = OpenIn(O, r) /\ S.pending[r] = O.pending[r] /\ S.text[r] = O.text[r]
  BY <1>2 DEF OpenIn, SamePending
<1>14. \A r \in Requests : \A text : TextFor(O, r, text) => TextFor(T, r, text)
  BY <1>10, <1>11 DEF TextFor
<1>15. Closing(S, T)
  BY <1>5, <1>8, <1>10, <1>13 DEF Closing
<1>16. ASSUME NEW r \in Requests
       PROVE  /\ T.deliveries[r].firstStop = S.deliveries[r].firstStop
                 \/ (view.stop # None /\ T.deliveries[r].firstStop = view.stop)
              /\ T.text[r] = S.text[r] \/ T.text[r] = None
                 \/ (OpenIn(S, r) /\ TextFor(T, r, T.text[r]))
              /\ T.binding /\ OpenIn(S, r) /\ T.deliveries[r].ended # None => T.pending[r] # "open"
  <2>1. T.deliveries[r].firstStop = S.deliveries[r].firstStop
        \/ (view.stop # None /\ T.deliveries[r].firstStop = view.stop)
    BY <1>2, <1>10
  <2>2. CASE r \in ending
    <3>1. T.text[r] = of(r).text /\ T.pending[r] # "open" /\ OpenIn(S, r)
      BY <1>5, <1>8, <1>10, <1>13, <2>2 DEF OpenIn
    <3>. QED  BY <1>5, <1>14, <2>1, <2>2, <3>1
  <2>3. CASE r \notin ending
    <3>1. T.text[r] = S.text[r]
      BY <1>8, <1>10, <1>13, <2>3
    <3>2. T.binding /\ OpenIn(S, r) /\ T.deliveries[r].ended # None => T.pending[r] # "open"
      <4>1. T.pending[r] = O.pending[r]
        BY <1>8, <1>10, <2>3
      <4>. QED  BY <1>6, <1>10, <1>11, <1>13, <2>3, <4>1
    <3>. QED  BY <2>1, <3>1, <3>2
  <2>. QED  BY <2>2, <2>3
<1>17. Answered(S, T, view.stop)
  BY <1>9, <1>11, <1>12, <1>15, <1>16 DEF Answered
<1>18. QED
  BY <1>1, <1>17 DEF T

\* The texts requests were answered with are of the turns they were taken into.
OwnTexts(S) ==
  \A r \in Requests : S.text[r] # None => taken[r] # None /\ S.text[r].number = taken[r].number

(* Once there was a Stop, a request that waits for the first turn was taken*)
(* into it.                                                                *)
LEMMA FirstTurnOver ==
  ASSUME ClaudeTypes, World, files.stop # None, NEW r \in Requests, FirstTurn(r)
  PROVE  taken[r] # None /\ taken[r].number = 1
<1>1. files.stop \in Recs /\ IsEnd(files.stop) /\ files.stop \in Range(files.log)
  <2>1. files.stop \in TurnEnds
    BY DEF ClaudeTypes
  <2>2. files.stop \in Range(files.log)
    BY DEF World, Records
  <2>. QED  BY <2>1, <2>2 DEF Recs, IsEnd, TurnEnds
<1>2. files.stop.id \in PromptIds /\ files.stop.id <= cc.lastId
  BY <1>1, RecordTypes DEF World, Records
<1>3. NumberOf(files.stop) >= 1 /\ NumberOf(files.stop) \in Nat
  BY <1>2, NumberTypes DEF World, NumberOf
<1>4. cc.lastNumber # 0
  <2>1. files.log # <<>>
    BY <1>1 DEF Range
  <2>. QED  BY <2>1 DEF World, Queue
<1>5. cc.number # 1
  <2>1. CASE cc.id = 0
    BY <2>1 DEF World, Numbers
  <2>2. CASE cc.id # 0
    <3>1. NumberOf(files.stop) < cc.number
      BY <1>1, <2>2 DEF World, Records
    <3>2. cc.number \in Nat
      BY DEF ClaudeTypes
    <3>. QED  BY <1>3, <3>1, <3>2
  <2>. QED  BY <2>1, <2>2
<1>6. QED
  BY <1>4, <1>5 DEF FirstTurn

(* The answers are of the turns their requests were taken into.            *)
LEMMA AnswersKeep ==
  ASSUME ClaudeTypes, World, NEW S \in Servers, NEW h \in Nat, NEW m \in 0..LastId,
         Follows(S, h, m), OwnTexts(S), ~S.binding => Unheard(S),
         NEW T, Answered(S, T, files.stop)
  PROVE  /\ T \in Servers /\ Follows(T, h, m) /\ OwnTexts(T) /\ Closing(S, T)
         /\ T.binding = S.binding /\ T.current = S.current
         /\ ~S.binding => Unheard(T)
<1>1. T \in Servers /\ SameTurns(S, T) /\ T.binding = S.binding /\ Closing(S, T)
  BY DEF Answered
<1>2. Follows(T, h, m)
  BY <1>1, ClosingKeeps
<1>3. files.stop # None => files.stop \in Range(files.log) /\ IsEnd(files.stop)
  <2>1. files.stop # None => files.stop \in TurnEnds
    BY DEF ClaudeTypes
  <2>. QED  BY <2>1 DEF World, Records, IsEnd, TurnEnds
<1>4. ASSUME ~S.binding PROVE Unheard(T)
  <2>1. \A r \in Requests : OpenIn(T, r) => FirstTurn(r)
    BY <1>1, <1>4 DEF Unheard, Closing, OpenIn
  <2>2. \A r \in Requests : FirstText(T.deliveries[r].firstStop)
                            /\ (T.deliveries[r].firstStop # None => files.stop # None)
    BY <1>3, <1>4 DEF Answered, Unheard
  <2>. QED  BY <1>4, <2>1, <2>2 DEF Unheard
<1>5. OwnTexts(T)
  <2>. SUFFICES ASSUME NEW r \in Requests, T.text[r] # None
                PROVE  taken[r] # None /\ T.text[r].number = taken[r].number
    BY DEF OwnTexts
  <2>1. CASE T.text[r] = S.text[r]
    BY <2>1 DEF OwnTexts
  <2>2. CASE OpenIn(S, r) /\ TextFor(T, r, T.text[r])
    <3>1. CASE T.binding
      <4>1. T.deliveries[r].ended # None /\ T.text[r] = T.deliveries[r].ended.text
        BY <2>2, <3>1 DEF TextFor
      <4>. QED  BY <1>2, <4>1 DEF Follows, Bindings
    <3>2. CASE ~T.binding
      <4>1. /\ T.deliveries[r].firstStop # None /\ ~T.deliveries[r].firstStop.background
            /\ T.text[r] = T.deliveries[r].firstStop.text
        BY <2>2, <3>2 DEF TextFor
      <4>2. T.text[r].number = 1 /\ files.stop # None
        BY <1>1, <1>4, <3>2, <4>1 DEF Unheard, FirstText
      <4>3. FirstTurn(r)
        BY <1>1, <2>2, <3>2 DEF Unheard
      <4>. QED  BY <4>2, <4>3, FirstTurnOver
    <3>. QED  BY <3>1, <3>2
  <2>. QED  BY <2>1, <2>2 DEF Answered
<1>6. QED
  BY <1>1, <1>2, <1>4, <1>5 DEF SameTurns

LEMMA ViewTypes ==
  ASSUME ClaudeTypes
  PROVE  View(files).stop = files.stop /\ View(files).activity = files.activity
         /\ View(files).stop \in TurnEnds \cup {None}
  BY DEF ClaudeTypes, View

(* The timer leaves what is known as it is.                                *)
LEMMA GraceKeeps ==
  ASSUME ClaudeTypes, World, NEW S \in Servers, NEW h \in Nat, NEW m \in 0..LastId,
         Knows(S, h, m), NEW T, T = EndUnanswered(S, View(files), TRUE)
  PROVE  T \in Servers /\ Knows(T, h, m) /\ Closing(S, T)
<1>1. Answered(S, T, files.stop)
  <2>1. Answered(S, EndUnanswered(S, View(files), TRUE), View(files).stop)
    BY ViewTypes, EndUnansweredChanges
  <2>. QED  BY <2>1, ViewTypes
<1>2. Follows(S, h, m) /\ OwnTexts(S) /\ (~S.binding => Unheard(S))
  BY DEF Knows, Settled, OwnTexts
<1>3. /\ T \in Servers /\ Follows(T, h, m) /\ OwnTexts(T) /\ Closing(S, T)
      /\ T.binding = S.binding /\ T.current = S.current
      /\ ~S.binding => Unheard(T)
  BY <1>1, <1>2, AnswersKeep
<1>4. Settled(T, h)
  BY <1>3 DEF Knows, Settled, OwnTexts, Closing
<1>5. QED
  BY <1>3, <1>4 DEF Knows

(* A record was read and reported.                                         *)
LEMMA ReportKeeps ==
  ASSUME ClaudeTypes, World, NEW S \in Servers, NEW h \in Nat, NEW m \in 0..LastId,
         Knows(S, h, m), NEW x \in Recs, x.at = h + 1,
         NEW T, T = Report(S, x, View(files))
  PROVE  T \in Servers /\ Knows(T, h + 1, x.id) /\ Closing(S, T)
<1>. DEFINE U == Tracked(S, x)
<1>1. Told(S, U, h, x)
  BY TrackedKeeps DEF Knows
<1>2. T = EndUnanswered(U, View(files), FALSE)
  BY DEF Report, Tracked
<1>. HIDE DEF U
<1>3. /\ U \in Servers /\ Follows(U, h + 1, x.id) /\ U.binding
      /\ SamePending(S, U) /\ Due(U, x)
      /\ U.current.id # 0 => U.current.start <= h + 1
  BY <1>1 DEF Told
<1>4. x.id \in 0..LastId /\ x.id # 0 /\ h + 1 \in Nat
  BY RecordTypes, PromptIdsAreIntegers
<1>5. Answered(U, T, files.stop)
  <2>1. Answered(U, EndUnanswered(U, View(files), FALSE), View(files).stop)
    BY <1>3, ViewTypes, EndUnansweredChanges
  <2>. QED  BY <1>2, <2>1, ViewTypes
<1>6. OwnTexts(U)
  BY <1>3 DEF Knows, Settled, OwnTexts, SamePending
<1>7. /\ T \in Servers /\ Follows(T, h + 1, x.id) /\ OwnTexts(T) /\ Closing(U, T)
      /\ T.binding = U.binding /\ T.current = U.current
  <2>1. ASSUME NEW g \in Nat, NEW k \in 0..LastId, Follows(U, g, k)
        PROVE  /\ T \in Servers /\ Follows(T, g, k) /\ OwnTexts(T) /\ Closing(U, T)
               /\ T.binding = U.binding /\ T.current = U.current
    BY <1>3, <1>5, <1>6, <2>1, AnswersKeep
  <2>. QED  BY <1>3, <1>4, <2>1
<1>8. Closing(S, T)
  BY <1>3, <1>7 DEF SamePending, Closing
<1>9. Settled(T, h + 1)
  <2>. SUFFICES ASSUME NEW y \in Recs, IsEnd(y), ~y.background, y.at <= h + 1,
                       NEW r \in Requests, taken[r] # None, taken[r].number = NumberOf(y),
                       T.pending[r] = "open"
                PROVE  FALSE
    BY <1>7 DEF Settled, OwnTexts
  <2>1. S.pending[r] = "open" /\ OpenIn(U, r) /\ U.pending[r] = "open"
    BY <1>3, <1>7 DEF Closing, SamePending, OpenIn
  <2>2. CASE y.at <= h
    BY <2>1, <2>2 DEF Knows, Settled
  <2>3. CASE y = x
    <3>1. U.deliveries[r].ended # None
      BY <1>3, <2>1, <2>3 DEF Due
    <3>2. T.deliveries[r].ended = U.deliveries[r].ended
      BY <1>5 DEF Answered, SameTurns
    <3>. QED  BY <1>3, <1>5, <1>7, <2>1, <3>1, <3>2 DEF Answered
  <2>4. y.at \in Nat
    BY RecordTypes
  <2>5. y.at = h + 1 => y = x
    BY DEF World, Records
  <2>. QED  BY <2>2, <2>3, <2>4, <2>5
<1>10. QED
  BY <1>3, <1>4, <1>7, <1>8, <1>9 DEF Knows

-----------------------------------------------------------------------------
(* A poll. *)

\* What holds first, and at the next if at this, holds at the last.
LEMMA UpToTheLast ==
  ASSUME NEW n \in Nat, NEW G, 0 \in G, \A t \in 0..n : t # n /\ t \in G => t + 1 \in G
  PROVE  n \in G
<1>. SUFFICES ASSUME n \notin G PROVE FALSE
  OBVIOUS
<1>1. (0..n) \ G # {} /\ (0..n) \ G \subseteq Nat
  OBVIOUS
<1>2. PICK x \in (0..n) \ G : \A y \in (0..n) \ G : ~(<<y, x>> \in OpToRel(<, Nat))
  BY <1>1, WFMin, NatLessThanWellFounded, Zenon
<1>3. \A y \in (0..n) \ G : ~(y < x)
  BY <1>1, <1>2, Zenon DEF OpToRel
<1>4. x # 0 /\ x \in 0..n
  OBVIOUS
<1>5. x - 1 \in 0..n /\ x - 1 # n /\ x - 1 < x /\ (x - 1) + 1 = x
  BY <1>4
<1>6. x - 1 \in G
  BY <1>3, <1>5
<1>7. QED
  BY <1>2, <1>5, <1>6

\* f is what the server is after each time up to n.
UpTo(f, S, records, view, n) ==
  f = [t \in 0..n |-> IF t = 0 THEN S ELSE ReportAt(f[t - 1], t, records, view)]

LEMMA UpToExists ==
  ASSUME NEW S, NEW records, NEW view, NEW n \in Nat
  PROVE  \E f : UpTo(f, S, records, view, n)
<1>. DEFINE G == {k \in 0..n : \E f : UpTo(f, S, records, view, k)}
<1>1. 0 \in G
  <2>. DEFINE f == [t \in 0..0 |-> S]
  <2>1. \A t \in 0..0 : t = 0
    OBVIOUS
  <2>2. f = [t \in 0..0 |-> IF t = 0 THEN S ELSE ReportAt(f[t - 1], t, records, view)]
    BY <2>1
  <2>3. UpTo(f, S, records, view, 0)
    BY <2>2 DEF UpTo
  <2>. QED  BY <2>3
<1>2. ASSUME NEW k \in 0..n, k # n, k \in G PROVE k + 1 \in G
  <2>1. PICK f : UpTo(f, S, records, view, k)
    BY <1>2
  <2>. DEFINE R(g, t) == IF t = 0 THEN S ELSE ReportAt(g[t - 1], t, records, view)
              g == [t \in 0..(k + 1) |-> IF t <= k THEN f[t] ELSE R(f, k + 1)]
  <2>2. \A t \in 0..k : f[t] = R(f, t)
    BY <2>1 DEF UpTo
  <2>3. k + 1 \in 0..n
    BY <1>2
  <2>4. \A t \in 0..(k + 1) : t \in 0..k \/ t = k + 1
    OBVIOUS
  <2>5. \A t \in 0..k : g[t] = f[t]
    OBVIOUS
  <2>6. g[k + 1] = R(f, k + 1)
    OBVIOUS
  <2>7. ASSUME NEW t \in 0..(k + 1) PROVE g[t] = R(g, t)
    <3>. HIDE DEF g
    <3>1. CASE t = 0
      BY <2>2, <2>5, <3>1
    <3>2. CASE t # 0
      <4>1. t - 1 \in 0..k
        BY <3>2
      <4>2. R(g, t) = R(f, t)
        BY <2>5, <4>1
      <4>. QED  BY <2>2, <2>4, <2>5, <2>6, <4>2
    <3>. QED  BY <3>1, <3>2
  <2>8. g = [t \in 0..(k + 1) |-> g[t]]
    OBVIOUS
  <2>9. g = [t \in 0..(k + 1) |-> R(g, t)]
    <3>. HIDE DEF g, R
    <3>. QED  BY <2>7, <2>8
  <2>10. UpTo(g, S, records, view, k + 1)
    <3>. HIDE DEF g
    <3>. QED  BY <2>9 DEF UpTo
  <2>. QED  BY <2>3, <2>10
<1>. HIDE DEF G
<1>3. n \in G
  BY <1>1, <1>2, UpToTheLast
<1>4. QED
  BY <1>3 DEF G

LEMMA PollIsUpTo ==
  ASSUME NEW S, NEW records, NEW view, NEW n \in Nat
  PROVE  \E f : UpTo(f, S, records, view, n) /\ PollAll(S, records, view, n) = f[n]
<1>. DEFINE f == CHOOSE f : UpTo(f, S, records, view, n)
<1>1. UpTo(f, S, records, view, n)
  BY UpToExists
<1>2. PollAll(S, records, view, n) = f[n]
  BY DEF PollAll, UpTo
<1>3. QED
  BY <1>1, <1>2

(* Time passes.                                                            *)
LEMMA NothingHappened ==
  ASSUME ClaudeTypes, NEW S \in Servers, NEW h \in Nat, NEW m \in 0..LastId,
         Knows(S, h, m), \A x \in Recs : x.at # h + 1
  PROVE  Knows(S, h + 1, m)
<1>1. \A x \in Recs : (x.at <= h + 1 <=> x.at <= h) /\ (x.at > h + 1 <=> x.at > h)
  <2>. TAKE x \in Recs
  <2>1. x.at \in Nat /\ x.at # h + 1
    BY RecordTypes
  <2>. QED  BY <2>1
<1>2. Position(S, h + 1, m)
  BY <1>1 DEF Knows, Follows, Position
<1>3. Turn(S, h + 1, m)
  <2>1. files.activity # None => files.activity \in Recs
    BY DEF Recs
  <2>. QED  BY <1>1, <2>1 DEF Knows, Follows, Turn
<1>4. Bindings(S, h + 1, m)
  <2>1. \A x \in Range(files.log) : x \in Recs
    BY DEF Recs
  <2>. QED  BY <1>1, <2>1 DEF Knows, Follows, Bindings
<1>5. Settled(S, h + 1)
  BY <1>1 DEF Knows, Settled
<1>6. S.current.id # 0 => S.current.start <= h + 1
  <2>1. S.current.start \in Int
    BY DEF Servers, OpenTurns
  <2>. QED  BY <2>1 DEF Knows
<1>7. QED
  BY <1>2, <1>3, <1>4, <1>5, <1>6 DEF Knows, Follows

(* What a poll reports is what was not read.                               *)
LEMMA UnreadIsAfter ==
  ASSUME ClaudeTypes, NEW h \in Nat, Horizon(h)
  PROVE  Unread = {x \in Recs : x.at > h}
<1>. DEFINE logged == {files.log[i] : i \in server.read + 1..Len(files.log)}
            called == IF files.activity = None \/ files.activity.at = server.activityRead THEN {}
                      ELSE {files.activity}
<1>1. /\ files.log \in Seq(Submits \cup TurnEnds) /\ Len(files.log) \in Nat
      /\ DOMAIN files.log = 1..Len(files.log) /\ server.read \in Nat
  BY DEF ClaudeTypes
<1>2. \A i \in DOMAIN files.log : files.log[i] \in Recs /\ files.log[i].at \in Nat
  <2>1. \A i \in DOMAIN files.log : files.log[i] \in Recs
    BY DEF Recs, Range
  <2>. QED  BY <2>1, RecordTypes
<1>3. \A i \in DOMAIN files.log : i <= server.read <=> files.log[i].at <= h
  BY DEF Horizon
<1>4. logged \subseteq {x \in Recs : x.at > h}
  <2>. SUFFICES ASSUME NEW i \in server.read + 1..Len(files.log)
                PROVE  files.log[i] \in Recs /\ files.log[i].at > h
    OBVIOUS
  <2>1. i \in DOMAIN files.log /\ ~(i <= server.read)
    BY <1>1
  <2>. QED  BY <1>2, <1>3, <2>1
<1>5. \A x \in Range(files.log) : x.at > h => x \in logged
  <2>. SUFFICES ASSUME NEW i \in DOMAIN files.log, files.log[i].at > h PROVE files.log[i] \in logged
    BY DEF Range
  <2>1. ~(i <= server.read)
    BY <1>2, <1>3
  <2>2. i \in server.read + 1..Len(files.log)
    BY <1>1, <2>1
  <2>. QED  BY <2>2
<1>6. files.activity # None => files.activity \in Recs /\ files.activity.at \in Nat
  <2>1. files.activity # None => files.activity \in Recs
    BY DEF Recs
  <2>. QED  BY <2>1, RecordTypes
<1>7. files.activity # None => (files.activity.at = server.activityRead <=> ~(files.activity.at > h))
  BY <1>6 DEF Horizon
<1>8. Unread = logged \cup called
  BY DEF Unread
<1>. HIDE DEF logged
<1>9. Unread \subseteq {x \in Recs : x.at > h}
  BY <1>4, <1>6, <1>7, <1>8
<1>10. {x \in Recs : x.at > h} \subseteq Unread
  BY <1>5, <1>7, <1>8 DEF Recs
<1>11. QED
  BY <1>9, <1>10

(* What a poll does at a time.                                             *)
LEMMA ReportAtKeeps ==
  ASSUME ClaudeTypes, World, NEW S \in Servers, NEW h \in Nat, NEW m \in 0..LastId,
         Knows(S, h, m), NEW records, \A x : x \in records /\ x.at = h + 1 <=> x \in Recs /\ x.at = h + 1,
         NEW T, T = ReportAt(S, h + 1, records, View(files))
  PROVE  T \in Servers /\ Closing(S, T) /\ \E k \in 0..LastId : Knows(T, h + 1, k)
<1>1. CASE \A x \in records : x.at # h + 1
  <2>1. T = S
    BY <1>1 DEF ReportAt
  <2>2. Knows(S, h + 1, m)
    BY <1>1, NothingHappened
  <2>. QED  BY <2>1, <2>2 DEF Closing
<1>2. CASE \E x \in records : x.at = h + 1
  <2>. DEFINE x == CHOOSE rec \in records : rec.at = h + 1
  <2>1. x \in records /\ x.at = h + 1
    BY <1>2
  <2>2. x \in Recs
    BY <2>1
  <2>3. T = Report(S, x, View(files))
    BY <1>2 DEF ReportAt
  <2>. HIDE DEF x
  <2>4. T \in Servers /\ Knows(T, h + 1, x.id) /\ Closing(S, T)
    BY <2>1, <2>2, <2>3, ReportKeeps
  <2>5. x.id \in 0..LastId
    BY <2>2, RecordTypes, PromptIdsAreIntegers
  <2>. QED  BY <2>4, <2>5
<1>3. QED
  BY <1>1, <1>2

(* A poll takes the horizon to now.                                        *)
LEMMA PollKeeps ==
  ASSUME ClaudeTypes, World, NEW h \in Nat, Horizon(h), NEW m \in 0..LastId, Knows(server.state, h, m)
  PROVE  Polled \in Servers /\ Closing(server.state, Polled) /\ \E k \in 0..LastId : Knows(Polled, now, k)
<1>. DEFINE S == server.state
            G(f) == {t \in 0..now : /\ f[t] \in Servers /\ Closing(S, f[t])
                                    /\ \E k \in 0..LastId : Knows(f[t], IF t <= h THEN h ELSE t, k)}
<1>1. now \in Nat /\ S \in Servers /\ h <= now
  BY DEF ClaudeTypes, Horizon
<1>2. PICK f : UpTo(f, S, Unread, View(files), now) /\ Polled = f[now]
  BY <1>1, PollIsUpTo DEF Polled
<1>3. \A t \in 0..now : f[t] = IF t = 0 THEN S ELSE ReportAt(f[t - 1], t, Unread, View(files))
  BY <1>1, <1>2 DEF UpTo
<1>4. Unread = {x \in Recs : x.at > h}
  BY UnreadIsAfter
<1>5. 0 \in G(f)
  <2>1. f[0] = S
    BY <1>1, <1>3
  <2>2. Closing(S, S)
    BY DEF Closing
  <2>. QED  BY <1>1, <2>1, <2>2
<1>6. ASSUME NEW t \in 0..now, t # now, t \in G(f) PROVE t + 1 \in G(f)
  <2>1. t + 1 \in 0..now /\ (t + 1) - 1 = t /\ t + 1 # 0 /\ t \in Nat
    BY <1>1, <1>6
  <2>2. f[t + 1] = ReportAt(f[t], t + 1, Unread, View(files))
    BY <1>3, <2>1
  <2>3. CASE t + 1 <= h
    <3>1. \A x \in Unread : x.at # t + 1
      BY <1>4, <2>1, <2>3
    <3>2. f[t + 1] = f[t]
      BY <2>2, <3>1 DEF ReportAt
    <3>3. t <= h
      BY <2>1, <2>3
    <3>. QED  BY <1>6, <2>1, <2>3, <3>2, <3>3
  <2>4. CASE ~(t + 1 <= h)
    <3>1. t >= h /\ t + 1 > h
      BY <2>1, <2>4
    <3>2. PICK k \in 0..LastId : Knows(f[t], t, k)
      <4>1. (IF t <= h THEN h ELSE t) = t
        BY <2>1, <3>1
      <4>. QED  BY <1>6, <4>1
    <3>3. \A x : x \in Unread /\ x.at = t + 1 <=> x \in Recs /\ x.at = t + 1
      BY <1>4, <3>1
    <3>4. f[t] \in Servers /\ Closing(S, f[t])
      BY <1>6
    <3>5. /\ f[t + 1] \in Servers /\ Closing(f[t], f[t + 1])
          /\ \E j \in 0..LastId : Knows(f[t + 1], t + 1, j)
      <4>. HIDE <1>2, <1>3, <1>4, <1>5, <1>6
      <4>. QED  BY <2>1, <2>2, <3>2, <3>3, <3>4, ReportAtKeeps
    <3>6. Closing(S, f[t + 1])
      BY <3>4, <3>5 DEF Closing
    <3>. QED  BY <2>1, <2>4, <3>5, <3>6
  <2>. QED  BY <2>3, <2>4
<1>7. now \in G(f)
  <2>. HIDE DEF G
  <2>. QED  BY <1>1, <1>5, <1>6, UpToTheLast
<1>8. (IF now <= h THEN h ELSE now) = now
  BY <1>1
<1>9. QED
  BY <1>2, <1>7, <1>8

-----------------------------------------------------------------------------
(* The server's steps. *)

\* What the invariant says of Claude Code and the hooks is said of the same.
SameWorld ==
  /\ UNCHANGED <<now, numberOf, served, taken>>
  /\ files'.log = files.log /\ files'.stop = files.stop /\ files'.activity = files.activity
  /\ files'.nudge = files.nudge
  /\ cc'.id = cc.id /\ cc'.number = cc.number /\ cc'.taking = cc.taking
  /\ cc'.lastId = cc.lastId /\ cc'.lastNumber = cc.lastNumber /\ cc'.call = cc.call
  /\ cc'.refused = cc.refused

LEMMA SameWorldKeeps ==
  ASSUME SameWorld, NEW S, NEW h, NEW m
  PROVE  /\ Recs' = Recs
         /\ Follows(S, h, m) => Follows(S, h, m)'
         /\ Settled(S, h) => Settled(S, h)'
<1>1. Recs' = Recs
  BY DEF SameWorld, Recs
<1>2. \A i : LastOf(i)' <=> LastOf(i)
  BY DEF SameWorld, LastOf
<1>3. Position(S, h, m) => Position(S, h, m)'
  BY <1>1 DEF Position, SameWorld, Fresh
<1>4. Turn(S, h, m) => Turn(S, h, m)'
  BY <1>1, <1>2 DEF Turn, SameWorld, NumberOf, IsEnd
<1>5. Bindings(S, h, m) => Bindings(S, h, m)'
  BY <1>1 DEF Bindings, SameWorld, ByChannel, OpenIn
<1>6. Heard(S, m) => Heard(S, m)'
  BY DEF Heard, SameWorld
<1>7. Settled(S, h) => Settled(S, h)'
  BY <1>1 DEF Settled, SameWorld, NumberOf, IsEnd
<1>8. QED
  BY <1>1, <1>3, <1>4, <1>5, <1>6, <1>7 DEF Follows

\* The queue is as it was, or r is at its end.
Queued(r) ==
  \/ cc'.queue = cc.queue
  \/ r \in Requests /\ cc'.queue = Append(cc.queue, r)

LEMMA SameWorldWorld ==
  ASSUME ClaudeTypes, World, SameWorld, NEW r, Queued(r),
         cc'.queue # cc.queue => server.state.pending[r] = "none" /\ server'.state.pending[r] # "none",
         \A q \in Requests : server.state.pending[q] # "none" => server'.state.pending[q] # "none"
  PROVE  World'
<1>1. Recs' = Recs
  BY SameWorldKeeps
<1>2. cc.queue \in Seq(Requests \cup {"typed"}) /\ Len(cc.queue) \in Nat /\ "typed" \notin Requests
      /\ cc.taking \in Nat
  BY NoneIsNothing DEF ClaudeTypes
<1>3. DOMAIN cc.queue = 1..Len(cc.queue)
  BY <1>2
<1>4. Numbers'
  BY DEF World, Numbers, SameWorld
<1>5. \A i : LastOf(i)' <=> LastOf(i)
  BY DEF SameWorld, LastOf
<1>6. Records'
  BY <1>1, <1>5 DEF World, Records, SameWorld, IsEnd, ByChannel, NumberOf
<1>7. Openers'
  BY <1>1 DEF World, Openers, SameWorld, ByChannel
<1>8. Messages'
  BY <1>1 DEF World, Messages, SameWorld, IsEnd, ByChannel, NumberOf
<1>9. CASE cc'.queue = cc.queue
  <2>1. InTurn'
    BY <1>9 DEF World, InTurn, SameWorld
  <2>2. \A i \in DOMAIN cc.queue : cc.queue[i] # "typed" => cc.queue[i] \in Requests
    BY <1>2
  <2>3. Queue'
    BY <1>9, <2>2 DEF World, Queue, SameWorld
  <2>. QED  BY <1>4, <1>6, <1>7, <1>8, <2>1, <2>3 DEF World
<1>10. CASE r \in Requests /\ cc'.queue = Append(cc.queue, r) /\ cc'.queue # cc.queue
  <2>. DEFINE n == Len(cc.queue)
              q == cc'.queue
  <2>1. /\ Len(q) = n + 1 /\ DOMAIN q = 1..(n + 1) /\ q[n + 1] = r
        /\ \A i \in 1..n : q[i] = cc.queue[i]
    BY <1>2, <1>10
  <2>2. \A i \in 1..n : cc.queue[i] # r
    BY <1>2, <1>3, <1>10 DEF World, Queue
  <2>3. taken[r] = None
    BY <1>10 DEF World, Queue
  <2>4. \A i \in 1..(n + 1) : i \in 1..n \/ i = n + 1
    BY <1>2
  <2>5. n \in Nat /\ cc.taking <= n /\ r # "typed"
    BY <1>2, <1>10 DEF World, InTurn
  <2>6. \A i \in 1..cc.taking : i \in 1..n
    BY <1>2, <2>5
  <2>7. \A i \in DOMAIN cc.queue : cc.queue[i] # "typed" => cc.queue[i] \in Requests
    BY <1>2
  <2>. HIDE DEF n, q
  <2>8. InTurn'
    <3>1. cc.taking <= n + 1
      BY <1>2, <2>5
    <3>2. \A i \in 1..cc.taking : q[i] # "typed"
      BY <2>1, <2>6 DEF World, InTurn
    <3>. QED  BY <2>1, <3>1, <3>2 DEF World, InTurn, SameWorld, q
  <2>9. \A i, j \in DOMAIN q : q[i] = q[j] /\ i # j => q[i] = "typed"
    BY <1>3, <2>1, <2>2, <2>4 DEF World, Queue, n
  <2>10. \A i \in DOMAIN q : q[i] # "typed" =>
           taken[q[i]] = None /\ server'.state.pending[q[i]] # "none"
    BY <1>3, <1>10, <2>1, <2>3, <2>4, <2>7 DEF World, Queue, n
  <2>11. cc.lastNumber = 0 => \A i \in DOMAIN q : q[i] # "typed"
    BY <1>3, <2>1, <2>4, <2>5 DEF World, Queue, n
  <2>12. Queue'
    BY <2>9, <2>10, <2>11 DEF World, Queue, SameWorld, q
  <2>. QED  BY <1>4, <1>6, <1>7, <1>8, <2>8, <2>12 DEF World
<1>11. QED
  BY <1>9, <1>10 DEF Queued

LEMMA SameWorldUnheard ==
  ASSUME ClaudeTypes, World, SameWorld, NEW S, Unheard(S), NEW r, Queued(r)
  PROVE  Unheard(S)'
<1>1. cc.queue \in Seq(Requests \cup {"typed"}) /\ Len(cc.queue) \in Nat /\ cc.taking \in Nat
      /\ cc.taking <= Len(cc.queue)
  BY DEF ClaudeTypes, World, InTurn
<1>2. \A i \in DOMAIN cc.queue : i \in DOMAIN cc'.queue /\ cc'.queue[i] = cc.queue[i]
  <2>1. CASE cc'.queue = cc.queue
    BY <2>1
  <2>2. CASE r \in Requests /\ cc'.queue = Append(cc.queue, r)
    BY <1>1, <2>2
  <2>. QED  BY <2>1, <2>2 DEF Queued
<1>3. \A i \in 1..cc.taking : i \in DOMAIN cc.queue
  BY <1>1
<1>4. \A q \in Requests : FirstTurn(q) => FirstTurn(q)'
  BY <1>2, <1>3 DEF FirstTurn, SameWorld
<1>5. \A x \in Range(files.log) : IsEnd(x) => FirstText(x)
  BY DEF Unheard
<1>6. \A q \in Requests : OpenIn(S, q) => FirstTurn(q)'
  BY <1>4 DEF Unheard
<1>7. QED
  BY <1>5, <1>6 DEF Unheard, SameWorld, IsEnd, FirstText, OpenIn

(* What a server knows it knows when it has made no more of it than to     *)
(* close requests and to count a Stop.                                     *)
LEMMA ClosingKnows ==
  ASSUME ClaudeTypes, World, NEW S \in Servers, NEW T \in Servers, NEW h \in Nat, NEW m \in 0..LastId,
         Knows(S, h, m), SameTurns(S, T), Closing(S, T), T.binding = S.binding, T.text = S.text,
         \A r \in Requests : \/ T.deliveries[r].firstStop = S.deliveries[r].firstStop
                             \/ files.stop # None /\ T.deliveries[r].firstStop = files.stop
  PROVE  Knows(T, h, m)
<1>1. Follows(T, h, m)
  BY ClosingKeeps DEF Knows
<1>2. Settled(T, h)
  BY DEF Knows, Settled, Closing
<1>3. T.current = S.current
  BY DEF SameTurns
<1>4. ASSUME m = 0 PROVE Unheard(T)
  <2>1. Unheard(S)
    BY <1>4 DEF Knows
  <2>2. files.stop # None => files.stop \in Range(files.log) /\ IsEnd(files.stop)
    <3>1. files.stop # None => files.stop \in TurnEnds
      BY DEF ClaudeTypes
    <3>. QED  BY <3>1 DEF World, Records, IsEnd, TurnEnds
  <2>3. \A r \in Requests : FirstText(T.deliveries[r].firstStop)
                            /\ (T.deliveries[r].firstStop # None => files.stop # None)
    BY <2>1, <2>2 DEF Unheard
  <2>4. \A r \in Requests : OpenIn(T, r) => FirstTurn(r)
    BY <2>1 DEF Unheard, Closing, OpenIn
  <2>. QED  BY <2>1, <2>3, <2>4 DEF Unheard
<1>5. QED
  BY <1>1, <1>2, <1>3, <1>4 DEF Knows

LEMMA OneEndedKnows ==
  ASSUME ClaudeTypes, World, NEW S \in Servers, NEW h \in Nat, NEW m \in 0..LastId,
         Knows(S, h, m), NEW r \in Requests, OpenIn(S, r),
         NEW T, T = [S EXCEPT !.pending[r] = "ended"]
  PROVE  T \in Servers /\ Knows(T, h, m) /\ Closing(S, T)
<1>. DEFINE P == [S.pending EXCEPT ![r] = "ended"]
<1>1. S.pending \in [Requests -> {"none", "open", "answering", "ended"}]
  BY DEF Servers
<1>2. P \in [Requests -> {"none", "open", "answering", "ended"}]
      /\ \A q \in Requests : P[q] = IF q = r THEN "ended" ELSE S.pending[q]
  BY <1>1
<1>3. T = [S EXCEPT !.pending = P]
  OBVIOUS
<1>. HIDE DEF P
<1>4. T \in Servers
  BY <1>2, <1>3, Updates
<1>5. T.pending = P /\ SameTurns(S, T) /\ T.binding = S.binding /\ T.text = S.text /\ T.deliveries = S.deliveries
  BY <1>3 DEF Servers, SameTurns
<1>6. Closing(S, T)
  BY <1>2, <1>5 DEF Closing, OpenIn
<1>7. QED
  BY <1>4, <1>5, <1>6, ClosingKnows

LEMMA ObserveKnows ==
  ASSUME ClaudeTypes, World, NEW S \in Servers, NEW h \in Nat, NEW m \in 0..LastId,
         Knows(S, h, m), NEW T, T = ObserveStop(S, files.stop)
  PROVE  /\ T \in Servers /\ Knows(T, h, m) /\ Closing(S, T)
         /\ T.pending = S.pending /\ SameTurns(S, T) /\ T.binding = S.binding
<1>1. files.stop \in TurnEnds \cup {None}
  BY DEF ClaudeTypes
<1>2. /\ T \in Servers /\ SameTracker(S, T) /\ SamePending(S, T)
      /\ \A r \in Requests :
              /\ T.deliveries[r].at = S.deliveries[r].at
              /\ T.deliveries[r].boundTo = S.deliveries[r].boundTo
              /\ T.deliveries[r].ended = S.deliveries[r].ended
              /\ T.deliveries[r].firstStop = S.deliveries[r].firstStop
                 \/ (files.stop # None /\ T.deliveries[r].firstStop = files.stop)
  BY <1>1, ObserveStopChanges
<1>3. SameTurns(S, T) /\ T.binding = S.binding
  BY <1>2 DEF SameTurns, SameTracker
<1>4. Closing(S, T) /\ T.text = S.text /\ T.pending = S.pending
  BY <1>2, SamePendingCloses DEF SamePending
<1>5. QED
  BY <1>2, <1>3, <1>4, ClosingKnows

\* The server has read up to now, or as far as before.
ReadUpTo(h, n, a) ==
  \/ n = server.read /\ a = server.activityRead /\ Horizon(h)
  \/ /\ n = Len(files.log) /\ h = now
     /\ a = IF files.activity = None THEN -1 ELSE files.activity.at

(* A step that takes the server to T keeps the invariant if T knows the    *)
(* turns.                                                                  *)
LEMMA ServerStepKeeps ==
  ASSUME ClaudeTypes, World, RoutedToItsTurn, ~server.down,
         NEW T \in Servers, NEW n, NEW a, Becomes(T, n, a), NEW h \in Nat, ReadUpTo(h, n, a),
         UNCHANGED <<now, numberOf, served, taken>>,
         NEW r, Queued(r), cc' = [cc EXCEPT !.queue = cc'.queue],
         cc'.queue # cc.queue => server.state.pending[r] = "none" /\ T.pending[r] # "none",
         \A q \in Requests : server.state.pending[q] # "none" => T.pending[q] # "none",
         NEW m \in 0..LastId, Follows(T, h, m), Settled(T, h), T.binding <=> m # 0,
         T.current.id # 0 => T.current.start <= h, m = 0 => Unheard(T)',
         \A p \in routed' : p \in routed \/ (/\ p \in Requests \X Nat /\ taken[p[1]] # None
                                             /\ taken[p[1]].number = p[2])
  PROVE  Inv'
<1>1. server \in [state : Servers, read : Nat, activityRead : Int, down : BOOLEAN]
      /\ cc \in [queue : Seq(Requests \cup {"typed"}), id : 0..LastId, number : Nat, taking : Nat,
             call : BOOLEAN, calls : Nat, refused : BOOLEAN, lastId : 0..LastId,
             lastNumber : Nat, typed : Nat]
      /\ files \in [log : Seq(Submits \cup TurnEnds), stop : TurnEnds \cup {None},
                activity : ToolCalls \cup {None}, nudge : Texts \cup {None},
                open : [owning : SUBSET Requests, open : SUBSET Requests]]
      /\ now \in Nat
  BY DEF ClaudeTypes
<1>2. /\ server'.state = T /\ server'.read = n /\ server'.activityRead = a /\ server'.down = server.down
      /\ server' = [server EXCEPT !.state = T, !.read = n, !.activityRead = a]
  BY <1>1 DEF Becomes
<1>3. LET o == [owning |-> Owning(T), open |-> OpenRequests(T)] IN
      /\ files' = [files EXCEPT !.open = o] /\ files'.open = o
      /\ files'.log = files.log /\ files'.stop = files.stop /\ files'.activity = files.activity
      /\ files'.nudge = files.nudge
  BY <1>1 DEF Becomes
<1>4. cc'.queue \in Seq(Requests \cup {"typed"})
  <2>1. cc.queue \in Seq(Requests \cup {"typed"})
    BY <1>1
  <2>2. CASE cc'.queue = cc.queue
    BY <2>1, <2>2
  <2>3. CASE r \in Requests /\ cc'.queue = Append(cc.queue, r)
    BY <2>1, <2>3
  <2>. QED  BY <2>2, <2>3 DEF Queued
<1>5. /\ cc'.id = cc.id /\ cc'.number = cc.number /\ cc'.taking = cc.taking
      /\ cc'.lastId = cc.lastId /\ cc'.lastNumber = cc.lastNumber /\ cc'.call = cc.call
      /\ cc'.refused = cc.refused
  BY <1>1
<1>6. SameWorld
  BY <1>3, <1>5 DEF SameWorld
<1>7. n \in Nat /\ a \in Int
  <2>1. files.activity # None => files.activity.at \in Nat
    BY <1>1 DEF ToolCalls
  <2>. QED  BY <1>1, <2>1 DEF ReadUpTo
<1>8. ClaudeTypes'
  <2>1. server' \in [state : Servers, read : Nat, activityRead : Int, down : BOOLEAN]
    BY <1>1, <1>2, <1>7
  <2>2. files' \in [log : Seq(Submits \cup TurnEnds), stop : TurnEnds \cup {None},
                activity : ToolCalls \cup {None}, nudge : Texts \cup {None},
                open : [owning : SUBSET Requests, open : SUBSET Requests]]
    <3>1. Owning(T) \subseteq Requests /\ OpenRequests(T) \subseteq Requests
      BY DEF Owning, OpenRequests
    <3>. QED  BY <1>1, <1>3, <3>1
  <2>3. cc' \in [queue : Seq(Requests \cup {"typed"}), id : 0..LastId, number : Nat, taking : Nat,
             call : BOOLEAN, calls : Nat, refused : BOOLEAN, lastId : 0..LastId,
             lastNumber : Nat, typed : Nat]
    <3>. DEFINE q == cc'.queue
    <3>1. cc' = [cc EXCEPT !.queue = q]
      OBVIOUS
    <3>2. q \in Seq(Requests \cup {"typed"})
      BY <1>4
    <3>. HIDE DEF q
    <3>. QED  BY <1>1, <3>1, <3>2
  <2>4. routed' \subseteq Requests \X Nat
    BY DEF ClaudeTypes
  <2>. QED  BY <1>1, <2>1, <2>2, <2>3, <2>4 DEF ClaudeTypes
<1>9. RoutedToItsTurn'
  BY DEF RoutedToItsTurn
<1>10. World'
  BY <1>2, <1>6, SameWorldWorld
<1>11. InLine'
  BY <1>2, <1>3 DEF InLine, Owning, OpenRequests, OpenIn
<1>12. Horizon(h)'
  <2>1. \A i \in DOMAIN files.log : files.log[i].at \in Nat /\ files.log[i].at <= now
    <3>1. \A i \in DOMAIN files.log : files.log[i] \in Recs
      BY DEF Recs, Range
    <3>. QED  BY <3>1, RecordTypes DEF World, Records
  <2>2. files.activity # None => files.activity.at \in Nat /\ files.activity.at <= now
    <3>1. files.activity # None => files.activity \in Recs
      BY DEF Recs
    <3>. QED  BY <3>1, RecordTypes DEF World, Records
  <2>3. DOMAIN files.log = 1..Len(files.log) /\ Len(files.log) \in Nat
    BY <1>1
  <2>4. CASE n = server.read /\ a = server.activityRead /\ Horizon(h)
    BY <1>2, <1>3, <2>4 DEF Horizon
  <2>5. CASE /\ n = Len(files.log) /\ h = now
             /\ a = IF files.activity = None THEN -1 ELSE files.activity.at
    <3>1. h \in 0..now /\ a <= h
      BY <1>1, <2>2, <2>5
    <3>2. n \in 0..Len(files.log) /\ \A i \in DOMAIN files.log : i <= n <=> files.log[i].at <= h
      BY <2>1, <2>3, <2>5
    <3>3. files.activity # None => (files.activity.at = a <=> files.activity.at <= h)
      BY <2>2, <2>5
    <3>. QED  BY <1>2, <1>3, <3>1, <3>2, <3>3 DEF Horizon
  <2>. QED  BY <2>4, <2>5 DEF ReadUpTo
<1>13. Follows(T, h, m)' /\ Settled(T, h)'
  BY <1>6, SameWorldKeeps
<1>14. Knows(T, h, m)'
  BY <1>13 DEF Knows
<1>15. Knows(server.state, h, m)'
  BY <1>2, <1>14
<1>16. ~server'.down
  BY <1>2
<1>17. QED
  BY <1>8, <1>9, <1>10, <1>11, <1>12, <1>15, <1>16 DEF Inv

(* The same of a step that leaves Claude Code alone.                       *)
LEMMA StateStepKeeps ==
  ASSUME Inv, ~server.down, NEW T \in Servers, NEW n, NEW a, Becomes(T, n, a),
         NEW h \in Nat, ReadUpTo(h, n, a), UNCHANGED <<cc, now, numberOf, served, taken>>,
         NEW m \in 0..LastId, Knows(T, h, m), Closing(server.state, T),
         \A p \in routed' : p \in routed \/ (/\ p \in Requests \X Nat /\ taken[p[1]] # None
                                             /\ taken[p[1]].number = p[2])
  PROVE  Inv'
<1>1. ClaudeTypes /\ World /\ RoutedToItsTurn
  BY DEF Inv
<1>2. Queued(None) /\ cc' = [cc EXCEPT !.queue = cc'.queue] /\ cc'.queue = cc.queue
  BY <1>1 DEF ClaudeTypes, Queued
<1>3. \A q \in Requests : server.state.pending[q] # "none" => T.pending[q] # "none"
  BY DEF Closing
<1>4. /\ Follows(T, h, m) /\ Settled(T, h) /\ (T.binding <=> m # 0)
      /\ T.current.id # 0 => T.current.start <= h
      /\ m = 0 => Unheard(T)
  BY DEF Knows
<1>5. SameWorld
  BY <1>1 DEF SameWorld, Becomes, ClaudeTypes
<1>6. Unheard(T) => Unheard(T)'
  BY <1>1, <1>2, <1>5, SameWorldUnheard
<1>7. UNCHANGED <<now, numberOf, served, taken>>
  OBVIOUS
<1>8. QED
  BY <1>1, <1>2, <1>3, <1>4, <1>6, <1>7, ServerStepKeeps

(* What a poll leaves the server knowing.                                  *)
LEMMA PolledKnows ==
  ASSUME Inv, ~server.down
  PROVE  /\ Polled \in Servers /\ Closing(server.state, Polled) /\ now \in Nat
         /\ \E k \in 0..LastId : Knows(Polled, now, k)
<1>1. ClaudeTypes /\ World
  BY DEF Inv
<1>2. PICK h \in Nat, m \in 0..LastId : Horizon(h) /\ Knows(server.state, h, m)
  BY DEF Inv
<1>3. now \in Nat
  BY <1>1 DEF ClaudeTypes
<1>4. QED
  BY <1>1, <1>2, <1>3, PollKeeps

\* The whole of the files is read.
LEMMA ReadsAll ==
  ASSUME NEW T, Reads(T)
  PROVE  \E n, a : Becomes(T, n, a) /\ ReadUpTo(now, n, a)
  BY DEF Reads, ReadUpTo

LEMMA ReadingKeeps ==
  ASSUME Inv, ~server.down, NEW T \in Servers, Reads(T),
         UNCHANGED <<cc, now, numberOf, served, taken>>,
         NEW m \in 0..LastId, Knows(T, now, m), Closing(server.state, T),
         \A p \in routed' : p \in routed \/ (/\ p \in Requests \X Nat /\ taken[p[1]] # None
                                             /\ taken[p[1]].number = p[2])
  PROVE  Inv'
<1>1. PICK n, a : Becomes(T, n, a) /\ ReadUpTo(now, n, a)
  BY ReadsAll
<1>2. now \in Nat
  BY DEF Inv, ClaudeTypes
<1>3. QED
  BY <1>1, <1>2, StateStepKeeps

LEMMA PollStep ==
  ASSUME Inv, Poll
  PROVE  Inv'
<1>1. ~server.down /\ Reads(Polled) /\ UNCHANGED <<cc, now, numberOf, served, taken, routed>>
  BY DEF Poll
<1>2. PICK T : T = Polled
  OBVIOUS
<1>3. PICK k \in 0..LastId : Knows(T, now, k)
  BY <1>1, <1>2, PolledKnows
<1>4. T \in Servers /\ Closing(server.state, T) /\ Reads(T)
  BY <1>1, <1>2, PolledKnows
<1>5. QED
  BY <1>1, <1>3, <1>4, ReadingKeeps

LEMMA GraceOverStep ==
  ASSUME Inv, GraceOver
  PROVE  Inv'
<1>1. PICK T : T = EndUnanswered(server.state, View(files), TRUE)
  OBVIOUS
<1>2. ~server.down /\ Goes(T) /\ UNCHANGED <<cc, now, numberOf, served, taken, routed>>
  BY <1>1 DEF GraceOver
<1>3. PICK h \in Nat, m \in 0..LastId : Horizon(h) /\ Knows(server.state, h, m)
  BY <1>2 DEF Inv
<1>4. server.state \in Servers /\ ClaudeTypes /\ World
  BY <1>2 DEF Inv, ClaudeTypes
<1>5. T \in Servers /\ Knows(T, h, m) /\ Closing(server.state, T)
  BY <1>1, <1>3, <1>4, GraceKeeps
<1>6. Becomes(T, server.read, server.activityRead) /\ ReadUpTo(h, server.read, server.activityRead)
  BY <1>2, <1>3 DEF Goes, ReadUpTo
<1>7. QED
  BY <1>2, <1>5, <1>6, StateStepKeeps

(* A request ends outside a poll.                                          *)
LEMMA OneEndedStep ==
  ASSUME Inv, ~server.down, NEW r \in Requests, OpenIn(server.state, r),
         Goes([server.state EXCEPT !.pending[r] = "ended"]),
         UNCHANGED <<cc, now, numberOf, served, taken, routed>>
  PROVE  Inv'
<1>1. PICK T : T = [server.state EXCEPT !.pending[r] = "ended"]
  OBVIOUS
<1>2. Goes(T)
  BY <1>1
<1>3. PICK h \in Nat, m \in 0..LastId : Horizon(h) /\ Knows(server.state, h, m)
  BY DEF Inv
<1>4. server.state \in Servers /\ ClaudeTypes /\ World
  BY DEF Inv, ClaudeTypes
<1>5. T \in Servers /\ Knows(T, h, m) /\ Closing(server.state, T)
  BY <1>1, <1>3, <1>4, OneEndedKnows
<1>6. Becomes(T, server.read, server.activityRead) /\ ReadUpTo(h, server.read, server.activityRead)
  BY <1>2, <1>3 DEF Goes, ReadUpTo
<1>7. QED
  BY <1>5, <1>6, StateStepKeeps

LEMMA ReplyDoneStep ==
  ASSUME Inv, NEW r \in Requests, ReplyDone(r)
  PROVE  Inv'
<1>1. PICK S : S = Polled
  OBVIOUS
<1>2. PICK T : T = [S EXCEPT !.pending[r] = "ended"]
  OBVIOUS
<1>3. /\ ~server.down /\ OpenIn(S, r) /\ Reads(T)
      /\ UNCHANGED <<cc, now, numberOf, served, taken, routed>>
  BY <1>1, <1>2 DEF ReplyDone
<1>4. PICK k \in 0..LastId : Knows(S, now, k)
  BY <1>1, <1>3, PolledKnows
<1>5. S \in Servers /\ Closing(server.state, S) /\ now \in Nat /\ ClaudeTypes /\ World
  BY <1>1, <1>3, PolledKnows DEF Inv
<1>6. T \in Servers /\ Knows(T, now, k) /\ Closing(S, T)
  BY <1>2, <1>3, <1>4, <1>5, OneEndedKnows
<1>7. Closing(server.state, T)
  BY <1>5, <1>6 DEF Closing
<1>8. QED
  BY <1>3, <1>6, <1>7, ReadingKeeps

(* The running turn, once a tool call of it was read.                      *)
LEMMA CallRead ==
  ASSUME ClaudeTypes, World, cc.call, NEW S \in Servers, NEW k \in 0..LastId, Knows(S, now, k)
  PROVE  /\ k = cc.id /\ k # 0 /\ S.binding /\ S.current.id = k /\ S.alias[k] = k
         /\ files.activity # None /\ files.activity.id = k
         /\ cc.number = numberOf[k] /\ cc.number \in Nat
<1>1. cc.id # 0 /\ files.activity # None /\ files.activity.id = cc.id
  BY DEF World, InTurn
<1>2. files.activity \in Recs
  BY <1>1 DEF Recs
<1>3. files.activity.at <= now /\ files.activity.at \in Nat /\ now \in Nat
  <2>1. files.activity.at \in 1..now
    BY <1>2 DEF World, Records
  <2>2. now \in Nat
    BY DEF ClaudeTypes
  <2>. QED  BY <2>1, <2>2
<1>4. k # 0
  BY <1>2, <1>3 DEF Knows, Follows, Position
<1>5. cc.id <= k
  BY <1>1, <1>2, <1>3 DEF Knows, Follows, Position
<1>6. k \in 0..cc.lastId /\ cc.id = cc.lastId
  BY <1>1 DEF Knows, Follows, Position, World, Numbers
<1>7. cc.lastId \in 0..LastId
  BY DEF ClaudeTypes
<1>8. k = cc.id
  BY <1>5, <1>6, <1>7
<1>9. k \in PromptIds
  BY <1>4, PromptIdsAreIntegers
<1>10. S.current.id = k
  BY <1>1, <1>7, <1>8 DEF Knows, Follows, Position
<1>11. S.alias[k] = k
  BY <1>9, PromptIdsAreIntegers DEF Knows, Follows, Position
<1>12. cc.number = numberOf[k] /\ cc.number \in Nat
  BY <1>1, <1>4, <1>6, <1>8 DEF World, Numbers, ClaudeTypes
<1>13. QED
  BY <1>1, <1>4, <1>8, <1>10, <1>11, <1>12 DEF Knows

LEMMA AskPermissionStep ==
  ASSUME Inv, AskPermission
  PROVE  Inv'
<1>1. PICK P : P = Polled
  OBVIOUS
<1>2. PICK S : S = ObserveStop(P, files.stop)
  OBVIOUS
<1>3. PICK r : r = OwnerOf(S, View(files))
  OBVIOUS
<1>4. /\ ~server.down /\ cc.call /\ r # None /\ Reads(S)
      /\ routed' = routed \cup {<<r, cc.number>>}
      /\ UNCHANGED <<cc, now, numberOf, served, taken>>
  BY <1>1, <1>2, <1>3 DEF AskPermission
<1>5. PICK k \in 0..LastId : Knows(P, now, k)
  BY <1>1, <1>4, PolledKnows
<1>6. P \in Servers /\ Closing(server.state, P) /\ now \in Nat /\ ClaudeTypes /\ World
  BY <1>1, <1>4, PolledKnows DEF Inv
<1>7. S \in Servers /\ Knows(S, now, k) /\ Closing(P, S)
  BY <1>2, <1>5, <1>6, ObserveKnows
<1>8. Closing(server.state, S)
  BY <1>6, <1>7 DEF Closing
<1>9. /\ k # 0 /\ S.binding /\ files.activity.id = k /\ cc.number = numberOf[k] /\ cc.number \in Nat
  BY <1>4, <1>6, <1>7, CallRead
<1>10. r \in {q \in Requests : S.deliveries[q].boundTo = k /\ OpenIn(S, q)}
  <2>. DEFINE owners == {q \in Requests : S.deliveries[q].boundTo = View(files).activity.id /\ OpenIn(S, q)}
  <2>1. Cardinality(owners) = 1 /\ r = CHOOSE q \in owners : TRUE
    BY <1>3, <1>4, <1>9 DEF OwnerOf
  <2>2. owners # {}
    BY <2>1, FS_EmptySet
  <2>. HIDE DEF owners
  <2>3. r \in owners
    BY <2>1, <2>2
  <2>. QED  BY <1>6, <1>9, <2>3, ViewTypes DEF owners
<1>11. taken[r] # None /\ taken[r].number = cc.number /\ r \in Requests
  BY <1>7, <1>9, <1>10 DEF Knows, Follows, Bindings
<1>12. \A p \in routed' : p \in routed \/ (/\ p \in Requests \X Nat /\ taken[p[1]] # None
                                           /\ taken[p[1]].number = p[2])
  BY <1>4, <1>9, <1>11
<1>13. QED
  BY <1>4, <1>7, <1>8, <1>12, ReadingKeeps

(* The greatest of a range's numbers.                                      *)
LEMMA MaxOfRange ==
  ASSUME NEW n \in Nat, NEW G \in SUBSET (1..n), G # {}
  PROVE  Max(G) \in G
<1>. DEFINE Below == {n - i : i \in G}
<1>0. \A i \in G : i \in 1..n
  OBVIOUS
<1>1. Below \subseteq Nat /\ Below # {}
  <2>1. ASSUME NEW i \in G PROVE n - i \in Nat
    BY <1>0
  <2>2. Below \subseteq Nat
    BY <2>1
  <2>. QED  BY <2>2
<1>2. PICK x \in Below : \A y \in Below : ~(<<y, x>> \in OpToRel(<, Nat))
  BY <1>1, WFMin, NatLessThanWellFounded, Zenon
<1>3. \A y \in Below : ~(y < x)
  BY <1>1, <1>2, Zenon DEF OpToRel
<1>4. PICK i \in G : x = n - i
  BY <1>2
<1>5. \A j \in G : ~(n - j < n - i)
  BY <1>3, <1>4
<1>6. \A j \in G : i >= j
  BY <1>0, <1>5
<1>7. QED
  BY <1>6 DEF Max

LEMMA CallAgentToolStep ==
  ASSUME Inv, CallAgentTool
  PROVE  Inv'
<1>1. PICK S : S = Polled
  OBVIOUS
<1>2. PICK r : r = ChooseRequest(S, cc.id)
  OBVIOUS
<1>3. /\ ~server.down /\ cc.call /\ r # None /\ Reads(S)
      /\ routed' = routed \cup {<<r, cc.number>>}
      /\ UNCHANGED <<cc, now, numberOf, served, taken>>
  BY <1>1, <1>2 DEF CallAgentTool
<1>4. PICK k \in 0..LastId : Knows(S, now, k)
  BY <1>1, <1>3, PolledKnows
<1>5. S \in Servers /\ Closing(server.state, S) /\ now \in Nat /\ ClaudeTypes /\ World
  BY <1>1, <1>3, PolledKnows DEF Inv
<1>6. /\ k # 0 /\ k = cc.id /\ S.current.id = k /\ S.alias[k] = k
      /\ cc.number = numberOf[k] /\ cc.number \in Nat
  BY <1>3, <1>4, <1>5, CallRead
<1>. DEFINE took == S.current.requests
            mine == {i \in DOMAIN took : OpenIn(S, took[i])}
<1>7. took \in Seq(Requests)
  BY <1>5 DEF Servers, OpenTurns
<1>8. mine # {} /\ r = took[Max(mine)]
  BY <1>2, <1>3, <1>6 DEF ChooseRequest
<1>9. mine \in SUBSET (1..Len(took)) /\ Len(took) \in Nat /\ DOMAIN took = 1..Len(took)
  BY <1>7
<1>. HIDE DEF took, mine
<1>10. Max(mine) \in DOMAIN took
  BY <1>8, <1>9, MaxOfRange
<1>11. r \in Range(took) /\ r \in Requests
  BY <1>7, <1>8, <1>9, <1>10, ElementOfSeq DEF Range
<1>12. taken[r] # None /\ taken[r].number = cc.number
  BY <1>4, <1>6, <1>11 DEF Knows, Follows, Bindings, took
<1>13. \A p \in routed' : p \in routed \/ (/\ p \in Requests \X Nat /\ taken[p[1]] # None
                                           /\ taken[p[1]].number = p[2])
  BY <1>3, <1>6, <1>11, <1>12
<1>14. QED
  BY <1>3, <1>4, <1>5, <1>13, ReadingKeeps

\* T is O with r delivered, and r then in the state v.
DeliveredAs(O, T, r, v) ==
  /\ T \in Servers
  /\ T.current = O.current /\ T.ended = O.ended /\ T.bound = O.bound /\ T.alias = O.alias
  /\ T.heard = O.heard /\ T.text = O.text /\ T.binding = O.binding
  /\ T.deliveries[r].at # -1 /\ T.deliveries[r].boundTo = 0
  /\ T.deliveries[r].ended = None /\ T.deliveries[r].firstStop = None
  /\ \A q \in Requests : q # r => T.deliveries[q] = O.deliveries[q]
  /\ \A q \in Requests : T.pending[q] = IF q = r THEN v ELSE O.pending[q]

LEMMA DeliveredChanges ==
  ASSUME ClaudeTypes, NEW S \in Servers, NEW r \in Requests, NEW v \in {"open", "ended"},
         NEW D, D = Delivered(S, r, View(files), now),
         NEW T, T = IF v = "open" THEN D ELSE [D EXCEPT !.pending[r] = "ended"]
  PROVE  DeliveredAs(ObserveStop(S, files.stop), T, r, v)
<1>. DEFINE O == ObserveStop(S, files.stop)
            q == Quiet(O, View(files))
            d == [NotDelivered EXCEPT !.at = now, !.stopsBefore = O.stops, !.startsTurn = q]
            E == [O.deliveries EXCEPT ![r] = d]
            P == [O.pending EXCEPT ![r] = "open"]
            V == [O.pending EXCEPT ![r] = v]
            U == [[[O EXCEPT !.deliveries = E] EXCEPT !.lastDelivery = now] EXCEPT !.pending = V]
<1>1. O \in Servers /\ now \in Nat
  <2>1. files.stop \in TurnEnds \cup {None} /\ now \in Nat
    BY DEF ClaudeTypes
  <2>. QED  BY <2>1, ObserveStopChanges
<1>2. D = [[[O EXCEPT !.deliveries = E] EXCEPT !.lastDelivery = now] EXCEPT !.pending = P]
  <2>1. View(files).stop = files.stop
    BY ViewTypes
  <2>2. Delivered(S, r, View(files), now) =
          [O EXCEPT !.deliveries[r] = d, !.lastDelivery = now, !.pending[r] = "open"]
    BY <2>1 DEF Delivered
  <2>. HIDE DEF O, d
  <2>. QED  BY <1>1, <2>2 DEF Servers
<1>. HIDE DEF O
<1>3. d.at = now /\ d.boundTo = 0 /\ d.ended = None /\ d.firstStop = None
  BY DEF NotDelivered
<1>4. q \in BOOLEAN /\ O.stops \in Int
  BY <1>1 DEF Servers, Quiet
<1>. HIDE DEF q
<1>5. d \in Deliveries
  <2>. DEFINE N1 == [NotDelivered EXCEPT !.at = now]
              N2 == [N1 EXCEPT !.stopsBefore = O.stops]
              N3 == [N2 EXCEPT !.startsTurn = q]
  <2>1. now \in Int /\ 0 \in 0..LastId /\ -1 \in Int /\ 0 \in Int
    BY <1>1, PromptIdsAreIntegers
  <2>2. NotDelivered \in Deliveries
    BY <2>1 DEF NotDelivered, Deliveries
  <2>3. d = N3
    BY DEF NotDelivered
  <2>4. N1 \in Deliveries
    BY <2>1, <2>2 DEF Deliveries
  <2>. HIDE DEF N1
  <2>5. N2 \in Deliveries
    BY <1>4, <2>4 DEF Deliveries
  <2>. HIDE DEF N2, d
  <2>6. N3 \in Deliveries
    BY <1>4, <2>5 DEF Deliveries
  <2>. HIDE DEF N3
  <2>. QED  BY <2>3, <2>6
<1>. HIDE DEF d
<1>6. E \in [Requests -> Deliveries] /\ E[r] = d /\ \A p \in Requests : p # r => E[p] = O.deliveries[p]
  BY <1>1, <1>5 DEF Servers
<1>7. /\ V \in [Requests -> {"none", "open", "answering", "ended"}]
      /\ \A p \in Requests : V[p] = IF p = r THEN v ELSE O.pending[p]
  BY <1>1 DEF Servers
<1>8. T = U
  <2>1. CASE v = "open"
    BY <1>2, <2>1
  <2>2. CASE v = "ended"
    <3>1. T = [D EXCEPT !.pending[r] = "ended"]
      BY <2>2
    <3>2. [P EXCEPT ![r] = "ended"] = V
      BY <1>1, <2>2 DEF Servers
    <3>. HIDE DEF E, V, P
    <3>3. D.pending = P
      BY <1>1, <1>2 DEF Servers
    <3>4. T = [D EXCEPT !.pending = [P EXCEPT ![r] = "ended"]]
      BY <3>1, <3>3
    <3>. QED  BY <1>1, <1>2, <3>2, <3>4 DEF Servers
  <2>. QED  BY <2>1, <2>2
<1>. HIDE DEF E, V
<1>9. U \in Servers
  <2>1. [O EXCEPT !.deliveries = E] \in Servers
    BY <1>1, <1>6, Updates
  <2>2. [[O EXCEPT !.deliveries = E] EXCEPT !.lastDelivery = now] \in Servers
    <3>1. now \in Int
      BY <1>1
    <3>. QED  BY <2>1, <3>1, Updates
  <2>. QED  BY <1>7, <2>2, Updates
<1>10. /\ U.current = O.current /\ U.ended = O.ended /\ U.bound = O.bound /\ U.alias = O.alias
       /\ U.heard = O.heard /\ U.text = O.text /\ U.binding = O.binding
       /\ U.deliveries = E /\ U.pending = V
  BY <1>1 DEF Servers
<1>. HIDE DEF U
<1>11. d.at # -1
  BY <1>1, <1>3
<1>12. DeliveredAs(O, T, r, v)
  <2>1. U.deliveries[r].at # -1 /\ U.deliveries[r].boundTo = 0
        /\ U.deliveries[r].ended = None /\ U.deliveries[r].firstStop = None
    BY <1>3, <1>6, <1>10, <1>11
  <2>2. \A p \in Requests : p # r => U.deliveries[p] = O.deliveries[p]
    BY <1>6, <1>10
  <2>3. \A p \in Requests : U.pending[p] = IF p = r THEN v ELSE O.pending[p]
    BY <1>7, <1>10
  <2>4. DeliveredAs(O, U, r, v)
    BY <1>9, <1>10, <2>1, <2>2, <2>3, Zenon DEF DeliveredAs
  <2>. QED  BY <1>8, <2>4, Zenon
<1>13. QED
  BY <1>12 DEF O

\* All of Knows but what nothing was read for.
AllButUnheard(S, h, m) ==
  /\ S \in Servers /\ Follows(S, h, m) /\ Settled(S, h) /\ (S.binding <=> m # 0)
  /\ S.current.id # 0 => S.current.start <= h

LEMMA SameHeard ==
  ASSUME NEW S \in Servers, NEW T \in Servers, NEW m \in Nat,
         Heard(S, m), T.heard = S.heard, T.current = S.current
  PROVE  Heard(T, m)
  BY DEF Heard

(* A delivery changes nothing the server knows of the turns.               *)
LEMMA DeliveredFollows ==
  ASSUME ClaudeTypes, World, NEW O \in Servers, NEW h \in Nat, NEW k \in 0..LastId,
         Knows(O, h, k), NEW r \in Requests, taken[r] = None, NEW v \in {"open", "ended"},
         NEW T, DeliveredAs(O, T, r, v)
  PROVE  AllButUnheard(T, h, k)
<1>1. /\ T \in Servers
      /\ T.current = O.current /\ T.ended = O.ended /\ T.bound = O.bound /\ T.alias = O.alias
      /\ T.heard = O.heard /\ T.text = O.text /\ T.binding = O.binding
      /\ T.deliveries[r].at # -1 /\ T.deliveries[r].boundTo = 0 /\ T.deliveries[r].ended = None
      /\ \A q \in Requests : q # r => T.deliveries[q] = O.deliveries[q]
      /\ \A q \in Requests : T.pending[q] = IF q = r THEN v ELSE O.pending[q]
  BY DEF DeliveredAs
<1>2. Position(T, h, k)
  BY <1>1 DEF Knows, Follows, Position, Fresh
<1>3. Turn(T, h, k)
  BY <1>1 DEF Knows, Follows, Turn
<1>4. Heard(T, k)
  <2>1. Heard(O, k)
    BY DEF Knows, Follows
  <2>2. k \in Nat
    BY PromptIdsAreIntegers
  <2>. QED  BY <1>1, <2>1, <2>2, SameHeard
<1>5. O.bound[r] = 0
  BY DEF Knows, Follows, Bindings
<1>6. \A y \in Recs : ByChannel(y) => y.request # r /\ y.request \in Requests
  BY RecordTypes DEF World, Messages
<1>7. Bindings(T, h, k)
  <2>0. \A q \in Requests : q # r => (OpenIn(T, q) <=> OpenIn(O, q))
    BY <1>1 DEF OpenIn
  <2>1. \A y \in Recs : ByChannel(y) /\ y.at <= h /\ OpenIn(T, y.request) => T.bound[y.request] # 0
    BY <1>1, <1>6, <2>0 DEF Knows, Follows, Bindings
  <2>2. \A q \in Requests : T.deliveries[q].boundTo = T.bound[q]
    BY <1>1, <1>5 DEF Knows, Follows, Bindings
  <2>3. \A q \in Requests : T.bound[q] # 0 =>
             /\ T.bound[q] <= k /\ taken[q] # None /\ taken[q].number = numberOf[T.bound[q]]
             /\ \E x \in Range(files.log) : ByChannel(x) /\ x.request = q /\ x.at <= h
    BY <1>1 DEF Knows, Follows, Bindings
  <2>4. \A q \in Requests : T.current.id # 0 /\ OpenIn(T, q) /\ T.bound[q] # 0
                                 /\ numberOf[T.bound[q]] = numberOf[k] =>
              T.bound[q] = k /\ q \in Range(T.current.requests)
    BY <1>1, <1>5, <2>0 DEF Knows, Follows, Bindings
  <2>5. Range(O.current.requests) \subseteq Requests
    BY DEF Servers, OpenTurns, Range
  <2>6. \A q \in Range(T.current.requests) :
           /\ T.bound[q] # 0 /\ T.deliveries[q].at # -1
           /\ taken[q] # None /\ taken[q].number = numberOf[k]
    BY <1>1, <1>5, <2>5 DEF Knows, Follows, Bindings
  <2>7. \A q \in Requests : T.pending[q] # "none" => T.deliveries[q].at # -1
    BY <1>1 DEF Knows, Follows, Bindings
  <2>8. \A q \in Requests : T.deliveries[q].ended # None /\ T.deliveries[q].ended.text # None =>
              taken[q] # None /\ T.deliveries[q].ended.text.number = taken[q].number
    BY <1>1 DEF Knows, Follows, Bindings
  <2>. QED  BY <2>1, <2>2, <2>3, <2>4, <2>6, <2>7, <2>8 DEF Bindings
<1>8. Settled(T, h)
  BY <1>1 DEF Knows, Settled
<1>9. (T.binding <=> k # 0) /\ (T.current.id # 0 => T.current.start <= h)
  BY <1>1 DEF Knows
<1>10. QED
  BY <1>1, <1>2, <1>3, <1>4, <1>7, <1>8, <1>9 DEF AllButUnheard, Follows

\* Nothing was read, so there was nothing.
LEMMA NothingYet ==
  ASSUME ClaudeTypes, World, NEW S, Position(S, now, 0)
  PROVE  cc.lastNumber = 0
<1>. SUFFICES ASSUME cc.lastNumber # 0 PROVE FALSE
  OBVIOUS
<1>1. files.log # <<>> /\ files.log \in Seq(Submits \cup TurnEnds)
  BY DEF World, Queue, ClaudeTypes
<1>2. 1 \in DOMAIN files.log
  BY <1>1
<1>3. files.log[1] \in Recs
  BY <1>2 DEF Recs, Range
<1>4. files.log[1].at \in 1..now /\ now \in Nat
  BY <1>3 DEF World, Records, ClaudeTypes
<1>5. files.log[1].at > now
  BY <1>3 DEF Position
<1>6. QED
  BY <1>4, <1>5

LEMMA DeliverStep ==
  ASSUME Inv, NEW r \in Requests, Deliver(r)
  PROVE  Inv'
<1>1. PICK S : S = Polled
  OBVIOUS
<1>2. PICK D : D = Delivered(S, r, View(files), now)
  OBVIOUS
<1>3. PICK O : O = ObserveStop(S, files.stop)
  OBVIOUS
<1>4. /\ ~server.down /\ server.state.pending[r] = "none"
      /\ UNCHANGED <<now, numberOf, served, taken, routed>>
  BY DEF Deliver
<1>5. PICK v, T :
        /\ v \in {"open", "ended"}
        /\ T = IF v = "open" THEN D ELSE [D EXCEPT !.pending[r] = "ended"]
        /\ Reads(T)
        /\ IF v = "open" THEN cc' = [cc EXCEPT !.queue = Append(@, r)] ELSE UNCHANGED cc
  <2>1. CASE Reads(D) /\ cc' = [cc EXCEPT !.queue = Append(@, r)]
    <3>1. /\ "open" \in {"open", "ended"}
          /\ D = IF "open" = "open" THEN D ELSE [D EXCEPT !.pending[r] = "ended"]
          /\ Reads(D)
          /\ IF "open" = "open" THEN cc' = [cc EXCEPT !.queue = Append(@, r)] ELSE UNCHANGED cc
      BY <2>1
    <3>. QED  BY <3>1
  <2>2. CASE Reads([D EXCEPT !.pending[r] = "ended"]) /\ UNCHANGED cc
    <3>1. PICK T : T = [D EXCEPT !.pending[r] = "ended"]
      OBVIOUS
    <3>2. /\ "ended" \in {"open", "ended"}
          /\ T = IF "ended" = "open" THEN D ELSE [D EXCEPT !.pending[r] = "ended"]
          /\ Reads(T)
          /\ IF "ended" = "open" THEN cc' = [cc EXCEPT !.queue = Append(@, r)] ELSE UNCHANGED cc
      BY <2>2, <3>1
    <3>. QED  BY <3>2
  <2>. QED  BY <1>1, <1>2, <2>1, <2>2 DEF Deliver
<1>6. PICK k \in 0..LastId : Knows(S, now, k)
  BY <1>1, <1>4, PolledKnows
<1>7. S \in Servers /\ Closing(server.state, S) /\ now \in Nat /\ ClaudeTypes /\ World /\ RoutedToItsTurn
  BY <1>1, <1>4, PolledKnows DEF Inv
<1>8. O \in Servers /\ Knows(O, now, k) /\ O.pending = S.pending
  BY <1>3, <1>6, <1>7, ObserveKnows
<1>9. taken[r] = None
  BY <1>4, <1>7 DEF World, Queue
<1>10. DeliveredAs(O, T, r, v)
  BY <1>2, <1>3, <1>5, <1>7, DeliveredChanges
<1>11. AllButUnheard(T, now, k)
  BY <1>5, <1>7, <1>8, <1>9, <1>10, DeliveredFollows
<1>12. \A q \in Requests : T.pending[q] = IF q = r THEN v ELSE S.pending[q]
  BY <1>8, <1>10 DEF DeliveredAs
<1>13. \A q \in Requests : server.state.pending[q] # "none" => T.pending[q] # "none"
  BY <1>5, <1>7, <1>12 DEF Closing
<1>14. /\ Queued(r) /\ cc' = [cc EXCEPT !.queue = cc'.queue]
       /\ cc'.queue # cc.queue => v = "open"
       /\ v = "open" => cc'.queue = Append(cc.queue, r)
       /\ cc'.queue = cc.queue \/ cc'.queue = Append(cc.queue, r)
  BY <1>5, <1>7 DEF Queued, ClaudeTypes
<1>15. PICK n, a : Becomes(T, n, a) /\ ReadUpTo(now, n, a)
  BY <1>5, ReadsAll
<1>16. SameWorld
  <2>1. /\ cc'.id = cc.id /\ cc'.number = cc.number /\ cc'.taking = cc.taking
        /\ cc'.lastId = cc.lastId /\ cc'.lastNumber = cc.lastNumber /\ cc'.call = cc.call
        /\ cc'.refused = cc.refused
    BY <1>5, <1>7 DEF ClaudeTypes
  <2>2. /\ files'.log = files.log /\ files'.stop = files.stop /\ files'.activity = files.activity
        /\ files'.nudge = files.nudge
    BY <1>7, <1>15 DEF Becomes, ClaudeTypes
  <2>. QED  BY <1>4, <2>1, <2>2 DEF SameWorld
<1>17. ASSUME k = 0 PROVE Unheard(T)'
  <2>1. Unheard(O)' /\ cc.lastNumber = 0
    <3>1. Unheard(O) /\ Position(S, now, 0)
      BY <1>6, <1>8, <1>17 DEF Knows, Follows
    <3>. QED  BY <1>7, <1>14, <1>16, <3>1, SameWorldUnheard, NothingYet
  <2>2. ASSUME NEW q \in Requests, OpenIn(T, q) PROVE FirstTurn(q)'
    <3>1. CASE q # r
      <4>1. OpenIn(O, q)
        BY <1>8, <1>12, <2>2, <3>1 DEF OpenIn
      <4>. QED  BY <2>1, <4>1 DEF Unheard, OpenIn
    <3>2. CASE q = r
      <4>1. v = "open"
        BY <1>5, <1>12, <2>2, <3>2 DEF OpenIn
      <4>2. cc'.queue = Append(cc.queue, r) /\ cc.queue \in Seq(Requests \cup {"typed"})
        BY <1>7, <1>14, <4>1 DEF ClaudeTypes
      <4>3. Len(cc.queue) + 1 \in DOMAIN cc'.queue /\ cc'.queue[Len(cc.queue) + 1] = r
        BY <4>2
      <4>4. cc'.lastNumber = 0
        BY <1>16, <2>1 DEF SameWorld
      <4>. QED  BY <3>2, <4>3, <4>4 DEF FirstTurn
    <3>. QED  BY <3>1, <3>2
  <2>3. \A q \in Requests : T.deliveries[q].firstStop = O.deliveries[q].firstStop
                            \/ T.deliveries[q].firstStop = None
    BY <1>10 DEF DeliveredAs
  <2>4. /\ (\A x \in Range(files.log) : IsEnd(x) => FirstText(x))'
        /\ (\A q \in Requests : FirstText(O.deliveries[q].firstStop)
                          /\ (O.deliveries[q].firstStop # None => files.stop # None))'
    BY <2>1 DEF Unheard
  <2>5. (\A q \in Requests : FirstText(T.deliveries[q].firstStop)
                          /\ (T.deliveries[q].firstStop # None => files.stop # None))'
    BY <2>3, <2>4 DEF FirstText
  <2>6. (\A q \in Requests : OpenIn(T, q) => FirstTurn(q))'
    BY <2>2 DEF OpenIn
  <2>. QED  BY <2>4, <2>5, <2>6 DEF Unheard
<1>18. cc'.queue # cc.queue => server.state.pending[r] = "none" /\ T.pending[r] # "none"
  BY <1>4, <1>12, <1>14
<1>19. \A p \in routed' : p \in routed
  BY <1>4
<1>20. UNCHANGED <<now, numberOf, served, taken>>
  BY <1>4
<1>. HIDE <1>5
<1>21. QED
  BY <1>4, <1>7, <1>11, <1>13, <1>14, <1>15, <1>17, <1>18, <1>19, <1>20, ServerStepKeeps DEF AllButUnheard

(* What the server knows is what the properties say.                       *)
LEMMA KnownIsRight ==
  ASSUME Inv
  PROVE  AnsweredFromItsTurn /\ LocalTurnsAreLocal /\ TurnEndsItsRequests
<1>. DEFINE S == server.state
<1>1. SUFFICES ASSUME ~server.down
               PROVE  AnsweredFromItsTurn /\ LocalTurnsAreLocal /\ TurnEndsItsRequests
  BY DEF Inv
<1>2. ClaudeTypes /\ World
  BY <1>1 DEF Inv
<1>3. PICK h \in Nat, m \in 0..LastId : Horizon(h) /\ Knows(S, h, m)
  BY <1>1 DEF Inv
<1>4. Settled(S, h) /\ Heard(S, m)
  BY <1>3 DEF Knows, Follows
<1>5. AnsweredFromItsTurn
  BY <1>4 DEF Settled, AnsweredFromItsTurn
<1>6. LocalTurnsAreLocal
  BY <1>4 DEF Heard, LocalTurnsAreLocal
<1>7. TurnEndsItsRequests
  <2>1. SUFFICES ASSUME NEW i \in 1..server.read, IsEnd(files.log[i]), ~files.log[i].background,
                        NEW r \in Requests, taken[r] # None,
                        taken[r].number = numberOf[files.log[i].id]
                 PROVE  S.pending[r] # "open"
    BY DEF TurnEndsItsRequests, IsEnd
  <2>2. server.read \in 0..Len(files.log) /\ DOMAIN files.log = 1..Len(files.log) /\ Len(files.log) \in Nat
    BY <1>2, <1>3 DEF Horizon, ClaudeTypes
  <2>3. i \in DOMAIN files.log /\ i <= server.read
    BY <2>2
  <2>4. files.log[i] \in Recs /\ files.log[i].at <= h
    BY <1>3, <2>3 DEF Horizon, Recs, Range
  <2>. QED  BY <1>4, <2>1, <2>4 DEF Settled, NumberOf
<1>8. QED
  BY <1>5, <1>6, <1>7

(* Once the server is down, it hears of no more turns, and opens no        *)
(* request.                                                                *)
LEMMA DownKeeps ==
  ASSUME Inv, ClaudeTypes', server'.down, LocalTurnsAreLocal',
         UNCHANGED <<numberOf, served, taken, routed>>,
         files'.log = files.log, server'.read = server.read,
         server'.state.text = server.state.text,
         \A r \in Requests : server'.state.pending[r] = "open" => server.state.pending[r] = "open"
  PROVE  Inv'
<1>1. AnsweredFromItsTurn /\ TurnEndsItsRequests /\ RoutedToItsTurn
  BY KnownIsRight DEF Inv
<1>2. AnsweredFromItsTurn'
  BY <1>1 DEF AnsweredFromItsTurn
<1>3. TurnEndsItsRequests'
  BY <1>1 DEF TurnEndsItsRequests
<1>4. RoutedToItsTurn'
  BY <1>1 DEF RoutedToItsTurn
<1>5. QED
  BY <1>2, <1>3, <1>4 DEF Inv

LEMMA FinalTextSentStep ==
  ASSUME Inv, NEW r \in Requests, FinalTextSent(r)
  PROVE  Inv'
<1>. DEFINE T == [server.state EXCEPT !.pending[r] = "ended"]
            P == [server.state.pending EXCEPT ![r] = "ended"]
<1>1. /\ server.state.pending[r] = "answering" /\ Goes(T)
      /\ UNCHANGED <<cc, now, numberOf, served, taken, routed>>
  BY DEF FinalTextSent
<1>2. OpenIn(server.state, r)
  BY <1>1 DEF OpenIn
<1>3. CASE ~server.down
  BY <1>1, <1>2, <1>3, OneEndedStep
<1>4. CASE server.down
  <2>1. ClaudeTypes
    BY DEF Inv
  <2>2. /\ server \in [state : Servers, read : Nat, activityRead : Int, down : BOOLEAN]
        /\ files \in [log : Seq(Submits \cup TurnEnds), stop : TurnEnds \cup {None},
                activity : ToolCalls \cup {None}, nudge : Texts \cup {None},
                open : [owning : SUBSET Requests, open : SUBSET Requests]]
    BY <2>1 DEF ClaudeTypes
  <2>3. server.state.pending \in [Requests -> {"none", "open", "answering", "ended"}]
    BY <2>2 DEF Servers
  <2>4. /\ P \in [Requests -> {"none", "open", "answering", "ended"}]
        /\ \A q \in Requests : P[q] = "open" => server.state.pending[q] = "open"
    BY <2>3
  <2>5. T = [server.state EXCEPT !.pending = P]
    OBVIOUS
  <2>. HIDE DEF P
  <2>6. T \in Servers
    BY <2>2, <2>4, <2>5, Updates
  <2>7. T.pending = P /\ T.text = server.state.text /\ T.heard = server.state.heard
    BY <2>2, <2>5 DEF Servers
  <2>. HIDE DEF T
  <2>8. server' \in [state : Servers, read : Nat, activityRead : Int, down : BOOLEAN]
    BY <1>1, <2>2, <2>6 DEF Goes, Becomes
  <2>9. server'.state = T /\ server'.read = server.read
    BY <1>1, <2>2 DEF Goes, Becomes
  <2>10. server'.down = server.down
    BY <1>1, <2>2 DEF Goes, Becomes
  <2>11. Owning(T) \subseteq Requests /\ OpenRequests(T) \subseteq Requests
    BY DEF Owning, OpenRequests
  <2>12. /\ files' \in [log : Seq(Submits \cup TurnEnds), stop : TurnEnds \cup {None},
                activity : ToolCalls \cup {None}, nudge : Texts \cup {None},
                open : [owning : SUBSET Requests, open : SUBSET Requests]]
         /\ files'.log = files.log
    BY <1>1, <2>2, <2>11 DEF Goes, Becomes
  <2>13. ClaudeTypes'
    BY <1>1, <2>1, <2>8, <2>12 DEF ClaudeTypes
  <2>14. server'.state.heard = server.state.heard /\ UNCHANGED <<numberOf, served>>
    BY <1>1, <2>7, <2>9
  <2>15. LocalTurnsAreLocal'
    BY <2>14, KnownIsRight DEF LocalTurnsAreLocal
  <2>16. /\ server'.state.text = server.state.text
         /\ \A q \in Requests : server'.state.pending[q] = "open" => server.state.pending[q] = "open"
    BY <2>4, <2>7, <2>9
  <2>17. server'.down
    BY <1>4, <2>10
  <2>. QED  BY <1>1, <2>9, <2>12, <2>13, <2>15, <2>16, <2>17, DownKeeps
<1>5. QED
  BY <1>3, <1>4

LEMMA ExpireRequestStep ==
  ASSUME Inv, NEW r \in Requests, ExpireRequest(r)
  PROVE  Inv'
  BY OneEndedStep DEF ExpireRequest

LEMMA NoMoreHeard ==
  ASSUME NEW S \in Servers, NEW T \in Servers, NEW m \in Nat,
         Heard(S, m), T.heard = S.heard, S.current.kind # "local", T.current.kind # "local"
  PROVE  Heard(T, m)
  BY DEF Heard

LEMMA ChannelShutdownStep ==
  ASSUME Inv, ChannelShutdown
  PROVE  Inv'
<1>. DEFINE O == server.state
<1>1. ClaudeTypes /\ World /\ ~server.down
  BY DEF ChannelShutdown, Inv
<1>2. PICK h \in Nat, m \in 0..LastId : Knows(O, h, m)
  BY <1>1 DEF Inv
<1>3. server \in [state : Servers, read : Nat, activityRead : Int, down : BOOLEAN] /\ O \in Servers
  BY <1>1 DEF ClaudeTypes
<1>4. PICK S : S = TrackerShutdown(O)
  OBVIOUS
<1>. DEFINE P == [r \in Requests |-> IF OpenIn(S, r) THEN "ended" ELSE S.pending[r]]
<1>5. S \in Servers /\ SamePending(O, S) /\ Heard(S, m)
  <2>1. Heard(O, m) /\ m \in Nat
    BY <1>2, PromptIdsAreIntegers DEF Knows, Follows
  <2>2. S = End(O, [kind |-> "shutdown"])
    BY <1>4 DEF TrackerShutdown
  <2>3. CASE O.current.id = 0
    BY <1>3, <2>1, <2>2, <2>3 DEF End, SamePending
  <2>4. CASE O.current.id # 0
    <3>1. [kind |-> "shutdown"] \in Endings
      BY DEF Endings
    <3>2. Ended(O, S, [kind |-> "shutdown"])
      BY <1>3, <2>2, <2>4, <3>1, EndChanges
    <3>3. O.current.id = m /\ m \in PromptIds
      BY <1>2, <2>4, PromptIdsAreIntegers DEF Knows, Follows, Position
    <3>4. /\ S \in Servers /\ SamePending(O, S) /\ S.current.kind = "none" /\ S.current = NoTurn
          /\ S.heard = IF O.current.kind = "local"
               THEN Append(O.heard, [event |-> "ended", id |-> m]) ELSE O.heard
      BY <3>2, <3>3 DEF Ended, NoTurn
    <3>5. Heard(S, m)
      <4>1. CASE O.current.kind = "local"
        <5>1. /\ S.current.kind # "local" /\ S.heard = Append(O.heard, [event |-> "ended", id |-> m])
              /\ O.current.id = m /\ m \in PromptIds /\ m <= m /\ S \in Servers
          BY <2>1, <3>3, <3>4, <4>1
        <5>. HIDE <3>4
        <5>. QED  BY <1>3, <2>1, <4>1, <5>1, HeardOneMore
      <4>2. CASE O.current.kind # "local"
        <5>1. S.heard = O.heard /\ S.current.kind # "local"
          BY <3>4, <4>2
        <5>. QED  BY <1>3, <2>1, <3>4, <4>2, <5>1, NoMoreHeard
      <4>. QED  BY <4>1, <4>2
    <3>. QED  BY <3>4, <3>5
  <2>. QED  BY <2>3, <2>4
<1>6. /\ server' = [server EXCEPT !.down = TRUE, !.state = [S EXCEPT !.pending = P]]
      /\ UNCHANGED <<cc, files, now, numberOf, served, taken, routed>>
  BY <1>4 DEF ChannelShutdown
<1>7. /\ P \in [Requests -> {"none", "open", "answering", "ended"}]
      /\ \A q \in Requests : P[q] = "open" => O.pending[q] = "open"
  <2>1. S.pending = O.pending /\ S.pending \in [Requests -> {"none", "open", "answering", "ended"}]
    BY <1>5 DEF SamePending, Servers
  <2>. QED  BY <2>1 DEF OpenIn
<1>. HIDE DEF P
<1>8. PICK T : T = [S EXCEPT !.pending = P]
  OBVIOUS
<1>9. T \in Servers
  BY <1>5, <1>7, <1>8, Updates
<1>10. T.pending = P /\ T.text = O.text /\ T.heard = S.heard
  BY <1>5, <1>8 DEF Servers, SamePending
<1>11. server'.state = T /\ server'.read = server.read
  BY <1>3, <1>6, <1>8
<1>12. server'.down
  BY <1>3, <1>6
<1>13. server' \in [state : Servers, read : Nat, activityRead : Int, down : BOOLEAN]
  BY <1>3, <1>6, <1>8, <1>9
<1>14. ClaudeTypes'
  BY <1>1, <1>6, <1>13 DEF ClaudeTypes
<1>15. LocalTurnsAreLocal'
  <2>1. server'.state.heard = S.heard /\ UNCHANGED <<numberOf, served>>
    BY <1>6, <1>10, <1>11
  <2>. QED  BY <1>5, <2>1 DEF Heard, LocalTurnsAreLocal
<1>16. /\ server'.state.text = server.state.text
       /\ \A q \in Requests : server'.state.pending[q] = "open" => server.state.pending[q] = "open"
  BY <1>7, <1>10, <1>11
<1>17. QED
  BY <1>6, <1>11, <1>12, <1>14, <1>15, <1>16, DownKeeps

-----------------------------------------------------------------------------
(* Claude Code's steps. *)

\* The turn that runs goes on, ends, or gets another id; or one starts.
TurnGoesOn ==
  /\ cc.id # 0 /\ cc'.id = cc.id /\ cc'.number = cc.number /\ cc'.taking = cc.taking
  /\ cc'.lastId = cc.lastId /\ cc'.lastNumber = cc.lastNumber
  /\ UNCHANGED <<numberOf, served>>

TurnIsOver ==
  /\ cc.id # 0 /\ cc.taking = 0 /\ cc'.id = 0 /\ cc'.number = 0 /\ cc'.taking = cc.taking
  /\ cc'.lastId = cc.lastId /\ cc'.lastNumber = cc.lastNumber
  /\ UNCHANGED <<numberOf, served>>

TurnJoined ==
  /\ cc.taking > 0 /\ cc.lastId < LastId
  /\ cc'.id = cc.lastId + 1 /\ cc'.number = cc.number /\ cc'.taking = cc.taking - 1
  /\ cc'.lastId = cc.lastId + 1 /\ cc'.lastNumber = cc.lastNumber
  /\ numberOf' = [numberOf EXCEPT ![cc.lastId + 1] = cc.number]
  /\ served' = served

TurnStarted ==
  /\ cc.id = 0 /\ cc.lastId < LastId
  /\ cc'.id = cc.lastId + 1 /\ cc'.number = cc.lastNumber + 1
  /\ cc'.lastId = cc.lastId + 1 /\ cc'.lastNumber = cc.lastNumber + 1
  /\ numberOf' = [numberOf EXCEPT ![cc.lastId + 1] = cc.lastNumber + 1]
  /\ served' = served \/ served' = served \cup {cc.lastNumber + 1}

TurnMoves == TurnGoesOn \/ TurnIsOver \/ TurnJoined \/ TurnStarted

\* What is the same of the turns after any of these, and what is known of the
\* one that runs.
TurnsGrow ==
  /\ cc.lastId <= cc'.lastId /\ cc'.lastId <= cc.lastId + 1 /\ cc'.lastId \in PromptIds
  /\ cc.lastNumber <= cc'.lastNumber
  /\ cc'.lastNumber > 0 /\ numberOf'[cc'.lastId] = cc'.lastNumber
  /\ \A i \in PromptIds : i <= cc.lastId => numberOf'[i] = numberOf[i]
  /\ served \subseteq served' /\ \A n \in served' : n <= cc.lastNumber => n \in served
  /\ cc'.id # 0 => cc'.id = cc'.lastId /\ cc'.number = cc'.lastNumber
  /\ cc'.id = 0 => cc'.lastNumber = cc.lastNumber
  /\ cc'.lastId = cc.lastId => cc.id = cc.lastId
  /\ \A n \in 1..cc'.lastNumber :
       n = cc'.number \/ (n <= cc.lastNumber /\ (n = cc.number => cc'.id = 0))

OldTurnsKept ==
  /\ \A i \in PromptIds : i <= cc.lastId /\ LastOf(i) => LastOf(i)'
  /\ \A x \in Recs : IsEnd(x) => NumberOf(x) < cc'.lastNumber

LEMMA IdsGrow ==
  ASSUME ClaudeTypes, Numbers, InTurn, TurnMoves
  PROVE  TurnsGrow
<1>1. /\ cc.lastId \in 0..LastId /\ cc.lastNumber \in Nat /\ cc.number \in Nat
      /\ cc.id \in 0..LastId /\ cc.taking \in Nat /\ LastId \in Nat
      /\ \A i \in PromptIds : numberOf[i] \in Nat /\ i \in Nat /\ i # 0
      /\ \A i \in PromptIds : i <= cc.lastId => numberOf[i] >= 1 /\ numberOf[i] <= cc.lastNumber
  BY NumberTypes, PromptIdsAreIntegers
<1>2. numberOf \in [PromptIds -> Nat] /\ served \subseteq 1..cc.lastNumber
      /\ PromptIds = 1..LastId
  BY DEF ClaudeTypes, Numbers, PromptIds
<1>3. /\ cc.id # 0 => cc.id = cc.lastId /\ cc.number = cc.lastNumber /\ cc.number > 0
      /\ cc.id = 0 => cc.number = 0
      /\ cc.lastId # 0 => numberOf[cc.lastId] = cc.lastNumber
      /\ cc.taking > 0 => cc.id # 0
  BY DEF Numbers, InTurn
<1>4. CASE TurnGoesOn
  BY <1>1, <1>2, <1>3, <1>4 DEF TurnGoesOn, TurnsGrow
<1>5. CASE TurnIsOver
  BY <1>1, <1>2, <1>3, <1>5 DEF TurnIsOver, TurnsGrow
<1>6. CASE TurnJoined
  BY <1>1, <1>2, <1>3, <1>6 DEF TurnJoined, TurnsGrow
<1>7. CASE TurnStarted
  <2>1. /\ cc.lastId + 1 \in PromptIds /\ numberOf'[cc.lastId + 1] = cc.lastNumber + 1
        /\ \A i \in PromptIds : i <= cc.lastId => numberOf'[i] = numberOf[i]
    BY <1>1, <1>2, <1>7 DEF TurnStarted
  <2>2. served \subseteq served' /\ \A n \in served' : n <= cc.lastNumber => n \in served
    BY <1>1, <1>7 DEF TurnStarted
  <2>. QED  BY <1>1, <1>3, <1>7, <2>1, <2>2 DEF TurnStarted, TurnsGrow
<1>8. QED
  BY <1>4, <1>5, <1>6, <1>7 DEF TurnMoves

LEMMA NumbersGrow ==
  ASSUME ClaudeTypes, Numbers, InTurn, TurnMoves
  PROVE  Numbers'
<1>1. /\ cc.lastId \in 0..LastId /\ cc.lastNumber \in Nat /\ cc.number \in Nat
      /\ cc.id \in 0..LastId /\ cc.taking \in Nat /\ LastId \in Nat
      /\ \A i \in PromptIds : numberOf[i] \in Nat /\ i \in Nat /\ i # 0
      /\ \A i \in PromptIds : i <= cc.lastId => numberOf[i] >= 1 /\ numberOf[i] <= cc.lastNumber
  BY NumberTypes, PromptIdsAreIntegers
<1>2. numberOf \in [PromptIds -> Nat] /\ PromptIds = 1..LastId
  BY DEF ClaudeTypes, PromptIds
<1>3. CASE TurnGoesOn
  BY <1>3 DEF TurnGoesOn, Numbers
<1>4. CASE TurnIsOver
  BY <1>4 DEF TurnIsOver, Numbers
<1>5. CASE TurnJoined \/ TurnStarted
  <2>. DEFINE id == cc.lastId + 1
              n  == IF cc.id = 0 THEN cc.lastNumber + 1 ELSE cc.lastNumber
  <2>1. /\ cc'.id = id /\ cc'.lastId = id /\ cc'.number = n /\ cc'.lastNumber = n
        /\ numberOf' = [numberOf EXCEPT ![id] = n] /\ id \in PromptIds
        /\ n \in Nat /\ n >= 1 /\ cc.lastNumber <= n /\ n <= cc.lastNumber + 1
        /\ served' = served \/ served' = served \cup {n}
        /\ n = cc.lastNumber => n \in served
    BY <1>1, <1>2, <1>5 DEF TurnJoined, TurnStarted, Numbers, InTurn
  <2>2. /\ numberOf'[id] = n /\ id = cc.lastId + 1 /\ id \in Nat
        /\ \A i \in PromptIds : i # id => numberOf'[i] = numberOf[i]
    BY <1>1, <1>2, <2>1
  <2>. HIDE DEF id, n
  <2>3. \A i \in PromptIds : IF i <= id THEN numberOf'[i] \in 1..n ELSE numberOf'[i] = 0
    <3>1. \A i \in PromptIds : i <= cc.lastId \/ i = id \/ i > id
      BY <1>1, <2>2
    <3>2. \A i \in PromptIds : i > id => numberOf[i] = 0
      BY <1>1, <2>2 DEF Numbers
    <3>3. \A i \in PromptIds : i <= cc.lastId => numberOf[i] \in 1..n
      BY <1>1, <2>1
    <3>. QED  BY <1>1, <2>1, <2>2, <3>1, <3>2, <3>3
  <2>4. ASSUME NEW i \in PromptIds, NEW j \in PromptIds, i <= j, j <= id
        PROVE  numberOf'[i] <= numberOf'[j]
    <3>1. CASE j = id
      BY <1>1, <2>1, <2>2, <2>3, <2>4, <3>1
    <3>2. CASE j <= cc.lastId
      BY <1>1, <2>2, <2>4, <3>2 DEF Numbers
    <3>. QED  BY <1>1, <2>2, <2>4, <3>1, <3>2
  <2>5. ASSUME NEW i \in PromptIds, NEW j \in PromptIds, i < j, j <= id, numberOf'[i] = numberOf'[j]
        PROVE  numberOf'[i] \in served'
    <3>1. CASE j = id
      <4>1. numberOf[i] = n /\ i <= cc.lastId
        BY <1>1, <2>2, <2>5, <3>1
      <4>2. n = cc.lastNumber
        BY <1>1, <2>1, <4>1
      <4>. QED  BY <2>1, <2>2, <2>5, <3>1, <4>2
    <3>2. CASE j <= cc.lastId
      <4>1. numberOf[i] \in served
        BY <1>1, <2>2, <2>5, <3>2 DEF Numbers
      <4>. QED  BY <1>1, <2>1, <2>2, <2>5, <3>2, <4>1
    <3>. QED  BY <1>1, <2>2, <2>5, <3>1, <3>2
  <2>6. served' \subseteq 1..n
    <3>1. served \subseteq 1..cc.lastNumber
      BY DEF Numbers
    <3>2. \A k \in served' : k \in served \/ k = n
      BY <2>1
    <3>3. \A k \in 1..cc.lastNumber : k \in 1..n
      BY <1>1, <2>1
    <3>4. n \in 1..n
      BY <2>1
    <3>. QED  BY <3>1, <3>2, <3>3, <3>4
  <2>7. id # 0 /\ n > 0
    <3>1. id = cc.lastId + 1 /\ cc.lastId \in Nat
      BY <1>1, <2>2
    <3>2. n \in Nat /\ n >= 1
      BY <2>1
    <3>. QED  BY <3>1, <3>2
  <2>8. /\ cc'.id \in {0, cc'.lastId} /\ (cc'.id # 0 => cc'.number = cc'.lastNumber /\ cc'.number > 0)
        /\ (cc'.id = 0 => cc'.number = 0)
        /\ IF cc'.lastId = 0 THEN cc'.lastNumber = 0 ELSE numberOf'[cc'.lastId] = cc'.lastNumber
    BY <2>1, <2>2, <2>7
  <2>9. /\ \A i \in PromptIds :
             IF i <= cc'.lastId THEN numberOf'[i] \in 1..cc'.lastNumber ELSE numberOf'[i] = 0
        /\ \A i, j \in PromptIds : i <= j /\ j <= cc'.lastId => numberOf'[i] <= numberOf'[j]
        /\ \A i, j \in PromptIds : i < j /\ j <= cc'.lastId /\ numberOf'[i] = numberOf'[j] =>
             numberOf'[i] \in served'
        /\ served' \subseteq 1..cc'.lastNumber
    BY <2>1, <2>3, <2>4, <2>5, <2>6, Zenon
  <2>. QED  BY <2>8, <2>9 DEF Numbers
<1>6. QED
  BY <1>3, <1>4, <1>5 DEF TurnMoves

LEMMA OldTurnsStay ==
  ASSUME ClaudeTypes, Numbers, InTurn, Records, TurnMoves
  PROVE  OldTurnsKept
<1>1. /\ cc.lastId \in 0..LastId /\ cc.lastNumber \in Nat /\ cc.number \in Nat
      /\ cc.id \in 0..LastId /\ cc.taking \in Nat /\ LastId \in Nat
      /\ \A i \in PromptIds : numberOf[i] \in Nat /\ i \in Nat /\ i # 0
      /\ \A i \in PromptIds : i <= cc.lastId => numberOf[i] >= 1 /\ numberOf[i] <= cc.lastNumber
  BY NumberTypes, PromptIdsAreIntegers
<1>2. numberOf \in [PromptIds -> Nat] /\ PromptIds = 1..LastId
  BY DEF ClaudeTypes, PromptIds
<1>3. /\ cc.id # 0 => cc.number = cc.lastNumber
      /\ cc.taking > 0 => cc.id # 0
  BY DEF Numbers, InTurn
<1>4. ASSUME NEW i \in PromptIds, i <= cc.lastId, LastOf(i)
      PROVE  LastOf(i)'
  <2>1. CASE TurnGoesOn \/ TurnIsOver
    <3>1. numberOf' = numberOf
      BY <2>1 DEF TurnGoesOn, TurnIsOver
    <3>2. cc'.id = 0 \/ (cc'.id = cc.id /\ cc'.number = cc.number /\ cc'.taking = cc.taking)
      BY <2>1 DEF TurnGoesOn, TurnIsOver
    <3>. QED  BY <1>4, <3>1, <3>2 DEF LastOf
  <2>2. CASE TurnJoined
    <3>1. numberOf[i] # cc.number
      BY <1>1, <1>3, <1>4, <2>2 DEF TurnJoined, LastOf
    <3>. QED  BY <1>1, <1>2, <1>4, <2>2, <3>1 DEF TurnJoined, LastOf
  <2>3. CASE TurnStarted
    <3>1. numberOf[i] # cc.lastNumber + 1
      BY <1>1, <1>4
    <3>. QED  BY <1>1, <1>2, <1>4, <2>3, <3>1 DEF TurnStarted, LastOf
  <2>. QED  BY <2>1, <2>2, <2>3 DEF TurnMoves
<1>5. ASSUME NEW x \in Recs, IsEnd(x)
      PROVE  NumberOf(x) < cc'.lastNumber
  <2>1. x.id \in PromptIds /\ x.id <= cc.lastId /\ (cc.id # 0 => NumberOf(x) < cc.number)
    BY <1>5, RecordTypes DEF Records
  <2>2. NumberOf(x) \in Nat /\ NumberOf(x) <= cc.lastNumber
    BY <1>1, <2>1 DEF NumberOf
  <2>3. CASE cc.id # 0
    <3>1. cc'.lastNumber = cc.lastNumber
      BY <2>3 DEF TurnMoves, TurnGoesOn, TurnIsOver, TurnJoined, TurnStarted
    <3>. QED  BY <1>3, <2>1, <2>3, <3>1
  <2>4. CASE cc.id = 0
    <3>1. cc'.lastNumber = cc.lastNumber + 1
      BY <1>1, <1>3, <2>4 DEF TurnMoves, TurnGoesOn, TurnIsOver, TurnJoined, TurnStarted
    <3>. QED  BY <1>1, <2>2, <3>1
  <2>. QED  BY <2>3, <2>4
<1>6. QED
  BY <1>4, <1>5 DEF OldTurnsKept

\* The record of a step: of the turn that runs, or of the one it ends.
Happened(x) ==
  /\ now' = now + 1 /\ x.at = now + 1 /\ x.id = cc'.lastId
  /\ ~ByChannel(x) => cc'.taking = 0
  /\ IsEnd(x) => cc'.id = 0

Appends(x) ==
  /\ x \in Submits \cup TurnEnds /\ Happened(x)
  /\ files.log = <<>> => x.kind = "submit"
  /\ files'.log = Append(files.log, x) /\ files'.activity = files.activity

\* At most one record was written.
Noted ==
  /\ now' \in {now, now + 1}
  /\ \/ files'.log = files.log /\ files'.activity = files.activity
     \/ \E x : Appends(x)
     \/ files'.log = files.log /\ files.log # <<>> /\ files'.activity # None /\ Happened(files'.activity)
  /\ files'.stop = files.stop \/ (files'.stop # None /\ files'.stop \in Range(files'.log))

RecsGrow ==
  /\ now \in Nat /\ now' \in Nat /\ now <= now'
  /\ \A y \in Recs' : y \in Recs \/ Happened(y)
  /\ \A y, z \in Recs' : Happened(y) /\ Happened(z) => y = z
  /\ Range(files.log) \subseteq Range(files'.log)
  /\ \A y \in Range(files'.log) : y \in Range(files.log) \/ Happened(y)
  /\ files'.activity = files.activity \/ (files'.activity # None /\ Happened(files'.activity))

LogGrows ==
  /\ Len(files.log) \in Nat /\ Len(files'.log) \in Nat /\ Len(files.log) <= Len(files'.log)
  /\ DOMAIN files.log = 1..Len(files.log) /\ DOMAIN files'.log = 1..Len(files'.log)
  /\ \A i \in DOMAIN files.log : i \in DOMAIN files'.log /\ files'.log[i] = files.log[i]
  /\ \A i \in DOMAIN files'.log :
       i \in DOMAIN files.log \/ (i = Len(files.log) + 1 /\ Happened(files'.log[i]))
  /\ files.log = <<>> /\ files'.log # <<>> => files'.log[1].kind = "submit"

LEMMA NotedGrows ==
  ASSUME ClaudeTypes, Records, Noted
  PROVE  RecsGrow /\ LogGrows
<1>1. /\ files.log \in Seq(Submits \cup TurnEnds) /\ now \in Nat /\ now' \in Nat /\ now <= now'
      /\ Len(files.log) \in Nat /\ DOMAIN files.log = 1..Len(files.log)
  BY DEF ClaudeTypes, Noted
<1>2. \A y \in Recs : ~Happened(y)
  BY <1>1, RecordTypes DEF Records, Happened
<1>3. CASE files'.log = files.log /\ files'.activity = files.activity
  <2>1. Recs' = Recs
    BY <1>3 DEF Recs
  <2>2. RecsGrow
    BY <1>1, <1>2, <1>3, <2>1 DEF RecsGrow
  <2>3. LogGrows
    BY <1>1, <1>3 DEF LogGrows
  <2>. QED  BY <2>2, <2>3
<1>4. CASE \E x : Appends(x)
  <2>1. PICK x : Appends(x)
    BY <1>4
  <2>2. x \in Submits \cup TurnEnds /\ files'.log = Append(files.log, x)
        /\ files'.activity = files.activity /\ Happened(x)
    BY <2>1 DEF Appends
  <2>3. Range(files'.log) = Range(files.log) \cup {x}
    BY <1>1, <2>2, RangeOfAppend
  <2>4. Recs' = Recs \cup {x}
    BY <2>2, <2>3 DEF Recs
  <2>5. RecsGrow
    BY <1>1, <1>2, <2>2, <2>3, <2>4 DEF RecsGrow
  <2>6. /\ Len(files'.log) = Len(files.log) + 1 /\ DOMAIN files'.log = 1..Len(files'.log)
        /\ \A i \in 1..Len(files.log) : files'.log[i] = files.log[i]
        /\ files'.log[Len(files.log) + 1] = x
    BY <1>1, <2>2
  <2>. DEFINE n == Len(files.log)
  <2>7. \A i \in 1..(n + 1) : i \in 1..n \/ i = n + 1
    BY <1>1
  <2>8. \A i \in 1..n : i \in 1..(n + 1)
    BY <1>1
  <2>9. files.log = <<>> => files'.log[1].kind = "submit"
    <3>1. ASSUME files.log = <<>> PROVE Len(files.log) + 1 = 1 /\ x.kind = "submit"
      BY <2>1, <3>1 DEF Appends
    <3>. QED  BY <2>6, <3>1
  <2>. HIDE DEF n
  <2>10. n \in Nat /\ n + 1 \in Nat /\ n <= n + 1
    BY <1>1 DEF n
  <2>11. LogGrows
    BY <1>1, <2>2, <2>6, <2>7, <2>8, <2>9, <2>10 DEF LogGrows, n
  <2>. QED  BY <2>5, <2>11
<1>5. CASE /\ files'.log = files.log /\ files'.activity # None /\ Happened(files'.activity)
  <2>1. Recs' \subseteq Recs \cup {files'.activity}
    BY <1>5 DEF Recs
  <2>2. RecsGrow
    BY <1>1, <1>2, <1>5, <2>1 DEF RecsGrow
  <2>3. LogGrows
    BY <1>1, <1>5 DEF LogGrows
  <2>. QED  BY <2>2, <2>3
<1>6. QED
  BY <1>3, <1>4, <1>5 DEF Noted

\* LastOf in the state after a step.
LastOfNext(i) ==
  /\ \A j \in PromptIds : numberOf'[j] = numberOf'[i] => j <= i
  /\ cc'.id # 0 /\ cc'.number = numberOf'[i] => cc'.taking = 0

(* The records are still in the order of the turns.                        *)
LEMMA RecordsGrow ==
  ASSUME ClaudeTypes, ClaudeTypes', Numbers, Numbers', Records, TurnsGrow, OldTurnsKept, Noted
  PROVE  Records'
<1>1. RecsGrow /\ LogGrows
  BY NotedGrows
<1>2. /\ \A y \in Recs' : y.id \in PromptIds /\ y.at \in Nat
      /\ \A y \in Recs : y.id \in PromptIds /\ y.at \in Nat
  <2>1. (\A y \in Recs : y.id \in PromptIds /\ y.at \in Nat)
    BY RecordTypes
  <2>2. ASSUME NEW y \in Recs' PROVE y.id \in PromptIds /\ y.at \in Nat
    <3>1. files'.log \in Seq(Submits \cup TurnEnds) /\ files'.activity \in ToolCalls \cup {None}
      BY DEF ClaudeTypes
    <3>. QED  BY <3>1, LoggedTypes DEF Recs
  <2>. QED  BY <2>1, <2>2
<1>3. /\ now \in Nat /\ now' \in Nat /\ now <= now'
      /\ \A y \in Recs' : y \in Recs \/ Happened(y)
      /\ \A y, z \in Recs' : Happened(y) /\ Happened(z) => y = z
  BY <1>1 DEF RecsGrow
<1>4. /\ cc.lastId \in Nat /\ cc'.lastId \in Nat /\ cc.lastId <= cc'.lastId /\ cc'.lastId \in PromptIds
      /\ cc'.lastNumber > 0 /\ numberOf'[cc'.lastId] = cc'.lastNumber
      /\ \A i \in PromptIds : i \in Nat
  BY PromptIdsAreIntegers DEF ClaudeTypes, TurnsGrow
<1>5. \A y \in Recs : /\ y.at \in 1..now /\ y.id <= cc.lastId /\ y.at < now + 1
                      /\ y.id <= cc'.lastId
                      /\ numberOf'[y.id] = numberOf[y.id]
  BY <1>2, <1>3, <1>4 DEF Records, TurnsGrow
<1>6. \A y : Happened(y) => y.at = now + 1 /\ now' = now + 1 /\ y.id = cc'.lastId
  BY DEF Happened
<1>7. \A x \in Recs' : x.at \in 1..now' /\ x.id <= cc'.lastId
  BY <1>3, <1>4, <1>5, <1>6
<1>8. ASSUME NEW x \in Recs', NEW y \in Recs', x.at < y.at
      PROVE  x.id <= y.id /\ (IsEnd(x) => numberOf'[x.id] < numberOf'[y.id])
  <2>1. x \in Recs
    BY <1>2, <1>3, <1>5, <1>6, <1>8
  <2>2. CASE y \in Recs
    BY <1>5, <1>8, <2>1, <2>2 DEF Records, NumberOf
  <2>3. CASE Happened(y)
    <3>1. IsEnd(x) => numberOf[x.id] < cc'.lastNumber
      BY <2>1 DEF OldTurnsKept, NumberOf
    <3>. QED  BY <1>4, <1>5, <1>6, <2>1, <2>3, <3>1
  <2>. QED  BY <1>3, <2>2, <2>3
<1>9. ASSUME NEW x \in Recs', NEW y \in Recs', x.at = y.at
      PROVE  x = y
  <2>1. CASE x \in Recs /\ y \in Recs
    BY <1>9, <2>1 DEF Records
  <2>2. CASE Happened(x) /\ Happened(y)
    BY <1>3, <2>2
  <2>3. (Happened(x) => y \notin Recs) /\ (Happened(y) => x \notin Recs)
    BY <1>3, <1>5, <1>6, <1>9
  <2>. QED  BY <1>3, <2>1, <2>2, <2>3
<1>10. ASSUME NEW i \in DOMAIN files'.log, NEW j \in DOMAIN files'.log, i < j
       PROVE  files'.log[i].at < files'.log[j].at
  <2>1. DOMAIN files.log = 1..Len(files.log) /\ DOMAIN files'.log = 1..Len(files'.log)
        /\ Len(files.log) \in Nat /\ Len(files'.log) \in Nat
    BY <1>1 DEF LogGrows
  <2>2. i \in DOMAIN files.log
    BY <1>1, <1>10, <2>1 DEF LogGrows
  <2>3. CASE j \in DOMAIN files.log
    BY <1>1, <1>10, <2>2, <2>3 DEF LogGrows, Records
  <2>4. CASE Happened(files'.log[j])
    <3>1. files'.log[i] = files.log[i] /\ files.log[i] \in Recs
      BY <1>1, <2>2 DEF LogGrows, Recs, Range
    <3>. QED  BY <1>5, <1>6, <2>4, <3>1
  <2>. QED  BY <1>1, <2>3, <2>4 DEF LogGrows
<1>11. files'.log # <<>> => files'.log[1].kind = "submit"
  <2>1. CASE files.log = <<>>
    BY <1>1, <2>1 DEF LogGrows
  <2>2. CASE files.log # <<>>
    <3>1. 1 \in DOMAIN files.log
      <4>1. files.log \in Seq(Submits \cup TurnEnds)
        BY DEF ClaudeTypes
      <4>. QED  BY <2>2, <4>1
    <3>. QED  BY <1>1, <2>2, <3>1 DEF LogGrows, Records
  <2>. QED  BY <2>1, <2>2
<1>12. files'.activity # None => files'.log # <<>> /\ files'.log[1].at < files'.activity.at
  <2>1. SUFFICES ASSUME files'.activity # None
                 PROVE  files'.log # <<>> /\ files'.log[1].at < files'.activity.at
    OBVIOUS
  <2>2. files.log # <<>>
    <3>1. CASE files'.activity = files.activity
      BY <2>1, <3>1 DEF Records
    <3>2. CASE files'.activity # files.activity
      BY <3>2 DEF Noted, Appends
    <3>. QED  BY <3>1, <3>2
  <2>3. 1 \in DOMAIN files.log
    <3>1. files.log \in Seq(Submits \cup TurnEnds)
      BY DEF ClaudeTypes
    <3>. QED  BY <2>2, <3>1
  <2>4. files'.log[1] = files.log[1] /\ files.log[1] \in Recs /\ 1 \in DOMAIN files'.log
    BY <1>1, <2>3 DEF LogGrows, Recs, Range
  <2>5. files'.log # <<>>
    BY <2>4
  <2>6. CASE files'.activity = files.activity
    BY <2>1, <2>4, <2>5, <2>6 DEF Records
  <2>7. CASE Happened(files'.activity)
    BY <1>5, <1>6, <2>4, <2>5, <2>7
  <2>. QED  BY <1>1, <2>6, <2>7 DEF RecsGrow
<1>13. files'.stop # None => files'.stop \in Range(files'.log)
  BY <1>1 DEF RecsGrow, Records, Noted
<1>14. ASSUME NEW x \in Recs', IsEnd(x), cc'.id # 0
       PROVE  numberOf'[x.id] < cc'.number
  <2>1. x \in Recs
    BY <1>3, <1>14 DEF Happened
  <2>2. numberOf[x.id] < cc'.lastNumber
    BY <1>14, <2>1 DEF OldTurnsKept, NumberOf
  <2>. QED  BY <1>5, <1>14, <2>1, <2>2 DEF TurnsGrow
<1>15. ASSUME NEW x \in Recs', ~ByChannel(x)
       PROVE  LastOfNext(x.id)
  <2>1. CASE x \in Recs
    <3>1. \A i \in PromptIds : i <= cc.lastId /\ LastOf(i) => LastOfNext(i)
      BY DEF OldTurnsKept, LastOf, LastOfNext
    <3>. QED  BY <1>2, <1>5, <1>15, <2>1, <3>1 DEF Records
  <2>2. CASE Happened(x)
    <3>1. x.id = cc'.lastId /\ cc'.taking = 0
      BY <1>15, <2>2 DEF Happened
    <3>2. \A j \in PromptIds : numberOf'[j] = cc'.lastNumber => j <= cc'.lastId
      BY <1>4 DEF Numbers
    <3>3. LastOfNext(cc'.lastId)
      BY <1>4, <3>1, <3>2 DEF LastOfNext
    <3>. QED  BY <3>1, <3>3
  <2>. QED  BY <1>3, <2>1, <2>2
<1>16. QED
  BY <1>7, <1>8, <1>9, <1>10, <1>11, <1>12, <1>13, <1>14, <1>15 DEF Records, IsEnd, ByChannel, NumberOf, LastOf, LastOfNext

\* A message is taken once, in the turn that runs now, and its submit is written.
TakenGrows ==
  /\ \A r \in Requests : taken[r] # None => taken'[r] = taken[r]
  /\ \A r \in Requests : taken[r] = None /\ taken'[r] # None =>
       /\ taken'[r].number = cc'.lastNumber
       /\ \E y \in Range(files'.log) : ByChannel(y) /\ y.request = r
  /\ \A y \in Recs' : Happened(y) /\ ByChannel(y) =>
       taken[y.request] = None /\ taken'[y.request] # None

\* The first record of a new id of a served turn is a message's.
OpenersKept ==
  cc'.lastId # cc.lastId /\ cc'.lastNumber \in served' =>
    \E y \in Range(files'.log) : ByChannel(y) /\ Happened(y)

\* The end of a turn has a text of that turn.
TextsKept ==
  \A y \in Recs' : Happened(y) /\ IsEnd(y) /\ ~y.background /\ y.text # None =>
    y.kind = "stop" /\ y.text.number = cc'.lastNumber

LEMMA OldRecords ==
  ASSUME ClaudeTypes, ClaudeTypes', Records, TurnsGrow, RecsGrow
  PROVE  /\ \A y \in Recs : /\ y.at \in 1..now /\ y.id <= cc.lastId /\ y.at < now + 1
                            /\ y.id \in PromptIds /\ numberOf'[y.id] = numberOf[y.id]
         /\ \A y : Happened(y) => y.at = now + 1 /\ y.id = cc'.lastId
                                   /\ numberOf'[y.id] = cc'.lastNumber
         /\ cc.lastId \in Nat /\ cc'.lastId \in Nat /\ now \in Nat
<1>1. now \in Nat /\ cc.lastId \in Nat /\ cc'.lastId \in Nat
  BY DEF ClaudeTypes
<1>2. \A y \in Recs : y.at \in 1..now /\ y.id <= cc.lastId /\ y.id \in PromptIds
  BY RecordTypes DEF Records
<1>3. \A y \in Recs : numberOf'[y.id] = numberOf[y.id]
  BY <1>2 DEF TurnsGrow
<1>4. \A y \in Recs : y.at < now + 1
  BY <1>1, <1>2
<1>5. \A y : Happened(y) => y.at = now + 1 /\ y.id = cc'.lastId /\ numberOf'[y.id] = cc'.lastNumber
  BY DEF Happened, TurnsGrow
<1>6. QED
  BY <1>1, <1>2, <1>3, <1>4, <1>5

LEMMA OpenersGrow ==
  ASSUME ClaudeTypes, ClaudeTypes', Numbers, Numbers', Records, Openers, TurnsGrow, RecsGrow,
         OpenersKept
  PROVE  Openers'
<1>1. SUFFICES ASSUME NEW i \in PromptIds, numberOf'[i] \in served'
               PROVE  \E y \in Range(files'.log) :
                        ByChannel(y) /\ y.id = i /\ \A x \in Recs' : x.id = i => y.at <= x.at
  BY Zenon DEF Openers, ByChannel
<1>2. i <= cc'.lastId /\ i \in Nat /\ served' \subseteq 1..cc'.lastNumber
  <2>1. served' \subseteq 1..cc'.lastNumber /\ (~(i <= cc'.lastId) => numberOf'[i] = 0)
    BY DEF Numbers
  <2>2. i \in Nat
    BY PromptIdsAreIntegers
  <2>. QED  BY <1>1, <2>1, <2>2
<1>3. \A y \in Recs' : y \in Recs \/ Happened(y)
  BY DEF RecsGrow
<1>4. CASE i <= cc.lastId
  <2>1. numberOf'[i] = numberOf[i] /\ numberOf[i] <= cc.lastNumber
    BY <1>4, NumberTypes DEF TurnsGrow
  <2>2. numberOf[i] \in served
    BY <1>1, <2>1 DEF TurnsGrow
  <2>3. PICK y \in Range(files.log) : ByChannel(y) /\ y.id = i /\ \A x \in Recs : x.id = i => y.at <= x.at
    BY <2>2 DEF Openers
  <2>4. y \in Recs /\ y \in Range(files'.log)
    BY <2>3 DEF Recs, RecsGrow
  <2>5. \A x \in Recs' : x.id = i => y.at <= x.at
    BY <1>3, <2>3, <2>4, OldRecords
  <2>. QED  BY <2>3, <2>4, <2>5
<1>5. CASE i > cc.lastId
  <2>1. i = cc'.lastId /\ cc'.lastId # cc.lastId
    BY <1>2, <1>5, OldRecords DEF TurnsGrow
  <2>2. PICK y \in Range(files'.log) : ByChannel(y) /\ Happened(y)
    BY <1>1, <2>1 DEF OpenersKept, TurnsGrow
  <2>3. y.id = i /\ y.at = now + 1
    BY <2>1, <2>2, OldRecords
  <2>4. \A x \in Recs' : x.id = i => x.at = now + 1
    BY <1>2, <1>3, <1>5, OldRecords
  <2>5. now + 1 <= now + 1
    BY OldRecords
  <2>. QED  BY <2>2, <2>3, <2>4, <2>5
<1>6. QED
  BY <1>2, <1>4, <1>5, OldRecords

LEMMA MessagesGrow ==
  ASSUME ClaudeTypes, ClaudeTypes', Records, Messages, TurnsGrow, RecsGrow, TakenGrows, TextsKept
  PROVE  Messages'
<1>1. /\ \A y \in Recs' : y \in Recs \/ Happened(y)
      /\ \A y, z \in Recs' : Happened(y) /\ Happened(z) => y = z
  BY DEF RecsGrow
<1>2. \A y \in Recs : ByChannel(y) => y.request \in Requests
  BY RecordTypes
<1>3. \A y \in Recs' : ByChannel(y) => y.request \in Requests
  <2>1. SUFFICES ASSUME NEW y \in Recs', ByChannel(y) PROVE y.request \in Requests
    OBVIOUS
  <2>2. files'.log \in Seq(Submits \cup TurnEnds) /\ files'.activity \in ToolCalls \cup {None}
    BY DEF ClaudeTypes
  <2>3. y.kind = "submit" => y.request \in Requests \cup {None}
    BY <2>2, LoggedTypes DEF Recs
  <2>. QED  BY <2>1, <2>3 DEF ByChannel
<1>4. ASSUME NEW x \in Recs', ByChannel(x)
      PROVE  taken'[x.request] # None /\ taken'[x.request].number = numberOf'[x.id]
  <2>1. CASE x \in Recs
    BY <1>2, <1>4, <2>1, OldRecords DEF Messages, NumberOf, TakenGrows
  <2>2. CASE Happened(x)
    <3>1. taken[x.request] = None /\ taken'[x.request] # None /\ x.request \in Requests
      BY <1>3, <1>4, <2>2 DEF TakenGrows
    <3>2. taken'[x.request].number = cc'.lastNumber
      BY <3>1 DEF TakenGrows
    <3>. QED  BY <2>2, <3>1, <3>2, OldRecords
  <2>. QED  BY <1>1, <2>1, <2>2
<1>5. ASSUME NEW x \in Recs', NEW y \in Recs', ByChannel(x), ByChannel(y), x.request = y.request
      PROVE  x = y
  <2>1. \A z \in Recs : ByChannel(z) => taken[z.request] # None
    BY DEF Messages
  <2>2. \A z \in Recs' : Happened(z) /\ ByChannel(z) => taken[z.request] = None
    BY DEF TakenGrows
  <2>3. CASE x \in Recs /\ y \in Recs
    BY <1>5, <2>3 DEF Messages
  <2>4. CASE Happened(x) /\ Happened(y)
    BY <1>1, <2>4
  <2>. QED  BY <1>1, <1>5, <2>1, <2>2, <2>3, <2>4
<1>6. ASSUME NEW r \in Requests, taken'[r] # None
      PROVE  \E x \in Range(files'.log) : ByChannel(x) /\ x.request = r
  <2>1. CASE taken[r] # None
    <3>1. PICK x \in Range(files.log) : ByChannel(x) /\ x.request = r
      BY <2>1 DEF Messages
    <3>. QED  BY <3>1 DEF RecsGrow
  <2>2. CASE taken[r] = None
    BY <1>6, <2>2 DEF TakenGrows
  <2>. QED  BY <2>1, <2>2
<1>7. ASSUME NEW x \in Recs', IsEnd(x), ~x.background, x.text # None
      PROVE  x.kind = "stop" /\ x.text.number = numberOf'[x.id]
  <2>1. CASE x \in Recs
    BY <1>7, <2>1, OldRecords DEF Messages, NumberOf
  <2>2. CASE Happened(x)
    BY <1>7, <2>2, OldRecords DEF TextsKept
  <2>. QED  BY <1>1, <2>1, <2>2
<1>8. QED
  BY <1>4, <1>5, <1>6, <1>7 DEF Messages, ByChannel, IsEnd, NumberOf

(* What was not read is later than what was.                               *)
LEMMA HorizonGrows ==
  ASSUME ClaudeTypes, RecsGrow, LogGrows, server' = server, NEW h \in Nat, Horizon(h)
  PROVE  Horizon(h)'
<1>1. /\ h \in 0..now /\ server.activityRead <= h /\ server.read \in 0..Len(files.log)
      /\ now \in Nat /\ now' \in Nat /\ now <= now' /\ server.activityRead \in Int
  BY DEF Horizon, RecsGrow, ClaudeTypes
<1>2. \A y : Happened(y) => y.at = now + 1
  BY DEF Happened
<1>3. /\ Len(files.log) \in Nat /\ Len(files'.log) \in Nat /\ Len(files.log) <= Len(files'.log)
      /\ DOMAIN files.log = 1..Len(files.log)
      /\ \A i \in DOMAIN files.log : files'.log[i] = files.log[i]
      /\ \A i \in DOMAIN files'.log :
           i \in DOMAIN files.log \/ (i = Len(files.log) + 1 /\ Happened(files'.log[i]))
  BY DEF LogGrows
<1>4. h \in 0..now' /\ server.read \in 0..Len(files'.log)
  BY <1>1, <1>3
<1>5. ASSUME NEW i \in DOMAIN files'.log
      PROVE  i <= server.read <=> files'.log[i].at <= h
  <2>1. CASE i \in DOMAIN files.log
    BY <1>3, <2>1 DEF Horizon
  <2>2. CASE i = Len(files.log) + 1 /\ Happened(files'.log[i])
    BY <1>1, <1>2, <1>3, <2>2
  <2>. QED  BY <1>3, <2>1, <2>2
<1>6. files'.activity # None => (files'.activity.at = server.activityRead <=> files'.activity.at <= h)
  <2>1. CASE files'.activity = files.activity
    BY <2>1 DEF Horizon
  <2>2. CASE Happened(files'.activity)
    BY <1>1, <1>2, <2>2
  <2>. QED  BY <2>1, <2>2 DEF RecsGrow
<1>7. QED
  BY <1>1, <1>4, <1>5, <1>6 DEF Horizon

\* A turn that is over has a record of its end, or the server has read that no
\* message joins it any more.
EndKnown(S, m) ==
  cc'.id = 0 =>
    \/ \E x \in Range(files'.log) : IsEnd(x) /\ x.id = cc'.lastId
    \/ /\ m # 0
       /\ cc.lastNumber < numberOf[m] \/ (cc.lastNumber = numberOf[m] /\ ~S.current.batch)

(* What the server knows stays true while it reads nothing.                *)
LEMMA PositionGrows ==
  ASSUME ClaudeTypes, ClaudeTypes', Numbers, Records, TurnsGrow, RecsGrow,
         NEW S \in Servers, NEW h \in Nat, NEW m \in 0..LastId, h <= now, Position(S, h, m)
  PROVE  Position(S, h, m)'
<1>1. m \in Nat /\ m <= cc.lastId /\ cc.lastId \in Nat /\ cc'.lastId \in Nat
      /\ cc.lastId <= cc'.lastId /\ m <= cc'.lastId /\ now \in Nat
  <2>1. m \in 0..cc.lastId /\ cc.lastId <= cc'.lastId
    BY DEF Position, TurnsGrow
  <2>2. cc.lastId \in Nat /\ cc'.lastId \in Nat /\ now \in Nat
    BY DEF ClaudeTypes
  <2>. QED  BY <2>1, <2>2
<1>2. S.current.id = 0 /\ cc'.id # 0 => cc'.id > m
  <2>1. SUFFICES ASSUME S.current.id = 0, cc'.id # 0 PROVE cc'.id > m
    OBVIOUS
  <2>2. cc'.id = cc'.lastId
    BY <2>1 DEF TurnsGrow
  <2>3. CASE cc'.lastId = cc.lastId
    BY <1>1, <2>1, <2>2, <2>3 DEF TurnsGrow, Position
  <2>4. CASE cc'.lastId # cc.lastId
    BY <1>1, <2>2, <2>4
  <2>. QED  BY <2>3, <2>4
<1>3. ASSUME NEW x \in Recs'
      PROVE  /\ m = 0 => x.at > h
             /\ IF x.at <= h THEN x.id <= m ELSE x.id >= m /\ (S.current.id = 0 => x.id > m)
  <2>1. CASE x \in Recs
    BY <2>1 DEF Position
  <2>2. CASE Happened(x)
    <3>1. x.at = now + 1 /\ x.id = cc'.lastId
      BY <2>2, OldRecords
    <3>2. x.at > h
      BY <1>1, <3>1
    <3>3. S.current.id = 0 => x.id > m
      <4>1. CASE cc'.lastId = cc.lastId
        <5>1. cc.id = cc.lastId /\ cc.id # 0
          BY <4>1, PromptIdsAreIntegers DEF TurnsGrow
        <5>. QED  BY <3>1, <4>1, <5>1 DEF Position
      <4>2. CASE cc'.lastId # cc.lastId
        BY <1>1, <3>1, <4>2
      <4>. QED  BY <4>1, <4>2
    <3>4. x.id >= m
      BY <1>1, <3>1
    <3>. QED  BY <1>1, <3>1, <3>2, <3>3, <3>4
  <2>. QED  BY <2>1, <2>2 DEF RecsGrow
<1>4. m \in 0..cc'.lastId
  BY <1>1
<1>5. QED
  BY <1>2, <1>3, <1>4 DEF Position, Fresh

LEMMA TurnGrows ==
  ASSUME ClaudeTypes, ClaudeTypes', Numbers, Records, TurnsGrow, OldTurnsKept, RecsGrow,
         NEW S \in Servers, NEW h \in Nat, NEW m \in 0..LastId, h <= now, Position(S, h, m),
         Turn(S, h, m), EndKnown(S, m)
  PROVE  Turn(S, h, m)'
<1>1. m \in Nat /\ m <= cc.lastId /\ (m # 0 => m \in PromptIds) /\ now \in Nat
      /\ cc.lastNumber \in Nat /\ cc'.lastNumber \in Nat
  BY PromptIdsAreIntegers DEF Position, ClaudeTypes
<1>2. m # 0 => numberOf'[m] = numberOf[m] /\ numberOf[m] <= cc.lastNumber
  BY <1>1, NumberTypes DEF TurnsGrow
<1>3. S.current.kind = "local" => numberOf'[m] \notin served' /\ ~S.current.batch
  <2>1. SUFFICES ASSUME S.current.kind = "local" PROVE numberOf'[m] \notin served'
    BY DEF Turn
  <2>2. S.current.id # 0
    BY <2>1 DEF Turn, NoTurn
  <2>3. m # 0
    BY <2>2 DEF Position
  <2>4. numberOf[m] \notin served
    BY <2>1 DEF Turn
  <2>. QED  BY <1>2, <2>3, <2>4 DEF TurnsGrow
<1>4. m # 0 /\ ~S.current.batch => LastOf(m)'
  BY <1>1 DEF Turn, OldTurnsKept
<1>5. ASSUME m # 0, NEW x \in Recs', IsEnd(x), x.at <= h, numberOf'[x.id] = numberOf'[m]
      PROVE  S.current.id = 0
  <2>1. x \in Recs
    BY <1>1, <1>5, OldRecords DEF RecsGrow
  <2>2. NumberOf(x) = numberOf[m]
    BY <1>2, <1>5, <2>1, OldRecords DEF NumberOf
  <2>. QED  BY <1>5, <2>1, <2>2 DEF Turn
<1>6. files'.activity # None /\ files'.activity.at <= h /\ files'.activity.id = S.current.id =>
       ~S.current.batch
  <2>1. CASE files'.activity = files.activity
    BY <2>1 DEF Turn
  <2>2. CASE Happened(files'.activity)
    BY <1>1, <2>2, OldRecords
  <2>. QED  BY <2>1, <2>2 DEF RecsGrow
<1>7. ASSUME NEW n \in 1..cc'.lastNumber
      PROVE  \/ n = cc'.number
             \/ \E x \in Range(files'.log) : IsEnd(x) /\ numberOf'[x.id] = n
             \/ m # 0 /\ (n < numberOf'[m] \/ (n = numberOf'[m] /\ ~S.current.batch))
  <2>1. CASE n = cc'.number
    BY <2>1
  <2>2. CASE n <= cc.lastNumber /\ n # cc.number
    <3>1. n \in 1..cc.lastNumber
      BY <1>1, <2>2
    <3>2. CASE \E x \in Range(files.log) : IsEnd(x) /\ NumberOf(x) = n
      <4>1. PICK x \in Range(files.log) : IsEnd(x) /\ NumberOf(x) = n
        BY <3>2
      <4>2. x \in Recs /\ x \in Range(files'.log)
        BY <4>1 DEF Recs, RecsGrow
      <4>. QED  BY <4>1, <4>2, OldRecords DEF NumberOf
    <3>3. CASE m # 0 /\ (n < numberOf[m] \/ (n = numberOf[m] /\ ~S.current.batch))
      BY <1>2, <3>3
    <3>. QED  BY <2>2, <3>1, <3>2, <3>3 DEF Turn
  <2>3. CASE n <= cc.lastNumber /\ n = cc.number /\ cc'.id = 0
    <3>1. n = cc.lastNumber
      BY <1>1, <2>3 DEF Numbers
    <3>2. CASE \E x \in Range(files'.log) : IsEnd(x) /\ x.id = cc'.lastId
      <4>1. PICK x \in Range(files'.log) : IsEnd(x) /\ x.id = cc'.lastId
        BY <3>2
      <4>2. numberOf'[x.id] = cc'.lastNumber
        BY <4>1 DEF TurnsGrow
      <4>3. cc'.lastNumber = n
        BY <2>3, <3>1 DEF TurnsGrow
      <4>. QED  BY <4>1, <4>2, <4>3
    <3>3. CASE /\ m # 0
               /\ cc.lastNumber < numberOf[m] \/ (cc.lastNumber = numberOf[m] /\ ~S.current.batch)
      BY <1>2, <3>1, <3>3
    <3>. QED  BY <2>3, <3>2, <3>3 DEF EndKnown
  <2>. QED  BY <2>1, <2>2, <2>3 DEF TurnsGrow
<1>8. QED
  BY <1>3, <1>4, <1>5, <1>6, <1>7 DEF Turn, NumberOf, IsEnd

LEMMA BindingsGrow ==
  ASSUME ClaudeTypes, ClaudeTypes', Numbers, Records, TurnsGrow, RecsGrow, TakenGrows,
         NEW S \in Servers, NEW h \in Nat, NEW m \in 0..LastId, h <= now, m <= cc.lastId,
         S.current.id \in {0, m}, Turn(S, h, m), Bindings(S, h, m)
  PROVE  Bindings(S, h, m)'
<1>1. m \in Nat /\ (m # 0 => m \in PromptIds) /\ now \in Nat /\ cc.lastId \in Nat
  BY PromptIdsAreIntegers DEF ClaudeTypes
<1>2. m # 0 => numberOf'[m] = numberOf[m]
  BY <1>1 DEF TurnsGrow
<1>3. ASSUME NEW r \in Requests, S.bound[r] # 0
      PROVE  /\ S.bound[r] <= m /\ taken'[r] # None /\ taken'[r].number = numberOf'[S.bound[r]]
             /\ numberOf'[S.bound[r]] = numberOf[S.bound[r]]
             /\ \E x \in Range(files'.log) : ByChannel(x) /\ x.request = r /\ x.at <= h
  <2>1. S.bound[r] \in 0..LastId
    BY DEF Servers
  <2>2. /\ S.bound[r] <= m /\ taken[r] # None /\ taken[r].number = numberOf[S.bound[r]]
        /\ \E x \in Range(files.log) : ByChannel(x) /\ x.request = r /\ x.at <= h
    BY <1>3 DEF Bindings
  <2>3. S.bound[r] \in PromptIds /\ S.bound[r] <= cc.lastId
    BY <1>1, <1>3, <2>1, <2>2, PromptIdsAreIntegers
  <2>4. numberOf'[S.bound[r]] = numberOf[S.bound[r]]
    BY <2>3 DEF TurnsGrow
  <2>5. taken'[r] = taken[r]
    BY <2>2 DEF TakenGrows
  <2>6. \E x \in Range(files'.log) : ByChannel(x) /\ x.request = r /\ x.at <= h
    BY <2>2 DEF RecsGrow
  <2>. QED  BY <2>2, <2>4, <2>5, <2>6
<1>4. ASSUME NEW x \in Recs', ByChannel(x), x.at <= h, OpenIn(S, x.request)
      PROVE  S.bound[x.request] # 0
  <2>1. x \in Recs
    BY <1>1, <1>4, OldRecords DEF RecsGrow
  <2>. QED  BY <1>4, <2>1 DEF Bindings
<1>5. ASSUME NEW r \in Requests, S.current.id # 0, OpenIn(S, r), S.bound[r] # 0,
             numberOf'[S.bound[r]] = numberOf'[m]
      PROVE  S.bound[r] = m /\ r \in Range(S.current.requests)
  <2>1. m # 0
    BY <1>5
  <2>2. numberOf[S.bound[r]] = numberOf[m]
    BY <1>2, <1>3, <1>5, <2>1
  <2>. QED  BY <1>5, <2>2 DEF Bindings
<1>6. ASSUME NEW r \in Range(S.current.requests)
      PROVE  /\ S.bound[r] # 0 /\ S.deliveries[r].at # -1
             /\ taken'[r] # None /\ taken'[r].number = numberOf'[m]
  <2>1. S.current.requests \in Seq(Requests)
    BY DEF Servers, OpenTurns
  <2>2. r \in Requests
    BY <2>1 DEF Range
  <2>3. /\ S.bound[r] # 0 /\ S.deliveries[r].at # -1
        /\ taken[r] # None /\ taken[r].number = numberOf[m]
    BY DEF Bindings
  <2>4. m # 0
    <3>1. S.current.requests # <<>>
      BY DEF Range
    <3>2. S.current.id # 0
      BY <3>1 DEF Turn, NoTurn
    <3>. QED  BY <3>2
  <2>. QED  BY <1>2, <2>2, <2>3, <2>4 DEF TakenGrows
<1>7. ASSUME NEW r \in Requests, S.deliveries[r].ended # None, S.deliveries[r].ended.text # None
      PROVE  taken'[r] # None /\ S.deliveries[r].ended.text.number = taken'[r].number
  BY <1>7 DEF Bindings, TakenGrows
<1>8. /\ \A r \in Requests : S.deliveries[r].boundTo = S.bound[r]
      /\ \A r \in Requests : S.pending[r] # "none" => S.deliveries[r].at # -1
  BY DEF Bindings
<1>9. QED
  BY <1>3, <1>4, <1>5, <1>6, <1>7, <1>8 DEF Bindings, ByChannel, OpenIn

LEMMA HeardGrows ==
  ASSUME ClaudeTypes, Numbers, TurnsGrow,
         NEW S \in Servers, NEW m \in 0..LastId, m <= cc.lastId, Heard(S, m)
  PROVE  Heard(S, m)'
<1>1. ASSUME NEW i \in DOMAIN S.heard PROVE numberOf'[S.heard[i].id] \notin served'
  <2>1. S.heard[i].id <= m /\ numberOf[S.heard[i].id] \notin served /\ S.heard[i].id \in PromptIds
    BY HeardTypes DEF Heard
  <2>2. S.heard[i].id <= cc.lastId
    BY <2>1, PromptIdsAreIntegers DEF ClaudeTypes
  <2>3. numberOf'[S.heard[i].id] = numberOf[S.heard[i].id] /\ numberOf[S.heard[i].id] <= cc.lastNumber
    BY <2>1, <2>2, NumberTypes DEF TurnsGrow
  <2>. QED  BY <2>1, <2>3 DEF TurnsGrow
<1>2. QED
  BY <1>1 DEF Heard

LEMMA SettledGrows ==
  ASSUME ClaudeTypes, ClaudeTypes', Records, TurnsGrow, OldTurnsKept, RecsGrow, TakenGrows,
         NEW S, NEW h \in Nat, h <= now, Settled(S, h)
  PROVE  Settled(S, h)'
<1>1. now \in Nat
  BY DEF ClaudeTypes
<1>2. ASSUME NEW r \in Requests, S.text[r] # None
      PROVE  taken'[r] # None /\ S.text[r].number = taken'[r].number
  BY <1>2 DEF Settled, TakenGrows
<1>3. ASSUME NEW x \in Recs', IsEnd(x), ~x.background, x.at <= h,
             NEW r \in Requests, taken'[r] # None, taken'[r].number = numberOf'[x.id]
      PROVE  S.pending[r] # "open"
  <2>1. x \in Recs
    BY <1>1, <1>3, OldRecords DEF RecsGrow
  <2>2. NumberOf(x) = numberOf'[x.id] /\ NumberOf(x) < cc'.lastNumber
    BY <1>3, <2>1, OldRecords DEF NumberOf, OldTurnsKept
  <2>3. taken[r] # None
    <3>1. SUFFICES ASSUME taken[r] = None PROVE FALSE
      OBVIOUS
    <3>2. taken'[r].number = cc'.lastNumber
      BY <1>3, <3>1 DEF TakenGrows
    <3>3. cc'.lastNumber \in Nat
      BY DEF ClaudeTypes
    <3>. QED  BY <1>3, <2>2, <3>2, <3>3
  <2>4. taken'[r] = taken[r]
    BY <2>3 DEF TakenGrows
  <2>. QED  BY <1>3, <2>1, <2>2, <2>3, <2>4 DEF Settled
<1>4. QED
  BY <1>2, <1>3 DEF Settled, NumberOf, IsEnd

LEMMA KnowsGrow ==
  ASSUME ClaudeTypes, ClaudeTypes', Numbers, Records, TurnsGrow, OldTurnsKept, RecsGrow, TakenGrows,
         NEW S \in Servers, NEW h \in Nat, NEW m \in 0..LastId, h <= now,
         Knows(S, h, m), EndKnown(S, m), m = 0 => Unheard(S)'
  PROVE  Knows(S, h, m)'
<1>1. /\ Position(S, h, m) /\ Turn(S, h, m) /\ Bindings(S, h, m) /\ Heard(S, m) /\ Settled(S, h)
      /\ S.binding <=> m # 0
      /\ S.current.id # 0 => S.current.start <= h
  BY DEF Knows, Follows
<1>2. m <= cc.lastId /\ S.current.id \in {0, m}
  <2>1. cc.lastId \in Nat
    BY DEF ClaudeTypes
  <2>. QED  BY <1>1, <2>1 DEF Position
<1>3. Position(S, h, m)'
  BY <1>1, PositionGrows
<1>4. Turn(S, h, m)'
  BY <1>1, TurnGrows
<1>5. Bindings(S, h, m)'
  BY <1>1, <1>2, BindingsGrow
<1>6. Heard(S, m)'
  BY <1>1, <1>2, HeardGrows
<1>7. Settled(S, h)'
  BY <1>1, SettledGrows
<1>8. QED
  BY <1>1, <1>3, <1>4, <1>5, <1>6, <1>7 DEF Knows, Follows

\* The message at the head of the queue is taken into the turn that runs now.
HeadTaken ==
  /\ cc.queue # <<>> /\ Head(cc.queue) # "typed" /\ cc'.queue = Tail(cc.queue)
  /\ taken' = [taken EXCEPT ![Head(cc.queue)] = [number |-> cc'.lastNumber, at |-> now + 1]]
  /\ \E y \in Range(files'.log) : ByChannel(y) /\ y.request = Head(cc.queue)

QueueMoves ==
  \/ cc'.queue = cc.queue /\ taken' = taken
  \/ cc'.queue = Append(cc.queue, "typed") /\ taken' = taken
  \/ cc.queue # <<>> /\ Head(cc.queue) = "typed" /\ cc'.queue = Tail(cc.queue) /\ taken' = taken
  \/ HeadTaken

SubmitTakes ==
  \A y \in Recs' : Happened(y) /\ ByChannel(y) => HeadTaken /\ y.request = Head(cc.queue)

LEMMA QueueTypes ==
  ASSUME ClaudeTypes
  PROVE  /\ cc.queue \in Seq(Requests \cup {"typed"}) /\ Len(cc.queue) \in Nat
         /\ DOMAIN cc.queue = 1..Len(cc.queue) /\ "typed" \notin Requests
         /\ \A i \in 1..Len(cc.queue) : cc.queue[i] # "typed" => cc.queue[i] \in Requests
         /\ cc.queue # <<>> => Head(cc.queue) = cc.queue[1] /\ 1 \in 1..Len(cc.queue)
<1>1. cc.queue \in Seq(Requests \cup {"typed"}) /\ "typed" \notin Requests
  BY NoneIsNothing DEF ClaudeTypes
<1>2. QED
  BY <1>1

LEMMA TailOfQueue ==
  ASSUME ClaudeTypes, cc.queue # <<>>, cc'.queue = Tail(cc.queue)
  PROVE  /\ Len(cc'.queue) = Len(cc.queue) - 1 /\ DOMAIN cc'.queue = 1..(Len(cc.queue) - 1)
         /\ \A i \in 1..(Len(cc.queue) - 1) :
              /\ cc'.queue[i] = cc.queue[i + 1]
              /\ i + 1 \in 1..Len(cc.queue) /\ i + 1 # 1 /\ i \in Nat
<1>1. cc.queue \in Seq(Requests \cup {"typed"}) /\ Len(cc.queue) \in Nat
  BY QueueTypes
<1>2. QED
  BY <1>1

LEMMA TailTwice ==
  ASSUME ClaudeTypes, cc.queue # <<>>, cc'.queue = Tail(cc.queue),
         \A i, j \in DOMAIN cc.queue : cc.queue[i] = cc.queue[j] /\ i # j => cc.queue[i] = "typed"
  PROVE  \A i, j \in DOMAIN cc'.queue : cc'.queue[i] = cc'.queue[j] /\ i # j => cc'.queue[i] = "typed"
<1>1. ASSUME NEW i \in DOMAIN cc'.queue, NEW j \in DOMAIN cc'.queue,
             cc'.queue[i] = cc'.queue[j], i # j
      PROVE  cc'.queue[i] = "typed"
  <2>1. /\ cc'.queue[i] = cc.queue[i + 1] /\ i + 1 \in 1..Len(cc.queue) /\ i \in Nat
        /\ cc'.queue[j] = cc.queue[j + 1] /\ j + 1 \in 1..Len(cc.queue) /\ j \in Nat
    BY TailOfQueue
  <2>2. i + 1 # j + 1
    BY <1>1, <2>1
  <2>. QED  BY <1>1, <2>1, <2>2, QueueTypes
<1>2. QED
  BY <1>1

LEMMA TypedOfQueue ==
  ASSUME ClaudeTypes, cc'.queue = Append(cc.queue, "typed")
  PROVE  /\ Len(cc'.queue) = Len(cc.queue) + 1 /\ DOMAIN cc'.queue = 1..(Len(cc.queue) + 1)
         /\ \A i \in 1..Len(cc.queue) : cc'.queue[i] = cc.queue[i]
         /\ cc'.queue[Len(cc.queue) + 1] = "typed"
<1>1. cc.queue \in Seq(Requests \cup {"typed"}) /\ Len(cc.queue) \in Nat
  BY QueueTypes
<1>2. QED
  BY <1>1

LEMMA HeadIsNew ==
  ASSUME ClaudeTypes, ClaudeTypes', Queue, HeadTaken
  PROVE  /\ Head(cc.queue) \in Requests /\ taken[Head(cc.queue)] = None
         /\ taken'[Head(cc.queue)] # None /\ taken'[Head(cc.queue)].number = cc'.lastNumber
         /\ \A r \in Requests : r # Head(cc.queue) => taken'[r] = taken[r]
         /\ server.state.pending[Head(cc.queue)] # "none"
         /\ cc.queue # <<>> /\ cc'.queue = Tail(cc.queue)
<1>. DEFINE r == Head(cc.queue)
            v == [number |-> cc'.lastNumber, at |-> now + 1]
<1>1. r \in Requests /\ taken[r] = None /\ server.state.pending[r] # "none"
  BY QueueTypes DEF Queue, HeadTaken
<1>2. taken \in [Requests -> Texts \cup {None}] /\ taken' = [taken EXCEPT ![r] = v]
  BY DEF ClaudeTypes, HeadTaken
<1>3. v \in Texts /\ v.number = cc'.lastNumber
  BY DEF ClaudeTypes, Texts
<1>. HIDE DEF r, v
<1>4. taken'[r] = v /\ \A q \in Requests : q # r => taken'[q] = taken[q]
  BY <1>1, <1>2
<1>5. v # None
  BY <1>3, NoneIsNothing
<1>6. cc.queue # <<>> /\ cc'.queue = Tail(cc.queue)
  BY DEF HeadTaken
<1>7. QED
  BY <1>1, <1>3, <1>4, <1>5, <1>6 DEF r

LEMMA TakenMoves ==
  ASSUME ClaudeTypes, ClaudeTypes', Queue, QueueMoves, SubmitTakes
  PROVE  TakenGrows
<1>1. CASE taken' = taken
  <2>1. \A y \in Recs' : ~(Happened(y) /\ ByChannel(y))
    BY <1>1, HeadIsNew DEF SubmitTakes
  <2>. QED  BY <1>1, <2>1 DEF TakenGrows
<1>2. CASE HeadTaken
  <2>1. \E y \in Range(files'.log) : ByChannel(y) /\ y.request = Head(cc.queue)
    BY <1>2 DEF HeadTaken
  <2>2. \A r \in Requests : taken[r] # None => r # Head(cc.queue)
    BY <1>2, HeadIsNew
  <2>3. \A r \in Requests : taken[r] = None /\ taken'[r] # None => r = Head(cc.queue)
    BY <1>2, HeadIsNew
  <2>4. \A r \in Requests : taken[r] # None => taken'[r] = taken[r]
    BY <1>2, <2>2, HeadIsNew
  <2>5. \A r \in Requests : taken[r] = None /\ taken'[r] # None =>
          /\ taken'[r].number = cc'.lastNumber
          /\ \E y \in Range(files'.log) : ByChannel(y) /\ y.request = r
    BY <1>2, <2>1, <2>3, HeadIsNew
  <2>6. \A y \in Recs' : Happened(y) /\ ByChannel(y) =>
          taken[y.request] = None /\ taken'[y.request] # None
    BY <1>2, HeadIsNew DEF SubmitTakes
  <2>. QED  BY <2>4, <2>5, <2>6 DEF TakenGrows
<1>3. QED
  BY <1>1, <1>2 DEF QueueMoves

LEMMA QueueGrows ==
  ASSUME ClaudeTypes, ClaudeTypes', Queue, QueueMoves, TurnsGrow, server' = server, files'.log # <<>>
  PROVE  Queue'
<1>1. /\ cc.queue \in Seq(Requests \cup {"typed"}) /\ Len(cc.queue) \in Nat
      /\ DOMAIN cc.queue = 1..Len(cc.queue) /\ "typed" \notin Requests
      /\ \A i \in 1..Len(cc.queue) : cc.queue[i] # "typed" => cc.queue[i] \in Requests
      /\ cc.queue # <<>> => Head(cc.queue) = cc.queue[1] /\ 1 \in 1..Len(cc.queue)
  BY QueueTypes
<1>2. /\ \A i, j \in DOMAIN cc.queue : cc.queue[i] = cc.queue[j] /\ i # j => cc.queue[i] = "typed"
      /\ \A i \in DOMAIN cc.queue : cc.queue[i] # "typed" =>
           taken[cc.queue[i]] = None /\ server.state.pending[cc.queue[i]] # "none"
      /\ \A r \in Requests : taken[r] # None =>
           server.state.pending[r] # "none" /\ taken[r].number \in 1..cc.lastNumber
  BY DEF Queue
<1>3. cc'.lastNumber > 0 /\ cc.lastNumber <= cc'.lastNumber /\ cc.lastNumber \in Nat /\ cc'.lastNumber \in Nat
  BY DEF TurnsGrow, ClaudeTypes
<1>4. \A r \in Requests : taken'[r] # None =>
           server.state.pending[r] # "none" /\ taken'[r].number \in 1..cc'.lastNumber
  <2>1. \A r \in Requests : taken[r] # None => taken[r].number \in 1..cc'.lastNumber
    BY <1>2, <1>3
  <2>2. CASE taken' = taken
    BY <1>2, <2>1, <2>2
  <2>3. CASE HeadTaken
    <3>1. cc'.lastNumber \in 1..cc'.lastNumber
      BY <1>3
    <3>. QED  BY <1>2, <2>1, <2>3, <3>1, HeadIsNew
  <2>. QED  BY <2>2, <2>3 DEF QueueMoves
<1>5. /\ \A i, j \in DOMAIN cc'.queue : cc'.queue[i] = cc'.queue[j] /\ i # j => cc'.queue[i] = "typed"
      /\ \A i \in DOMAIN cc'.queue : cc'.queue[i] # "typed" =>
           taken'[cc'.queue[i]] = None /\ server.state.pending[cc'.queue[i]] # "none"
  <2>1. CASE cc'.queue = cc.queue /\ taken' = taken
    BY <1>2, <2>1
  <2>2. CASE cc'.queue = Append(cc.queue, "typed") /\ taken' = taken
    <3>1. \A i \in 1..(Len(cc.queue) + 1) : i \in 1..Len(cc.queue) \/ i = Len(cc.queue) + 1
      BY <1>1
    <3>. QED  BY <1>1, <1>2, <2>2, <3>1, TypedOfQueue
  <2>3. CASE cc.queue # <<>> /\ Head(cc.queue) = "typed" /\ cc'.queue = Tail(cc.queue) /\ taken' = taken
    <3>1. \A i, j \in DOMAIN cc'.queue : cc'.queue[i] = cc'.queue[j] /\ i # j => cc'.queue[i] = "typed"
      BY <1>1, <1>2, <2>3, TailTwice
    <3>2. \A i \in DOMAIN cc'.queue : cc'.queue[i] # "typed" =>
           taken'[cc'.queue[i]] = None /\ server.state.pending[cc'.queue[i]] # "none"
      BY <1>1, <1>2, <2>3, TailOfQueue
    <3>. QED  BY <3>1, <3>2
  <2>4. CASE HeadTaken
    <3>1. cc.queue # <<>> /\ cc'.queue = Tail(cc.queue) /\ Head(cc.queue) # "typed"
      BY <2>4 DEF HeadTaken
    <3>2. \A i \in 1..(Len(cc.queue) - 1) : cc'.queue[i] # Head(cc.queue)
      BY <1>1, <1>2, <3>1, TailOfQueue
    <3>3. \A i \in 1..(Len(cc.queue) - 1) : cc'.queue[i] # "typed" =>
            /\ cc'.queue[i] \in Requests /\ taken[cc'.queue[i]] = None
            /\ server.state.pending[cc'.queue[i]] # "none"
      BY <1>1, <1>2, <3>1, TailOfQueue
    <3>4. \A i \in DOMAIN cc'.queue : cc'.queue[i] # "typed" =>
           taken'[cc'.queue[i]] = None /\ server.state.pending[cc'.queue[i]] # "none"
      BY <2>4, <3>1, <3>2, <3>3, TailOfQueue, HeadIsNew
    <3>5. \A i, j \in DOMAIN cc'.queue : cc'.queue[i] = cc'.queue[j] /\ i # j => cc'.queue[i] = "typed"
      BY <1>1, <1>2, <3>1, TailTwice
    <3>. QED  BY <3>4, <3>5
  <2>. QED  BY <2>1, <2>2, <2>3, <2>4 DEF QueueMoves
<1>6. QED
  BY <1>3, <1>4, <1>5 DEF Queue

\* While the server has read nothing: who waits for the first turn still does,
\* or is in it, and no other turn's end has a text.
FirstTurnsKept == \A r \in Requests : FirstTurn(r) => FirstTurn(r)'

FirstTextsKept == \A y \in Recs' : Happened(y) /\ IsEnd(y) => FirstText(y)

LEMMA UnheardGrows ==
  ASSUME ClaudeTypes, ClaudeTypes', RecsGrow, Noted, FirstTurnsKept, FirstTextsKept,
         NEW S, Unheard(S)
  PROVE  Unheard(S)'
<1>1. \A r \in Requests : OpenIn(S, r) => FirstTurn(r)'
  BY DEF Unheard, FirstTurnsKept
<1>2. \A x \in Range(files'.log) : IsEnd(x) => FirstText(x)
  <2>1. Range(files'.log) \subseteq Recs'
    BY DEF Recs
  <2>. QED  BY <2>1 DEF Unheard, RecsGrow, FirstTextsKept
<1>3. files.stop # None => files'.stop # None
  BY DEF Noted
<1>4. \A r \in Requests : FirstText(S.deliveries[r].firstStop)
                          /\ (S.deliveries[r].firstStop # None => files'.stop # None)
  BY <1>3 DEF Unheard
<1>5. QED
  BY <1>1, <1>2, <1>4 DEF Unheard, OpenIn, IsEnd, FirstText

(* A step of Claude Code's or of a hook's that keeps to these keeps the    *)
(* invariant.                                                              *)
LEMMA ClaudeStepKeeps ==
  ASSUME Inv, ~server.down, ClaudeTypes', InTurn', server' = server, routed' = routed,
         files'.open = files.open, files'.log # <<>>,
         TurnMoves, Noted, QueueMoves, SubmitTakes, OpenersKept, TextsKept, FirstTurnsKept,
         NEW h \in Nat, NEW m \in 0..LastId, Horizon(h), Knows(server.state, h, m),
         EndKnown(server.state, m), m = 0 => FirstTextsKept
  PROVE  Inv'
<1>1. ClaudeTypes /\ World /\ RoutedToItsTurn /\ InLine
  BY DEF Inv
<1>2. Numbers /\ InTurn /\ Queue /\ Records /\ Openers /\ Messages
  BY <1>1 DEF World
<1>3. TurnsGrow
  BY <1>1, <1>2, IdsGrow
<1>4. Numbers'
  BY <1>1, <1>2, NumbersGrow
<1>5. OldTurnsKept
  BY <1>1, <1>2, OldTurnsStay
<1>6. RecsGrow /\ LogGrows
  BY <1>1, <1>2, NotedGrows
<1>7. Records'
  BY <1>1, <1>2, <1>3, <1>4, <1>5, RecordsGrow
<1>8. TakenGrows
  BY <1>1, <1>2, TakenMoves
<1>9. Queue'
  BY <1>1, <1>2, <1>3, QueueGrows
<1>10. Openers'
  BY <1>1, <1>2, <1>3, <1>4, <1>6, OpenersGrow
<1>11. Messages'
  BY <1>1, <1>2, <1>3, <1>6, <1>8, MessagesGrow
<1>12. Horizon(h)'
  BY <1>1, <1>6, HorizonGrows
<1>13. server.state \in Servers /\ now \in Nat /\ h <= now
  BY <1>1 DEF ClaudeTypes, Horizon
<1>14. PICK S \in Servers : S = server.state
  BY <1>13
<1>15. Knows(S, h, m) /\ EndKnown(S, m)
  BY <1>14
<1>16. m = 0 => Unheard(S)'
  <2>1. Knows(S, h, m) => (m = 0 => Unheard(S))
    BY DEF Knows
  <2>. QED  BY <1>1, <1>6, <1>15, <2>1, UnheardGrows
<1>17. Knows(S, h, m)'
  BY <1>1, <1>2, <1>3, <1>5, <1>6, <1>8, <1>13, <1>15, <1>16, KnowsGrow
<1>18. Knows(server.state, h, m)'
  BY <1>14, <1>17
<1>19. RoutedToItsTurn'
  <2>1. routed \subseteq Requests \X Nat
    BY <1>1 DEF ClaudeTypes
  <2>2. \A p \in routed : taken'[p[1]] = taken[p[1]]
    BY <1>1, <1>8, <2>1 DEF RoutedToItsTurn, TakenGrows
  <2>. QED  BY <1>1, <2>2 DEF RoutedToItsTurn
<1>20. InLine'
  BY <1>1 DEF InLine, Owning, OpenRequests, OpenIn
<1>21. World'
  BY <1>4, <1>7, <1>9, <1>10, <1>11 DEF World
<1>22. ~server'.down
  OBVIOUS
<1>23. QED
  BY <1>12, <1>18, <1>19, <1>20, <1>21, <1>22 DEF Inv

CodeType == [queue : Seq(Requests \cup {"typed"}), id : 0..LastId, number : Nat, taking : Nat,
             call : BOOLEAN, calls : Nat, refused : BOOLEAN, lastId : 0..LastId,
             lastNumber : Nat, typed : Nat]
FilesType == [log : Seq(Submits \cup TurnEnds), stop : TurnEnds \cup {None},
              activity : ToolCalls \cup {None}, nudge : Texts \cup {None},
              open : [owning : SUBSET Requests, open : SUBSET Requests]]

LEMMA StepTypes ==
  ASSUME ClaudeTypes, TurnMoves, cc' \in CodeType, files' \in FilesType,
         server' = server, routed' = routed, now' \in {now, now + 1},
         \/ taken' = taken
         \/ \E r : taken' = [taken EXCEPT ![r] = [number |-> cc'.lastNumber, at |-> now + 1]]
  PROVE  ClaudeTypes'
<1>1. now \in Nat /\ now' \in Nat /\ cc'.lastNumber \in Nat /\ cc.lastNumber \in Nat /\ cc.number \in Nat
  <2>1. now \in Nat /\ cc \in CodeType
    BY DEF ClaudeTypes, CodeType
  <2>2. now' \in Nat
    BY <2>1
  <2>3. cc'.lastNumber \in Nat
    BY DEF CodeType
  <2>4. cc.lastNumber \in Nat /\ cc.number \in Nat
    BY <2>1 DEF CodeType
  <2>. QED  BY <2>1, <2>2, <2>3, <2>4
<1>2. numberOf' \in [PromptIds -> Nat]
  <2>1. CASE numberOf' = numberOf
    BY <2>1 DEF ClaudeTypes
  <2>2. CASE \E i, n : n \in Nat /\ numberOf' = [numberOf EXCEPT ![i] = n]
    <3>1. PICK i, n : n \in Nat /\ numberOf' = [numberOf EXCEPT ![i] = n]
      BY <2>2
    <3>2. numberOf \in [PromptIds -> Nat]
      BY DEF ClaudeTypes
    <3>. QED  BY <3>1, <3>2
  <2>3. CASE TurnJoined
    <3>1. numberOf' = [numberOf EXCEPT ![cc.lastId + 1] = cc.number]
      BY <2>3 DEF TurnJoined
    <3>. QED  BY <1>1, <2>2, <3>1
  <2>4. CASE TurnStarted
    <3>1. numberOf' = [numberOf EXCEPT ![cc.lastId + 1] = cc.lastNumber + 1] /\ cc.lastNumber + 1 \in Nat
      BY <1>1, <2>4 DEF TurnStarted
    <3>. QED  BY <2>2, <3>1
  <2>5. TurnGoesOn \/ TurnIsOver => numberOf' = numberOf
    BY DEF TurnGoesOn, TurnIsOver
  <2>. QED  BY <2>1, <2>3, <2>4, <2>5 DEF TurnMoves
<1>3. served' \subseteq Nat
  <2>1. served \subseteq Nat /\ cc.lastNumber + 1 \in Nat
    BY <1>1 DEF ClaudeTypes
  <2>2. served' = served \/ served' = served \cup {cc.lastNumber + 1}
    BY DEF TurnMoves, TurnGoesOn, TurnIsOver, TurnJoined, TurnStarted
  <2>. QED  BY <2>1, <2>2
<1>4. taken' \in [Requests -> Texts \cup {None}]
  <2>1. taken \in [Requests -> Texts \cup {None}]
    BY DEF ClaudeTypes
  <2>2. [number |-> cc'.lastNumber, at |-> now + 1] \in Texts
    BY <1>1 DEF Texts
  <2>. QED  BY <2>1, <2>2
<1>5. server' \in [state : Servers, read : Nat, activityRead : Int, down : BOOLEAN]
      /\ routed' \subseteq Requests \X Nat
  BY DEF ClaudeTypes
<1>6. QED
  BY <1>1, <1>2, <1>3, <1>4, <1>5 DEF ClaudeTypes, CodeType, FilesType

LEMMA CodeTypes ==
  ASSUME Inv, ~server.down
  PROVE  /\ ClaudeTypes /\ Numbers /\ InTurn /\ Queue /\ Records /\ Openers /\ Messages
         /\ cc \in CodeType /\ files \in FilesType
         /\ now \in Nat /\ now + 1 \in Nat /\ now + 1 # now
         /\ cc.id # 0 => /\ cc.id = cc.lastId /\ cc.number = cc.lastNumber /\ cc.lastNumber > 0
                         /\ cc.id \in PromptIds /\ files.log # <<>>
<1>1. ClaudeTypes /\ Numbers /\ InTurn /\ Queue /\ Records /\ Openers /\ Messages
  BY DEF Inv, World
<1>2. cc \in CodeType /\ files \in FilesType /\ now \in Nat
  BY <1>1 DEF ClaudeTypes, CodeType, FilesType
<1>3. cc.id \in 0..LastId
  BY <1>2 DEF CodeType
<1>4. cc.id # 0 => cc.id = cc.lastId /\ cc.number = cc.lastNumber /\ cc.lastNumber > 0
  BY <1>1 DEF Numbers
<1>5. cc.id # 0 => cc.id \in PromptIds /\ files.log # <<>>
  BY <1>1, <1>3, <1>4, PromptIdsAreIntegers DEF Queue
<1>6. QED
  BY <1>1, <1>2, <1>4, <1>5

\* The record of a step is the only one.
LEMMA NoRecord ==
  ASSUME ClaudeTypes, Records, files'.log = files.log, files'.activity = files.activity
  PROVE  Recs' = Recs /\ \A y \in Recs' : ~Happened(y)
<1>1. now \in Nat
  BY DEF ClaudeTypes
<1>2. \A y \in Recs : ~Happened(y)
  BY <1>1, RecordTypes DEF Records, Happened
<1>3. QED
  BY <1>2 DEF Recs

LEMMA OneRecord ==
  ASSUME ClaudeTypes, Records, Noted, NEW x, Happened(x), x \in Recs'
  PROVE  \A y \in Recs' : Happened(y) => y = x
  BY NotedGrows DEF RecsGrow

LEMMA AppendedRecord ==
  ASSUME ClaudeTypes, NEW x \in Submits \cup TurnEnds, files'.log = Append(files.log, x)
  PROVE  x \in Recs' /\ Range(files'.log) = Range(files.log) \cup {x} /\ files'.log # <<>>
<1>1. files.log \in Seq(Submits \cup TurnEnds)
  BY DEF ClaudeTypes
<1>2. Range(files'.log) = Range(files.log) \cup {x}
  BY <1>1, RangeOfAppend
<1>3. files'.log # <<>>
  BY <1>1
<1>4. QED
  BY <1>2, <1>3 DEF Recs

(* A step in a turn that goes on.                                          *)
LEMMA GoesOnKeeps ==
  ASSUME Inv, ~server.down, ClaudeTypes', InTurn', server' = server, routed' = routed,
         files'.open = files.open,
         TurnGoesOn, Noted, QueueMoves, SubmitTakes, \A y \in Recs' : Happened(y) => ~IsEnd(y),
         cc'.queue # cc.queue => cc.taking = 0
  PROVE  Inv'
<1>1. ClaudeTypes /\ Numbers /\ InTurn /\ Queue /\ Records /\ cc.id # 0 /\ cc.lastNumber > 0
      /\ files.log # <<>> /\ cc.taking \in Nat
  BY CodeTypes DEF TurnGoesOn, CodeType
<1>2. PICK h \in Nat, m \in 0..LastId : Horizon(h) /\ Knows(server.state, h, m)
  BY DEF Inv
<1>3. TakenGrows
  BY <1>1, TakenMoves
<1>4. FirstTurnsKept
  <2>1. SUFFICES ASSUME NEW r \in Requests, FirstTurn(r) PROVE FirstTurn(r)'
    BY DEF FirstTurnsKept
  <2>2. CASE taken[r] # None /\ taken[r].number = 1
    BY <1>3, <2>2 DEF FirstTurn, TakenGrows
  <2>3. CASE cc.number = 1 /\ \E i \in 1..cc.taking : cc.queue[i] = r
    <3>1. cc.taking # 0
      BY <1>1, <2>3
    <3>. QED  BY <2>3, <3>1 DEF FirstTurn, TurnGoesOn
  <2>. QED  BY <1>1, <2>1, <2>2, <2>3 DEF FirstTurn
<1>5. TurnMoves /\ OpenersKept /\ TextsKept /\ FirstTextsKept
  BY DEF TurnMoves, TurnGoesOn, OpenersKept, TextsKept, FirstTextsKept
<1>6. files'.log # <<>>
  <2>1. files.log \in Seq(Submits \cup TurnEnds)
    BY <1>1 DEF ClaudeTypes
  <2>2. 1 \in DOMAIN files.log
    BY <1>1, <2>1
  <2>3. 1 \in DOMAIN files'.log
    BY <1>1, <2>2, NotedGrows DEF LogGrows
  <2>. QED  BY <2>3
<1>7. EndKnown(server.state, m)
  BY DEF TurnGoesOn, EndKnown
<1>8. QED
  BY <1>2, <1>4, <1>5, <1>6, <1>7, ClaudeStepKeeps

\* What a step in a turn leaves as it is.
SameTurn(c, d) ==
  /\ d.id = c.id /\ d.number = c.number /\ d.taking = c.taking
  /\ d.lastId = c.lastId /\ d.lastNumber = c.lastNumber

SameFlags(c, d) == d.call = c.call /\ d.refused = c.refused

SameFiles(f, g) ==
  /\ g.stop = f.stop /\ g.activity = f.activity /\ g.nudge = f.nudge /\ g.open = f.open

AsQueued(c, v, d) == d \in CodeType /\ d.queue = v /\ SameTurn(c, d) /\ SameFlags(c, d)

LEMMA QueueUpdate ==
  ASSUME NEW c \in CodeType, NEW v \in Seq(Requests \cup {"typed"}), NEW n \in Nat,
         NEW d, d = [c EXCEPT !.queue = v, !.typed = n]
  PROVE  AsQueued(c, v, d)
<1>1. d \in CodeType
  BY DEF CodeType
<1>2. d.queue = v /\ SameTurn(c, d)
  BY DEF CodeType, SameTurn
<1>3. SameFlags(c, d)
  BY DEF CodeType, SameFlags
<1>4. QED
  BY <1>1, <1>2, <1>3 DEF AsQueued

LEMMA CallUpdate ==
  ASSUME NEW c \in CodeType, NEW n \in Nat, NEW d, d = [c EXCEPT !.call = TRUE, !.calls = n]
  PROVE  d \in CodeType /\ d.queue = c.queue /\ SameTurn(c, d)
<1>1. d \in CodeType
  BY DEF CodeType
<1>2. d.queue = c.queue /\ SameTurn(c, d)
  BY DEF CodeType, SameTurn
<1>3. QED
  BY <1>1, <1>2

LEMMA LogUpdate ==
  ASSUME NEW f \in FilesType, NEW x \in Submits \cup TurnEnds,
         NEW g, g = [f EXCEPT !.log = Append(@, x)]
  PROVE  g \in FilesType /\ g.log = Append(f.log, x) /\ SameFiles(f, g)
<1>1. PICK v : v = Append(f.log, x)
  OBVIOUS
<1>2. f.log \in Seq(Submits \cup TurnEnds)
  BY DEF FilesType
<1>3. v \in Seq(Submits \cup TurnEnds)
  BY <1>1, <1>2
<1>4. g = [f EXCEPT !.log = v]
  BY <1>1
<1>5. g \in FilesType /\ g.log = v /\ SameFiles(f, g)
  BY <1>3, <1>4 DEF FilesType, SameFiles
<1>6. QED
  BY <1>1, <1>5

LEMMA ToolCallStep ==
  ASSUME Inv, ToolCall
  PROVE  Inv'
<1>1. /\ ~server.down /\ now' = now + 1 /\ cc.id # 0 /\ cc.taking = 0 /\ ~cc.call
      /\ cc' = [cc EXCEPT !.call = TRUE, !.calls = @ + 1]
      /\ UNCHANGED <<server, numberOf, served, taken, routed>>
  BY DEF ToolCall, Happens, CanCall, Idle
<1>2. /\ ClaudeTypes /\ Numbers /\ InTurn /\ Queue /\ Records /\ cc \in CodeType /\ files \in FilesType
      /\ cc.id = cc.lastId /\ cc.id \in PromptIds /\ files.log # <<>> /\ now + 1 \in Nat
  BY <1>1, CodeTypes
<1>3. PICK act \in ToolCalls :
        files' = [files EXCEPT !.activity = act] /\ act.id = cc.id /\ act.at = now + 1 /\ act.kind = "activity"
  <2>. DEFINE before == files.activity
              same == before # None /\ before.id = cc.id
                      /\ (files.stop = None \/ before.at > files.stop.at)
              f == IF same THEN before.first ELSE now + 1
              a == [kind |-> "activity", id |-> cc.id, at |-> now + 1, first |-> f]
  <2>1. files' = [files EXCEPT !.activity = a]
    BY DEF ToolCall
  <2>2. f \in Nat
    <3>1. before # None => before.first \in Nat
      BY <1>2 DEF FilesType, ToolCalls
    <3>. QED  BY <1>2, <3>1
  <2>. HIDE DEF f
  <2>3. a \in ToolCalls
    BY <1>2, <2>2 DEF ToolCalls
  <2>. QED  BY <2>1, <2>3
<1>4. /\ cc' \in CodeType /\ cc'.queue = cc.queue /\ cc'.id = cc.id /\ cc'.number = cc.number
      /\ cc'.taking = cc.taking /\ cc'.lastId = cc.lastId /\ cc'.lastNumber = cc.lastNumber
  <2>1. PICK c, n, d : c = cc /\ n = cc.calls + 1 /\ d = [c EXCEPT !.call = TRUE, !.calls = n] /\ d = cc'
    BY <1>1
  <2>2. c \in CodeType /\ n \in Nat
    BY <1>2, <2>1 DEF CodeType
  <2>3. d \in CodeType /\ d.queue = c.queue /\ SameTurn(c, d)
    BY <2>1, <2>2, CallUpdate
  <2>. QED  BY <2>1, <2>3 DEF SameTurn
<1>5. /\ files' \in FilesType /\ files'.log = files.log /\ files'.stop = files.stop
      /\ files'.activity = act /\ files'.nudge = files.nudge /\ files'.open = files.open
  BY <1>2, <1>3 DEF FilesType
<1>6. TurnGoesOn
  BY <1>1, <1>4 DEF TurnGoesOn
<1>7. ClaudeTypes'
  BY <1>1, <1>2, <1>4, <1>5, <1>6, StepTypes DEF TurnMoves
<1>8. ~IsEnd(act) /\ ~ByChannel(act) /\ act # None
  BY <1>3, NoneIsNothing DEF IsEnd, ByChannel
<1>9. Happened(act)
  BY <1>1, <1>2, <1>3, <1>4, <1>8 DEF Happened
<1>10. Noted
  BY <1>1, <1>2, <1>5, <1>8, <1>9 DEF Noted
<1>11. act \in Recs'
  BY <1>5, <1>8 DEF Recs
<1>12. \A y \in Recs' : Happened(y) => y = act
  BY <1>2, <1>9, <1>10, <1>11, OneRecord
<1>13. QueueMoves /\ SubmitTakes
  BY <1>1, <1>4, <1>8, <1>12 DEF QueueMoves, SubmitTakes
<1>14. InTurn'
  BY <1>1, <1>2, <1>3, <1>4, <1>5, <1>8 DEF InTurn
<1>15. QED
  BY <1>1, <1>4, <1>5, <1>6, <1>7, <1>8, <1>10, <1>12, <1>13, <1>14, GoesOnKeeps

LEMMA RefuseStopStep ==
  ASSUME Inv, RefuseStop
  PROVE  Inv'
<1>1. /\ ~server.down /\ now' = now + 1 /\ cc.id # 0 /\ cc.taking = 0 /\ ~cc.call
      /\ cc' = [cc EXCEPT !.refused = TRUE] /\ files' = [files EXCEPT !.nudge = Written]
      /\ UNCHANGED <<server, numberOf, served, taken, routed>>
  BY DEF RefuseStop, Happens, CanCall, Idle
<1>2. /\ ClaudeTypes /\ Numbers /\ InTurn /\ Queue /\ Records /\ cc \in CodeType /\ files \in FilesType
      /\ now + 1 \in Nat
  BY <1>1, CodeTypes
<1>3. Written \in Texts /\ Written.number = cc.number /\ Written # None
  BY <1>2, NoneIsNothing DEF Written, Texts, CodeType
<1>4. /\ cc' \in CodeType /\ cc'.queue = cc.queue /\ cc'.id = cc.id /\ cc'.number = cc.number
      /\ cc'.taking = cc.taking /\ cc'.lastId = cc.lastId /\ cc'.lastNumber = cc.lastNumber
      /\ cc'.call = cc.call
  BY <1>1, <1>2 DEF CodeType
<1>5. /\ files' \in FilesType /\ files'.log = files.log /\ files'.stop = files.stop
      /\ files'.activity = files.activity /\ files'.nudge = Written /\ files'.open = files.open
  BY <1>1, <1>2, <1>3 DEF FilesType
<1>6. TurnGoesOn
  BY <1>1, <1>4 DEF TurnGoesOn
<1>7. ClaudeTypes'
  BY <1>1, <1>2, <1>4, <1>5, <1>6, StepTypes DEF TurnMoves
<1>8. Noted
  BY <1>1, <1>5 DEF Noted
<1>9. \A y \in Recs' : ~Happened(y)
  BY <1>2, <1>5, NoRecord
<1>10. QueueMoves /\ SubmitTakes
  BY <1>1, <1>4, <1>9 DEF QueueMoves, SubmitTakes
<1>11. InTurn'
  BY <1>1, <1>2, <1>3, <1>4, <1>5 DEF InTurn
<1>12. QED
  BY <1>1, <1>4, <1>5, <1>6, <1>7, <1>8, <1>9, <1>10, <1>11, GoesOnKeeps

(* Text typed while a turn runs.                                           *)
LEMMA TypeLaterStep ==
  ASSUME Inv, Type, ~Idle
  PROVE  Inv'
<1>1. /\ ~server.down /\ now' = now + 1 /\ cc.id # 0 /\ cc.taking = 0
      /\ cc' = [cc EXCEPT !.queue = Append(@, "typed"), !.typed = @ + 1]
      /\ Logs(Submit(cc.id, None))
      /\ UNCHANGED <<server, numberOf, served, taken, routed>>
  BY DEF Type, Happens, Idle
<1>2. /\ ClaudeTypes /\ Numbers /\ InTurn /\ Queue /\ Records /\ cc \in CodeType /\ files \in FilesType
      /\ now + 1 \in Nat /\ cc.id = cc.lastId /\ cc.id \in PromptIds /\ files.log # <<>>
  BY <1>1, CodeTypes
<1>3. PICK x : x = Submit(cc.id, None)
  OBVIOUS
<1>4. x \in Submits /\ x.id = cc.id /\ x.at = now + 1 /\ ~ByChannel(x) /\ ~IsEnd(x)
  BY <1>2, <1>3 DEF Submit, Submits, ByChannel, IsEnd
<1>5. /\ cc' \in CodeType /\ cc'.queue = Append(cc.queue, "typed") /\ cc'.id = cc.id /\ cc'.number = cc.number
      /\ cc'.taking = cc.taking /\ cc'.lastId = cc.lastId /\ cc'.lastNumber = cc.lastNumber
      /\ SameFlags(cc, cc')
  <2>1. PICK c, v, n, d : /\ c = cc /\ v = Append(cc.queue, "typed") /\ n = cc.typed + 1
                          /\ d = [c EXCEPT !.queue = v, !.typed = n] /\ d = cc'
    BY <1>1
  <2>2. /\ c \in CodeType /\ n \in Nat /\ v \in Seq(Requests \cup {"typed"})
        /\ d = [c EXCEPT !.queue = v, !.typed = n]
    BY <1>2, <2>1 DEF CodeType
  <2>3. AsQueued(c, v, d)
    BY <2>2, QueueUpdate
  <2>. QED  BY <2>1, <2>3 DEF AsQueued, SameTurn
<1>6. /\ files' \in FilesType /\ files'.log = Append(files.log, x) /\ files'.stop = files.stop
      /\ files'.activity = files.activity /\ files'.nudge = files.nudge /\ files'.open = files.open
  <2>1. files' = [files EXCEPT !.log = Append(@, x)]
    BY <1>1, <1>3 DEF Logs
  <2>2. files' \in FilesType /\ files'.log = Append(files.log, x) /\ SameFiles(files, files')
    BY <1>2, <1>4, <2>1, LogUpdate
  <2>. QED  BY <2>2 DEF SameFiles
<1>7. TurnGoesOn
  BY <1>1, <1>5 DEF TurnGoesOn
<1>8. ClaudeTypes'
  BY <1>1, <1>2, <1>5, <1>6, <1>7, StepTypes DEF TurnMoves
<1>9. Happened(x)
  BY <1>1, <1>2, <1>4, <1>5 DEF Happened
<1>10. Appends(x)
  BY <1>2, <1>4, <1>6, <1>9 DEF Appends
<1>11. Noted
  BY <1>1, <1>6, <1>10 DEF Noted
<1>12. \A y \in Recs' : Happened(y) => y = x
  BY <1>2, <1>4, <1>6, <1>9, <1>11, AppendedRecord, OneRecord
<1>13. QueueMoves /\ SubmitTakes
  BY <1>1, <1>4, <1>5, <1>12 DEF QueueMoves, SubmitTakes
<1>14. InTurn'
  <2>1. Len(cc'.queue) \in Nat
    BY <1>5 DEF CodeType
  <2>. QED  BY <1>1, <1>2, <1>5, <1>6, <2>1 DEF InTurn, SameFlags
<1>15. QED
  BY <1>1, <1>4, <1>5, <1>6, <1>7, <1>8, <1>11, <1>12, <1>13, <1>14, GoesOnKeeps

ResultIn(c, d) == ~d.call /\ d.refused = c.refused

LEMMA ResultUpdate ==
  ASSUME NEW c \in CodeType, NEW v \in Seq(Requests \cup {"typed"}),
         NEW d, d = [c EXCEPT !.call = FALSE, !.queue = v]
  PROVE  d \in CodeType /\ d.queue = v /\ SameTurn(c, d) /\ ResultIn(c, d)
<1>1. d \in CodeType
  BY DEF CodeType
<1>2. d.queue = v /\ SameTurn(c, d)
  BY DEF CodeType, SameTurn
<1>3. ResultIn(c, d)
  BY DEF CodeType, ResultIn
<1>4. QED
  BY <1>1, <1>2, <1>3

LEMMA SubmitRecord ==
  ASSUME NEW i \in PromptIds, NEW r \in Requests \cup {None}, now + 1 \in Nat
  PROVE  /\ Submit(i, r) \in Submits /\ Submit(i, r).id = i /\ Submit(i, r).at = now + 1
         /\ Submit(i, r).request = r /\ Submit(i, r).kind = "submit"
         /\ ~IsEnd(Submit(i, r)) /\ (ByChannel(Submit(i, r)) <=> r # None)
  BY DEF Submit, Submits, ByChannel, IsEnd

LEMMA ServerIsDown ==
  ASSUME Inv, server.down, cc' \in CodeType,
         UNCHANGED <<files, server, now, numberOf, served, taken, routed>>
  PROVE  Inv'
<1>1. ClaudeTypes /\ LocalTurnsAreLocal
  BY KnownIsRight DEF Inv
<1>2. ClaudeTypes'
  BY <1>1 DEF ClaudeTypes, CodeType
<1>3. LocalTurnsAreLocal'
  BY <1>1 DEF LocalTurnsAreLocal
<1>4. QED
  BY <1>2, <1>3, DownKeeps

(* A tool's result that takes nothing, or text, into the turn.             *)
LEMMA PlainResultStep ==
  ASSUME Inv, cc.call, UNCHANGED <<files, server, numberOf, served, taken, routed>>,
         \/ cc.queue = <<>> /\ cc' = [cc EXCEPT !.call = FALSE] /\ now' = now
         \/ /\ cc.queue # <<>> /\ Head(cc.queue) = "typed" /\ Happens
            /\ cc' = [cc EXCEPT !.call = FALSE, !.queue = Tail(@)]
  PROVE  Inv'
<1>1. cc \in CodeType
  BY DEF Inv, ClaudeTypes, CodeType
<1>2. PICK q : /\ q \in Seq(Requests \cup {"typed"}) /\ cc' = [cc EXCEPT !.call = FALSE, !.queue = q]
               /\ IF cc.queue = <<>> THEN q = cc.queue ELSE q = Tail(cc.queue)
  <2>1. cc.queue \in Seq(Requests \cup {"typed"})
    BY <1>1 DEF CodeType
  <2>2. CASE cc.queue = <<>>
    <3>1. [cc EXCEPT !.call = FALSE] = [cc EXCEPT !.call = FALSE, !.queue = cc.queue]
      BY <1>1 DEF CodeType
    <3>. QED  BY <2>1, <2>2, <3>1
  <2>3. CASE cc.queue # <<>>
    <3>1. Tail(cc.queue) \in Seq(Requests \cup {"typed"})
      BY <2>1, <2>3
    <3>. QED  BY <2>3, <3>1
  <2>. QED  BY <2>2, <2>3
<1>3. cc' \in CodeType /\ cc'.queue = q /\ SameTurn(cc, cc') /\ ResultIn(cc, cc')
  <2>1. PICK c, d : c = cc /\ d = cc' /\ c \in CodeType /\ d = [c EXCEPT !.call = FALSE, !.queue = q]
    BY <1>1, <1>2
  <2>2. d \in CodeType /\ d.queue = q /\ SameTurn(c, d) /\ ResultIn(c, d)
    BY <1>2, <2>1, ResultUpdate
  <2>. QED  BY <2>1, <2>2
<1>4. CASE server.down
  <2>1. now' = now
    BY <1>4 DEF Happens
  <2>. QED  BY <1>3, <1>4, <2>1, ServerIsDown
<1>5. CASE ~server.down
  <2>1. /\ ClaudeTypes /\ Numbers /\ InTurn /\ Queue /\ Records /\ files \in FilesType
        /\ cc.id # 0 /\ cc.taking = 0 /\ now' \in {now, now + 1}
    BY <1>5, CodeTypes DEF InTurn, Happens
  <2>2. TurnGoesOn
    BY <1>3, <2>1 DEF TurnGoesOn, SameTurn
  <2>3. ClaudeTypes'
    BY <1>3, <2>1, <2>2, StepTypes DEF TurnMoves
  <2>4. Noted
    BY <2>1 DEF Noted
  <2>5. \A y \in Recs' : ~Happened(y)
    BY <2>1, NoRecord
  <2>6. QueueMoves /\ SubmitTakes
    BY <1>2, <1>3, <2>5 DEF QueueMoves, SubmitTakes
  <2>7. InTurn'
    <3>1. Len(cc'.queue) \in Nat
      BY <1>3 DEF CodeType
    <3>. QED  BY <1>3, <2>1, <3>1 DEF InTurn, ResultIn, SameTurn
  <2>. QED  BY <1>5, <2>1, <2>2, <2>3, <2>4, <2>5, <2>6, <2>7, GoesOnKeeps
<1>6. QED
  BY <1>4, <1>5

(* A tool's result that takes a channel message into the turn.             *)
LEMMA MessageResultStep ==
  ASSUME Inv, Happens, cc.call, cc.queue # <<>>, Head(cc.queue) # "typed",
         cc' = [cc EXCEPT !.call = FALSE, !.queue = Tail(@)],
         Logs(Submit(cc.id, Head(cc.queue))), TakenInto(Head(cc.queue), cc.number),
         UNCHANGED <<server, numberOf, served, routed>>
  PROVE  Inv'
<1>1. /\ ~server.down /\ now' = now + 1
  BY DEF Happens
<1>2. /\ ClaudeTypes /\ Numbers /\ InTurn /\ Queue /\ Records /\ cc \in CodeType /\ files \in FilesType
      /\ now + 1 \in Nat /\ cc.id # 0 /\ cc.taking = 0 /\ files.log # <<>>
      /\ cc.id = cc.lastId /\ cc.id \in PromptIds /\ cc.number = cc.lastNumber
  BY <1>1, CodeTypes DEF InTurn
<1>3. PICK r, q : /\ r = Head(cc.queue) /\ q = Tail(cc.queue) /\ r \in Requests
                  /\ q \in Seq(Requests \cup {"typed"})
  <2>1. cc.queue \in Seq(Requests \cup {"typed"})
    BY <1>2 DEF CodeType
  <2>2. Tail(cc.queue) \in Seq(Requests \cup {"typed"})
    BY <2>1
  <2>3. Head(cc.queue) \in Requests
    BY <1>2, QueueTypes
  <2>. QED  BY <2>2, <2>3
<1>4. cc' \in CodeType /\ cc'.queue = q /\ SameTurn(cc, cc') /\ ResultIn(cc, cc')
  <2>1. PICK c, d : c = cc /\ d = cc' /\ c \in CodeType /\ d = [c EXCEPT !.call = FALSE, !.queue = q]
    BY <1>2, <1>3
  <2>2. d \in CodeType /\ d.queue = q /\ SameTurn(c, d) /\ ResultIn(c, d)
    BY <1>3, <2>1, ResultUpdate
  <2>. QED  BY <2>1, <2>2
<1>5. PICK x : /\ x = Submit(cc.id, r) /\ x \in Submits /\ x.id = cc.id /\ x.at = now + 1
               /\ ByChannel(x) /\ ~IsEnd(x) /\ x.request = r
  BY <1>2, <1>3, SubmitRecord, NoneIsNothing
<1>6. files' \in FilesType /\ files'.log = Append(files.log, x) /\ SameFiles(files, files')
  <2>1. files' = [files EXCEPT !.log = Append(@, x)]
    BY <1>3, <1>5 DEF Logs
  <2>. QED  BY <1>2, <1>5, <2>1, LogUpdate
<1>7. TurnGoesOn
  BY <1>2, <1>4 DEF TurnGoesOn, SameTurn
<1>8. taken' = [taken EXCEPT ![r] = [number |-> cc'.lastNumber, at |-> now + 1]]
  BY <1>2, <1>3, <1>7 DEF TakenInto, TurnGoesOn
<1>9. ClaudeTypes'
  BY <1>1, <1>2, <1>4, <1>6, <1>7, <1>8, StepTypes DEF TurnMoves
<1>10. Happened(x)
  BY <1>1, <1>2, <1>5, <1>7 DEF Happened, TurnGoesOn
<1>11. Appends(x)
  BY <1>2, <1>5, <1>6, <1>10 DEF Appends, SameFiles
<1>12. Noted
  BY <1>1, <1>6, <1>11 DEF Noted, SameFiles
<1>13. x \in Recs' /\ x \in Range(files'.log)
  BY <1>2, <1>5, <1>6, AppendedRecord
<1>14. \A y \in Recs' : Happened(y) => y = x
  BY <1>2, <1>10, <1>12, <1>13, OneRecord
<1>15. HeadTaken
  BY <1>3, <1>4, <1>5, <1>8, <1>13 DEF HeadTaken
<1>16. QueueMoves /\ SubmitTakes
  BY <1>3, <1>5, <1>14, <1>15 DEF QueueMoves, SubmitTakes
<1>17. InTurn'
  <2>1. Len(cc'.queue) \in Nat
    BY <1>4 DEF CodeType
  <2>. QED  BY <1>2, <1>4, <1>6, <2>1 DEF InTurn, ResultIn, SameTurn, SameFiles
<1>18. files'.open = files.open /\ \A y \in Recs' : Happened(y) => ~IsEnd(y)
  BY <1>5, <1>6, <1>14 DEF SameFiles
<1>19. QED
  BY <1>1, <1>2, <1>7, <1>9, <1>12, <1>16, <1>17, <1>18, GoesOnKeeps

LEMMA ToolResultStep ==
  ASSUME Inv, ToolResult
  PROVE  Inv'
<1>1. cc.call /\ UNCHANGED <<server, numberOf, served, routed>>
  BY DEF ToolResult
<1>2. CASE cc.queue = <<>> /\ cc' = [cc EXCEPT !.call = FALSE] /\ UNCHANGED <<files, now, taken>>
  BY <1>1, <1>2, PlainResultStep
<1>3. CASE /\ cc.queue # <<>> /\ Happens /\ cc' = [cc EXCEPT !.call = FALSE, !.queue = Tail(@)]
           /\ Head(cc.queue) = "typed" /\ UNCHANGED <<files, taken>>
  BY <1>1, <1>3, PlainResultStep
<1>4. CASE /\ cc.queue # <<>> /\ Happens /\ cc' = [cc EXCEPT !.call = FALSE, !.queue = Tail(@)]
           /\ Head(cc.queue) # "typed" /\ Logs(Submit(cc.id, Head(cc.queue)))
           /\ TakenInto(Head(cc.queue), cc.number)
  BY <1>1, <1>4, MessageResultStep
<1>5. QED
  BY <1>2, <1>3, <1>4 DEF ToolResult

(* A step that ends the turn.                                              *)
LEMMA OverKeeps ==
  ASSUME Inv, ~server.down, ClaudeTypes', InTurn', server' = server, routed' = routed,
         files'.open = files.open, TurnIsOver, Noted, cc'.queue = cc.queue, taken' = taken,
         \A y \in Recs' : Happened(y) => ~ByChannel(y), TextsKept,
         NEW h \in Nat, NEW m \in 0..LastId, Horizon(h), Knows(server.state, h, m),
         EndKnown(server.state, m), m = 0 => FirstTextsKept
  PROVE  Inv'
<1>1. ClaudeTypes /\ Records /\ cc.id # 0 /\ cc.taking = 0 /\ cc.lastNumber > 0 /\ cc.lastNumber \in Nat
      /\ files.log # <<>>
  BY CodeTypes DEF TurnIsOver, CodeType
<1>2. FirstTurnsKept
  <2>1. SUFFICES ASSUME NEW r \in Requests, FirstTurn(r) PROVE FirstTurn(r)'
    BY DEF FirstTurnsKept
  <2>2. ~\E i \in 1..cc.taking : cc.queue[i] = r
    BY <1>1
  <2>3. taken[r] # None /\ taken[r].number = 1
    BY <1>1, <2>1, <2>2 DEF FirstTurn
  <2>. QED  BY <2>3 DEF FirstTurn
<1>3. QueueMoves /\ SubmitTakes
  BY DEF QueueMoves, SubmitTakes
<1>4. TurnMoves /\ OpenersKept
  BY DEF TurnMoves, TurnIsOver, OpenersKept
<1>5. files'.log # <<>>
  <2>1. files.log \in Seq(Submits \cup TurnEnds)
    BY <1>1 DEF ClaudeTypes
  <2>2. 1 \in DOMAIN files.log
    BY <1>1, <2>1
  <2>3. 1 \in DOMAIN files'.log
    BY <1>1, <2>2, NotedGrows DEF LogGrows
  <2>. QED  BY <2>3
<1>6. QED
  BY <1>2, <1>3, <1>4, <1>5, ClaudeStepKeeps

LEMMA OverUpdate ==
  ASSUME NEW c \in CodeType, NEW d, d = [c EXCEPT !.id = 0, !.number = 0]
  PROVE  /\ d \in CodeType /\ d.queue = c.queue /\ d.id = 0 /\ d.number = 0 /\ d.taking = c.taking
         /\ d.lastId = c.lastId /\ d.lastNumber = c.lastNumber /\ SameFlags(c, d)
<1>0. 0 \in 0..LastId
  BY ClaudeTurnsAssumption
<1>1. d \in CodeType
  BY <1>0 DEF CodeType
<1>2. /\ d.queue = c.queue /\ d.id = 0 /\ d.number = 0 /\ d.taking = c.taking
      /\ d.lastId = c.lastId /\ d.lastNumber = c.lastNumber
  BY DEF CodeType
<1>3. SameFlags(c, d)
  BY DEF CodeType, SameFlags
<1>4. QED
  BY <1>1, <1>2, <1>3

(* The end of a turn with its line in the log.                             *)
LEMMA EndedKeeps ==
  ASSUME Inv, ~server.down, now' = now + 1, cc.id # 0, cc.taking = 0, ~cc.call,
         cc' = [cc EXCEPT !.id = 0, !.number = 0], NEW x \in TurnEnds, x.id = cc.id, x.at = now + 1,
         files' \in FilesType, files'.log = Append(files.log, x), files'.activity = files.activity,
         files'.open = files.open, files'.stop = files.stop \/ files'.stop = x,
         UNCHANGED <<server, numberOf, served, taken, routed>>,
         ~x.background /\ x.text # None => x.kind = "stop" /\ x.text.number = cc.number,
         \A h \in Nat : Knows(server.state, h, 0) => FirstText(x)
  PROVE  Inv'
<1>1. /\ ClaudeTypes /\ Records /\ cc \in CodeType /\ now + 1 \in Nat
      /\ files.log # <<>> /\ cc.id = cc.lastId /\ cc.number = cc.lastNumber
  BY CodeTypes
<1>2. /\ cc' \in CodeType /\ cc'.queue = cc.queue /\ cc'.id = 0 /\ cc'.number = 0
      /\ cc'.taking = cc.taking /\ cc'.lastId = cc.lastId /\ cc'.lastNumber = cc.lastNumber
      /\ SameFlags(cc, cc')
  <2>1. PICK c, d : c = cc /\ d = cc' /\ c \in CodeType /\ d = [c EXCEPT !.id = 0, !.number = 0]
    BY <1>1
  <2>2. /\ d \in CodeType /\ d.queue = c.queue /\ d.id = 0 /\ d.number = 0 /\ d.taking = c.taking
        /\ d.lastId = c.lastId /\ d.lastNumber = c.lastNumber /\ SameFlags(c, d)
    BY <2>1, OverUpdate
  <2>. QED  BY <2>1, <2>2
<1>3. TurnIsOver
  BY <1>2 DEF TurnIsOver
<1>4. ClaudeTypes'
  BY <1>1, <1>2, <1>3, StepTypes DEF TurnMoves
<1>5. IsEnd(x) /\ ~ByChannel(x) /\ x # None
  BY NoneIsNothing DEF IsEnd, ByChannel, TurnEnds
<1>6. Happened(x)
  BY <1>1, <1>2, <1>5 DEF Happened
<1>7. Appends(x)
  BY <1>1, <1>6 DEF Appends
<1>8. x \in Recs' /\ x \in Range(files'.log)
  BY <1>1, AppendedRecord
<1>9. Noted
  BY <1>5, <1>7, <1>8 DEF Noted
<1>10. \A y \in Recs' : Happened(y) => y = x
  BY <1>1, <1>6, <1>8, <1>9, OneRecord
<1>11. TextsKept
  BY <1>1, <1>2, <1>10 DEF TextsKept
<1>12. InTurn'
  <2>1. Len(cc'.queue) \in Nat
    BY <1>2 DEF CodeType
  <2>. QED  BY <1>2, <2>1 DEF InTurn, SameFlags
<1>13. PICK h \in Nat, m \in 0..LastId : Horizon(h) /\ Knows(server.state, h, m)
  BY DEF Inv
<1>14. EndKnown(server.state, m)
  BY <1>1, <1>2, <1>5, <1>8 DEF EndKnown
<1>15. m = 0 => FirstTextsKept
  BY <1>10, <1>13 DEF FirstTextsKept
<1>16. \A y \in Recs' : Happened(y) => ~ByChannel(y)
  BY <1>5, <1>10
<1>17. QED
  BY <1>2, <1>3, <1>4, <1>9, <1>11, <1>12, <1>13, <1>14, <1>15, <1>16, OverKeeps

LEMMA EndRecord ==
  ASSUME NEW k \in {"stop", "failure"}, NEW i \in PromptIds, NEW b \in BOOLEAN,
         NEW t \in Texts \cup {None}, now + 1 \in Nat, NEW x,
         x = [kind |-> k, id |-> i, request |-> None, background |-> b, text |-> t, at |-> now + 1]
  PROVE  x \in TurnEnds /\ x.kind = k /\ x.id = i /\ x.text = t /\ x.at = now + 1
<1>1. x \in TurnEnds
  BY DEF TurnEnds
<1>2. x.kind = k /\ x.id = i /\ x.text = t /\ x.at = now + 1
  OBVIOUS
<1>3. QED
  BY <1>1, <1>2

LEMMA StopFailsStep ==
  ASSUME Inv, StopFails
  PROVE  Inv'
<1>1. /\ ~server.down /\ now' = now + 1 /\ cc.id # 0 /\ cc.taking = 0 /\ ~cc.call
      /\ cc' = [cc EXCEPT !.id = 0, !.number = 0]
      /\ UNCHANGED <<server, numberOf, served, taken, routed>>
  BY DEF StopFails, Happens, CanCall, Idle
<1>2. cc.id \in PromptIds /\ now + 1 \in Nat /\ files \in FilesType
  BY <1>1, CodeTypes
<1>3. PICK x : x = [kind |-> "failure", id |-> cc.id, request |-> None, background |-> FALSE,
                    text |-> None, at |-> now + 1]
  OBVIOUS
<1>7. x \in TurnEnds /\ x.id = cc.id /\ x.at = now + 1 /\ x.text = None
  <2>1. x \in TurnEnds
    BY <1>2, <1>3 DEF TurnEnds
  <2>2. x.id = cc.id /\ x.at = now + 1 /\ x.text = None
    BY <1>3
  <2>. QED  BY <2>1, <2>2
<1>4. files' \in FilesType /\ files'.log = Append(files.log, x) /\ SameFiles(files, files')
  <2>1. files' = [files EXCEPT !.log = Append(@, x)]
    BY <1>3 DEF StopFails, Logs
  <2>. QED  BY <1>2, <1>7, <2>1, LogUpdate
<1>5. FirstText(x)
  BY <1>7, NoneIsNothing DEF FirstText
<1>6. QED
  BY <1>1, <1>7, <1>4, <1>5, EndedKeeps DEF SameFiles

(* While the server has read nothing, only requests of the first turn wait. *)
LEMMA WaitingIsFirst ==
  ASSUME Inv, ~server.down, cc.id # 0, cc.taking = 0, NEW h \in Nat, Knows(server.state, h, 0),
         Waiting(cc.id) # {}
  PROVE  cc.number = 1
<1>1. /\ ClaudeTypes /\ Numbers /\ Records /\ Messages /\ files.log # <<>> /\ InLine
      /\ cc.id = cc.lastId /\ cc.number = cc.lastNumber /\ cc.lastNumber > 0 /\ cc.id \in PromptIds
      /\ cc.lastNumber \in Nat
  BY CodeTypes DEF Inv, CodeType
<1>2. Unheard(server.state) /\ Turn(server.state, h, 0)
  BY DEF Knows, Follows
<1>3. /\ files.log \in Seq(Submits \cup TurnEnds) /\ 1 \in DOMAIN files.log
      /\ DOMAIN files.log \subseteq Nat
  <2>1. files.log \in Seq(Submits \cup TurnEnds)
    BY <1>1 DEF ClaudeTypes
  <2>. QED  BY <1>1, <2>1
<1>4. \A i \in DOMAIN files.log : files.log[i] \in Recs /\ files.log[i].at \in Nat
  <2>1. \A i \in DOMAIN files.log : files.log[i] \in Recs
    BY DEF Recs, Range
  <2>2. now \in Nat
    BY <1>1 DEF ClaudeTypes
  <2>. QED  BY <1>1, <2>1, <2>2 DEF Records
<1>5. files.log[1].kind = "submit"
  BY <1>1 DEF Records
<1>6. PICK r \in OpenRequests(server.state) :
        /\ SubmitsOf(r) # {}
        /\ cc.id \in BatchIds(CHOOSE i \in SubmitsOf(r) : \A j \in SubmitsOf(r) : j <= i)
  <2>1. files.open.open = OpenRequests(server.state)
    BY <1>1 DEF InLine
  <2>. QED  BY <1>3, <1>5, <2>1 DEF Waiting
<1>7. r \in Requests /\ OpenIn(server.state, r) /\ r # None
  BY <1>6, NoneIsNothing DEF OpenRequests
<1>8. taken[r] # None /\ taken[r].number = 1
  <2>1. FirstTurn(r) /\ ~\E i \in 1..cc.taking : cc.queue[i] = r
    BY <1>2, <1>7 DEF Unheard
  <2>. QED  BY <1>1, <2>1 DEF FirstTurn
<1>9. PICK i \in SubmitsOf(r) : cc.id \in BatchIds(i)
  <2>1. PICK i : i \in SubmitsOf(r)
    BY <1>6
  <2>2. ASSUME NEW j \in SubmitsOf(r) PROVE j = i
    <3>1. /\ i \in DOMAIN files.log /\ j \in DOMAIN files.log /\ files.log[i].kind = "submit"
          /\ files.log[j].kind = "submit" /\ files.log[i].request = r /\ files.log[j].request = r
      BY <2>1, <2>2 DEF SubmitsOf
    <3>2. ByChannel(files.log[i]) /\ ByChannel(files.log[j])
      BY <1>7, <3>1 DEF ByChannel
    <3>3. files.log[i] = files.log[j]
      BY <1>1, <1>4, <3>1, <3>2 DEF Messages
    <3>4. i \in Nat /\ j \in Nat /\ files.log[i].at \in Nat
      BY <1>3, <1>4, <3>1
    <3>5. ~(i < j) /\ ~(j < i)
      BY <1>1, <3>1, <3>3, <3>4 DEF Records
    <3>. QED  BY <3>4, <3>5
  <2>3. i \in Nat
    BY <1>3, <2>1 DEF SubmitsOf
  <2>4. (CHOOSE k \in SubmitsOf(r) : \A j \in SubmitsOf(r) : j <= k) \in SubmitsOf(r)
    <3>1. \A j \in SubmitsOf(r) : j <= i
      BY <2>2, <2>3
    <3>. QED  BY <2>1, <3>1
  <2>5. (CHOOSE k \in SubmitsOf(r) : \A j \in SubmitsOf(r) : j <= k) = i
    BY <2>2, <2>4
  <2>. QED  BY <1>6, <2>1, <2>5
<1>10. /\ i \in DOMAIN files.log /\ ByChannel(files.log[i]) /\ files.log[i].request = r
  BY <1>7, <1>9 DEF SubmitsOf, ByChannel
<1>11. NumberOf(files.log[i]) = 1
  BY <1>1, <1>4, <1>8, <1>10 DEF Messages
<1>12. PICK j \in DOMAIN files.log :
         /\ files.log[j].id = cc.id
         /\ \A m \in (IF i < j THEN i..j ELSE j..i) : files.log[m].kind = "submit"
  BY <1>9 DEF BatchIds
<1>13. NumberOf(files.log[j]) = cc.number
  <2>1. numberOf[cc.lastId] = cc.lastNumber
    BY <1>1, PromptIdsAreIntegers DEF Numbers
  <2>. QED  BY <1>1, <1>12, <2>1 DEF NumberOf
<1>14. SUFFICES ASSUME cc.number # 1 PROVE FALSE
  OBVIOUS
<1>15. PICK k \in DOMAIN files.log : IsEnd(files.log[k]) /\ NumberOf(files.log[k]) = 1
  <2>1. 1 \in 1..cc.lastNumber
    BY <1>1
  <2>2. \E x \in Range(files.log) : IsEnd(x) /\ NumberOf(x) = 1
    BY <1>2, <1>14, <2>1 DEF Turn
  <2>. QED  BY <2>2 DEF Range
<1>16. i \in Nat /\ j \in Nat /\ k \in Nat
  BY <1>3, <1>10, <1>12, <1>15
<1>17. \A a, b \in DOMAIN files.log : a < b =>
         /\ NumberOf(files.log[a]) <= NumberOf(files.log[b])
         /\ IsEnd(files.log[a]) => NumberOf(files.log[a]) < NumberOf(files.log[b])
  <2>1. SUFFICES ASSUME NEW a \in DOMAIN files.log, NEW b \in DOMAIN files.log, a < b
                 PROVE  /\ NumberOf(files.log[a]) <= NumberOf(files.log[b])
                        /\ IsEnd(files.log[a]) => NumberOf(files.log[a]) < NumberOf(files.log[b])
    OBVIOUS
  <2>2. files.log[a].at < files.log[b].at /\ files.log[a] \in Recs /\ files.log[b] \in Recs
    BY <1>1, <1>4, <2>1 DEF Records
  <2>3. /\ files.log[a].id <= files.log[b].id /\ files.log[b].id <= cc.lastId
        /\ IsEnd(files.log[a]) => NumberOf(files.log[a]) < NumberOf(files.log[b])
    BY <1>1, <2>2 DEF Records
  <2>4. files.log[a].id \in PromptIds /\ files.log[b].id \in PromptIds
    BY <1>1, <2>2, RecordTypes
  <2>5. numberOf[files.log[a].id] <= numberOf[files.log[b].id]
    BY <1>1, <2>3, <2>4 DEF Numbers
  <2>. QED  BY <2>3, <2>5 DEF NumberOf
<1>18. ~(k < i) /\ ~(j < k) /\ ~(j < i)
  <2>1. cc.number \in Nat /\ cc.number > 1
    BY <1>1, <1>14
  <2>. QED  BY <1>10, <1>11, <1>12, <1>13, <1>15, <1>17, <2>1
<1>19. k \in (IF i < j THEN i..j ELSE j..i)
  BY <1>16, <1>18
<1>20. QED
  BY <1>12, <1>15, <1>19 DEF IsEnd

LEMMA StopStep ==
  ASSUME Inv, NEW background \in BOOLEAN, Stop(background)
  PROVE  Inv'
<1>1. /\ ~server.down /\ now' = now + 1 /\ cc.id # 0 /\ cc.taking = 0 /\ ~cc.call
      /\ ~RefusesStop(background) /\ cc' = [cc EXCEPT !.id = 0, !.number = 0]
      /\ UNCHANGED <<server, numberOf, served, taken, routed>>
  BY DEF Stop, Happens, CanCall, Idle
<1>2. /\ InTurn /\ cc.id \in PromptIds /\ now + 1 \in Nat /\ files \in FilesType /\ cc \in CodeType
  BY <1>1, CodeTypes
<1>3. KeptText \in Texts
  BY <1>2 DEF KeptText, Written, Texts, FilesType, CodeType
<1>4. PICK t \in Texts \cup {None} : t = IF Waiting(cc.id) # {} THEN KeptText ELSE None
  BY <1>3
<1>5. PICK x : x = [kind |-> "stop", id |-> cc.id, request |-> None, background |-> background,
                    text |-> t, at |-> now + 1]
  OBVIOUS
<1>6. x \in TurnEnds /\ x.kind = "stop" /\ x.id = cc.id /\ x.text = t /\ x.at = now + 1
  BY <1>2, <1>5, EndRecord
<1>7. x.background = background
  BY <1>5
<1>8. files' = [files EXCEPT !.stop = x, !.log = Append(@, x), !.nudge = None]
  BY <1>4, <1>5 DEF Stop
<1>9. /\ files' \in FilesType /\ files'.log = Append(files.log, x) /\ files'.activity = files.activity
      /\ files'.open = files.open /\ files'.stop = x
  <2>1. PICK v : v = Append(files.log, x)
    OBVIOUS
  <2>2. files.log \in Seq(Submits \cup TurnEnds)
    BY <1>2 DEF FilesType
  <2>3. v \in Seq(Submits \cup TurnEnds)
    BY <1>6, <2>1, <2>2
  <2>4. files' = [files EXCEPT !.stop = x, !.log = v, !.nudge = None]
    BY <1>8, <2>1
  <2>5. /\ files' \in FilesType /\ files'.log = v /\ files'.activity = files.activity
        /\ files'.open = files.open /\ files'.stop = x
    BY <1>2, <1>6, <2>3, <2>4 DEF FilesType
  <2>. QED  BY <2>1, <2>5
<1>10. ~x.background /\ x.text # None => Waiting(cc.id) # {} /\ cc.refused
  BY <1>1, <1>4, <1>6, <1>7 DEF RefusesStop
<1>11. ~x.background /\ x.text # None => x.text.number = cc.number
  <2>1. SUFFICES ASSUME ~x.background, x.text # None PROVE x.text.number = cc.number
    OBVIOUS
  <2>2. x.text = KeptText
    BY <1>4, <1>6, <1>10, <2>1
  <2>3. files.nudge.number = cc.number
    BY <1>1, <1>2, <1>10, <2>1 DEF InTurn
  <2>. QED  BY <2>2, <2>3 DEF KeptText, Written
<1>12. ASSUME NEW h \in Nat, Knows(server.state, h, 0)
       PROVE  FirstText(x)
  <2>1. ~x.background /\ x.text # None => cc.number = 1
    BY <1>1, <1>10, <1>12, WaitingIsFirst
  <2>. QED  BY <1>11, <2>1 DEF FirstText
<1>13. ~x.background /\ x.text # None => x.kind = "stop" /\ x.text.number = cc.number
  BY <1>6, <1>11
<1>14. \A h \in Nat : Knows(server.state, h, 0) => FirstText(x)
  BY <1>12
<1>15. QED
  BY <1>1, <1>6, <1>9, <1>13, <1>14, EndedKeeps

(* Esc once the server has read of a tool call of the turn.                *)
LEMMA InterruptStep ==
  ASSUME EarlyEsc = FALSE, Inv, Interrupt
  PROVE  Inv'
<1>1. /\ cc.id # 0 /\ cc.taking = 0 /\ cc' = [cc EXCEPT !.id = 0, !.number = 0, !.call = FALSE]
      /\ files.activity # None /\ files.activity.id = cc.id /\ server.activityRead = files.activity.at
      /\ UNCHANGED <<files, server, now, numberOf, served, taken, routed>>
  BY DEF Interrupt, CanCall, Idle
<1>2. cc \in CodeType /\ 0 \in 0..LastId
  BY ClaudeTurnsAssumption DEF Inv, ClaudeTypes, CodeType
<1>3. cc' \in CodeType
  BY <1>1, <1>2 DEF CodeType
<1>4. /\ cc'.queue = cc.queue /\ cc'.id = 0 /\ cc'.number = 0 /\ cc'.taking = cc.taking
      /\ cc'.lastId = cc.lastId /\ cc'.lastNumber = cc.lastNumber
  BY <1>1, <1>2 DEF CodeType
<1>5. ~cc'.call
  BY <1>1, <1>2 DEF CodeType
<1>6. CASE server.down
  BY <1>1, <1>3, <1>6, ServerIsDown
<1>7. CASE ~server.down
  <2>1. /\ ClaudeTypes /\ Numbers /\ Records /\ files \in FilesType /\ cc.id = cc.lastId
        /\ cc.id \in PromptIds /\ now \in Nat
    BY <1>1, <1>7, CodeTypes
  <2>2. TurnIsOver
    BY <1>1, <1>4 DEF TurnIsOver
  <2>3. ClaudeTypes'
    BY <1>1, <1>3, <2>1, <2>2, StepTypes DEF TurnMoves
  <2>4. Noted
    BY <1>1 DEF Noted
  <2>5. \A y \in Recs' : ~Happened(y)
    BY <1>1, <2>1, NoRecord
  <2>6. InTurn'
    <3>1. Len(cc'.queue) \in Nat
      BY <1>3 DEF CodeType
    <3>. QED  BY <1>1, <1>4, <1>5, <3>1 DEF InTurn
  <2>7. PICK h \in Nat, m \in 0..LastId : Horizon(h) /\ Knows(server.state, h, m)
    BY <1>7 DEF Inv
  <2>8. Position(server.state, h, m) /\ Turn(server.state, h, m)
    BY <2>7 DEF Knows, Follows
  <2>9. files.activity \in Recs /\ files.activity.at <= h
    BY <1>1, <2>7 DEF Recs, Horizon
  <2>10. m = cc.lastId /\ m # 0
    <3>1. files.activity.id <= m /\ m \in 0..cc.lastId /\ cc.lastId \in 0..LastId
      BY <1>2, <2>8, <2>9 DEF Position, CodeType
    <3>. QED  BY <1>1, <2>1, <3>1
  <2>11. numberOf[m] = cc.lastNumber
    BY <2>1, <2>10, PromptIdsAreIntegers DEF Numbers
  <2>12. ~server.state.current.batch
    <3>1. CASE server.state.current.id = m
      <4>1. files.activity.id = server.state.current.id
        BY <1>1, <2>1, <2>10, <3>1
      <4>. QED  BY <1>1, <2>8, <2>9, <4>1 DEF Turn
    <3>2. CASE server.state.current.id = 0
      BY <2>8, <3>2 DEF Turn, NoTurn
    <3>. QED  BY <2>8, <3>1, <3>2 DEF Position
  <2>13. EndKnown(server.state, m)
    BY <2>10, <2>11, <2>12 DEF EndKnown
  <2>14. TextsKept /\ (m = 0 => FirstTextsKept)
    BY <2>5 DEF TextsKept, FirstTextsKept
  <2>. QED
    BY <1>1, <1>4, <1>7, <2>2, <2>3, <2>4, <2>5, <2>6, <2>7, <2>13, <2>14, OverKeeps
<1>8. QED
  BY <1>6, <1>7

(* A step that gives a new prompt id.                                      *)
LEMMA NewIdKeeps ==
  ASSUME Inv, ~server.down, ClaudeTypes', InTurn', server' = server, routed' = routed,
         files'.open = files.open, files'.log # <<>>, TurnStarted \/ TurnJoined,
         Noted, QueueMoves, SubmitTakes, OpenersKept, FirstTurnsKept,
         \A y \in Recs' : Happened(y) => ~IsEnd(y)
  PROVE  Inv'
<1>1. PICK h \in Nat, m \in 0..LastId : Horizon(h) /\ Knows(server.state, h, m)
  BY DEF Inv
<1>2. cc'.id # 0
  <2>1. cc.lastId \in Nat
    BY CodeTypes, ClaudeTurnsAssumption DEF CodeType
  <2>. QED  BY <2>1 DEF TurnStarted, TurnJoined
<1>3. EndKnown(server.state, m)
  BY <1>2 DEF EndKnown
<1>4. TextsKept /\ FirstTextsKept
  BY DEF TextsKept, FirstTextsKept
<1>5. TurnMoves
  BY DEF TurnMoves
<1>6. QED
  BY <1>1, <1>3, <1>4, <1>5, ClaudeStepKeeps

NoFlags(d) == ~d.call /\ ~d.refused

AsNew(c, l, n, d) ==
  /\ d \in CodeType /\ d.queue = c.queue /\ d.taking = c.taking
  /\ d.id = l /\ d.number = n /\ d.lastId = l /\ d.lastNumber = n

LEMMA NewTurnUpdate ==
  ASSUME NEW c \in CodeType, NEW l \in 0..LastId, NEW n \in Nat, NEW d,
         d = [c EXCEPT !.id = l, !.lastId = l, !.number = n,
                       !.lastNumber = n, !.call = FALSE, !.calls = 0, !.refused = FALSE]
  PROVE  AsNew(c, l, n, d) /\ NoFlags(d)
<1>1. d \in CodeType
  BY DEF CodeType
<1>2. /\ d.queue = c.queue /\ d.taking = c.taking
      /\ d.id = l /\ d.number = n /\ d.lastId = l /\ d.lastNumber = n
  BY DEF CodeType
<1>3. NoFlags(d)
  BY DEF CodeType, NoFlags
<1>4. QED
  BY <1>1, <1>2, <1>3 DEF AsNew

LEMMA TurnStarts ==
  ASSUME cc \in CodeType, cc.id = 0, NEW c \in CodeType,
         c.lastId = cc.lastId, c.lastNumber = cc.lastNumber, NewTurn(c, TRUE) \/ NewTurn(c, FALSE)
  PROVE  TurnStarted /\ cc' \in CodeType /\ cc'.queue = c.queue /\ cc'.taking = c.taking /\ NoFlags(cc')
<1>1. cc.lastId < LastId /\ cc.lastId \in 0..LastId /\ cc.lastNumber \in Nat /\ LastId \in Nat
  <2>1. cc.lastId < LastId
    BY DEF NewTurn
  <2>2. cc.lastId \in 0..LastId /\ cc.lastNumber \in Nat
    BY DEF CodeType
  <2>. QED  BY <2>1, <2>2, ClaudeTurnsAssumption
<1>2. PICK l, n, d : /\ l = cc.lastId + 1 /\ n = cc.lastNumber + 1 /\ d = cc'
                     /\ l \in 0..LastId /\ n \in Nat
  BY <1>1
<1>3. /\ l \in 0..LastId /\ n \in Nat
      /\ d = [c EXCEPT !.id = l, !.lastId = l, !.number = n,
                       !.lastNumber = n, !.call = FALSE, !.calls = 0, !.refused = FALSE]
  <2>1. cc' = [c EXCEPT !.id = cc.lastId + 1, !.lastId = @ + 1, !.number = cc.lastNumber + 1,
                        !.lastNumber = @ + 1, !.call = FALSE, !.calls = 0, !.refused = FALSE]
    BY DEF NewTurn
  <2>2. PICK f, e : f = c.lastId /\ e = c.lastNumber
    OBVIOUS
  <2>3. cc' = [c EXCEPT !.id = cc.lastId + 1, !.lastId = f + 1, !.number = cc.lastNumber + 1,
                        !.lastNumber = e + 1, !.call = FALSE, !.calls = 0, !.refused = FALSE]
    BY <2>1, <2>2
  <2>. QED  BY <1>2, <2>2, <2>3
<1>4. AsNew(c, l, n, d) /\ NoFlags(d)
  BY <1>3, NewTurnUpdate
<1>5. /\ numberOf' = [numberOf EXCEPT ![cc.lastId + 1] = cc.lastNumber + 1]
      /\ served' = served \/ served' = served \cup {cc.lastNumber + 1}
  BY DEF NewTurn
<1>6. TurnStarted
  BY <1>1, <1>2, <1>4, <1>5 DEF TurnStarted, AsNew
<1>7. QED
  BY <1>2, <1>4, <1>6 DEF AsNew

(* Between turns, and what a turn that no message starts leaves.           *)
LEMMA IdleTypes ==
  ASSUME Inv, ~server.down, cc.id = 0
  PROVE  /\ ClaudeTypes /\ Numbers /\ InTurn /\ Queue /\ Records /\ cc \in CodeType
         /\ files \in FilesType /\ now + 1 \in Nat /\ cc.number = 0 /\ cc.taking = 0
         /\ cc.lastNumber \in Nat /\ served \subseteq 1..cc.lastNumber
<1>1. /\ ClaudeTypes /\ Numbers /\ InTurn /\ Queue /\ Records /\ cc \in CodeType
      /\ files \in FilesType /\ now + 1 \in Nat
  BY CodeTypes
<1>2. cc.taking \in Nat /\ cc.lastNumber \in Nat
  BY <1>1 DEF CodeType
<1>3. cc.number = 0 /\ served \subseteq 1..cc.lastNumber
  BY <1>1 DEF Numbers
<1>4. cc.taking = 0
  BY <1>1, <1>2 DEF InTurn
<1>5. QED
  BY <1>1, <1>2, <1>3, <1>4

LEMMA LocalStart ==
  ASSUME Inv, ~server.down, cc.id = 0, TurnStarted, served' = served, taken' = taken,
         cc'.taking = cc.taking, NoFlags(cc'), cc' \in CodeType,
         cc.lastNumber = 0 => cc.queue = <<>>
  PROVE  OpenersKept /\ FirstTurnsKept /\ InTurn'
<1>1. /\ ClaudeTypes /\ Queue /\ cc.number = 0 /\ cc.taking = 0
      /\ cc.lastNumber \in Nat /\ served \subseteq 1..cc.lastNumber
  BY IdleTypes
<1>2. OpenersKept
  BY <1>1 DEF OpenersKept, TurnStarted
<1>3. FirstTurnsKept
  <2>1. SUFFICES ASSUME NEW r \in Requests, FirstTurn(r) PROVE FirstTurn(r)'
    BY DEF FirstTurnsKept
  <2>2. ~(cc.lastNumber = 0 /\ \E i \in DOMAIN cc.queue : cc.queue[i] = r)
    OBVIOUS
  <2>3. taken[r] # None /\ taken[r].number = 1
    BY <1>1, <2>1, <2>2 DEF FirstTurn
  <2>. QED  BY <2>3 DEF FirstTurn
<1>4. InTurn'
  <2>1. Len(cc'.queue) \in Nat
    BY DEF CodeType
  <2>. QED  BY <1>1, <2>1 DEF InTurn, NoFlags
<1>5. QED
  BY <1>2, <1>3, <1>4

(* Text typed between turns.                                               *)
LEMMA TypeNowStep ==
  ASSUME Inv, Type, Idle
  PROVE  Inv'
<1>1. /\ ~server.down /\ now' = now + 1 /\ cc.id = 0 /\ cc.taking = 0 /\ cc.queue = <<>>
      /\ NewTurn([cc EXCEPT !.typed = @ + 1], FALSE) /\ Logs(Submit(cc.lastId + 1, None))
      /\ UNCHANGED <<server, taken, routed>>
  BY DEF Type, Happens, Idle
<1>2. /\ ClaudeTypes /\ Numbers /\ InTurn /\ Queue /\ Records /\ cc \in CodeType /\ files \in FilesType
      /\ now + 1 \in Nat /\ cc.lastNumber \in Nat
  BY <1>1, IdleTypes
<1>3. PICK c \in CodeType : /\ NewTurn(c, FALSE) /\ c.lastId = cc.lastId /\ c.lastNumber = cc.lastNumber
                            /\ c.queue = cc.queue /\ c.taking = cc.taking
  <2>1. PICK c : c = [cc EXCEPT !.typed = @ + 1]
    OBVIOUS
  <2>2. /\ c \in CodeType /\ c.lastId = cc.lastId /\ c.lastNumber = cc.lastNumber
        /\ c.queue = cc.queue /\ c.taking = cc.taking
    BY <1>2, <2>1 DEF CodeType
  <2>. QED  BY <1>1, <2>1, <2>2
<1>4. TurnStarted /\ cc' \in CodeType /\ cc'.queue = cc.queue /\ cc'.taking = cc.taking /\ NoFlags(cc')
  BY <1>1, <1>2, <1>3, TurnStarts
<1>5. served' = served
  BY <1>3 DEF NewTurn
<1>6. cc.lastId + 1 \in PromptIds
  BY <1>2, <1>4, PromptIdsAreIntegers DEF TurnStarted, CodeType
<1>7. PICK x : /\ x = Submit(cc.lastId + 1, None) /\ x \in Submits /\ x.id = cc.lastId + 1
               /\ x.at = now + 1 /\ ~ByChannel(x) /\ ~IsEnd(x) /\ x.kind = "submit"
  BY <1>2, <1>6, SubmitRecord
<1>8. files' \in FilesType /\ files'.log = Append(files.log, x) /\ SameFiles(files, files')
  <2>1. files' = [files EXCEPT !.log = Append(@, x)]
    BY <1>1, <1>7 DEF Logs
  <2>. QED  BY <1>2, <1>7, <2>1, LogUpdate
<1>9. ClaudeTypes'
  BY <1>1, <1>2, <1>4, <1>8, StepTypes DEF TurnMoves
<1>10. Happened(x)
  BY <1>1, <1>2, <1>4, <1>7 DEF Happened, TurnStarted
<1>11. Appends(x)
  BY <1>7, <1>8, <1>10 DEF Appends, SameFiles
<1>12. Noted
  BY <1>1, <1>8, <1>11 DEF Noted, SameFiles
<1>13. x \in Recs' /\ files'.log # <<>>
  BY <1>2, <1>7, <1>8, AppendedRecord
<1>14. \A y \in Recs' : Happened(y) => y = x
  BY <1>2, <1>10, <1>12, <1>13, OneRecord
<1>15. QueueMoves /\ SubmitTakes /\ \A y \in Recs' : Happened(y) => ~IsEnd(y)
  BY <1>1, <1>4, <1>7, <1>14 DEF QueueMoves, SubmitTakes
<1>16. OpenersKept /\ FirstTurnsKept /\ InTurn'
  BY <1>1, <1>4, <1>5, LocalStart
<1>17. files'.open = files.open
  BY <1>8 DEF SameFiles
<1>18. QED
  BY <1>1, <1>4, <1>9, <1>12, <1>13, <1>15, <1>16, <1>17, NewIdKeeps

(* A turn nothing announces.                                               *)
LEMMA BeginUnannouncedStep ==
  ASSUME Inv, BeginUnannounced
  PROVE  Inv'
<1>1. /\ ~server.down /\ now' = now + 1 /\ cc.id = 0 /\ UNCHANGED <<files, server, taken, routed>>
      /\ \/ cc.queue # <<>> /\ Head(cc.queue) = "typed" /\ NewTurn([cc EXCEPT !.queue = Tail(@)], FALSE)
         \/ cc.queue = <<>> /\ cc.lastNumber > 0 /\ NewTurn([cc EXCEPT !.typed = @ + 1], FALSE)
  BY DEF BeginUnannounced, Happens, Idle
<1>2. /\ ClaudeTypes /\ Numbers /\ InTurn /\ Queue /\ Records /\ cc \in CodeType /\ files \in FilesType
      /\ now + 1 \in Nat /\ cc.lastNumber \in Nat /\ cc.taking = 0
  BY <1>1, IdleTypes
<1>3. PICK c \in CodeType : /\ NewTurn(c, FALSE) /\ c.lastId = cc.lastId /\ c.lastNumber = cc.lastNumber
                            /\ c.taking = cc.taking
                            /\ \/ c.queue = cc.queue
                               \/ cc.queue # <<>> /\ Head(cc.queue) = "typed" /\ c.queue = Tail(cc.queue)
  <2>1. CASE cc.queue # <<>> /\ Head(cc.queue) = "typed" /\ NewTurn([cc EXCEPT !.queue = Tail(@)], FALSE)
    <3>1. PICK c : c = [cc EXCEPT !.queue = Tail(@)]
      OBVIOUS
    <3>2. cc.queue \in Seq(Requests \cup {"typed"})
      BY <1>2 DEF CodeType
    <3>3. Tail(cc.queue) \in Seq(Requests \cup {"typed"})
      BY <2>1, <3>2
    <3>4. /\ c \in CodeType /\ c.lastId = cc.lastId /\ c.lastNumber = cc.lastNumber
          /\ c.queue = Tail(cc.queue) /\ c.taking = cc.taking
      BY <1>2, <3>1, <3>3 DEF CodeType
    <3>. QED  BY <2>1, <3>1, <3>4
  <2>2. CASE NewTurn([cc EXCEPT !.typed = @ + 1], FALSE)
    <3>1. PICK c : c = [cc EXCEPT !.typed = @ + 1]
      OBVIOUS
    <3>2. /\ c \in CodeType /\ c.lastId = cc.lastId /\ c.lastNumber = cc.lastNumber
          /\ c.queue = cc.queue /\ c.taking = cc.taking
      BY <1>2, <3>1 DEF CodeType
    <3>. QED  BY <2>2, <3>1, <3>2
  <2>. QED  BY <1>1, <2>1, <2>2
<1>4. TurnStarted /\ cc' \in CodeType /\ cc'.queue = c.queue /\ cc'.taking = cc.taking /\ NoFlags(cc')
  BY <1>1, <1>2, <1>3, TurnStarts
<1>5. served' = served
  BY <1>3 DEF NewTurn
<1>6. ClaudeTypes'
  BY <1>1, <1>2, <1>4, StepTypes DEF TurnMoves
<1>7. Noted
  BY <1>1 DEF Noted
<1>8. \A y \in Recs' : ~Happened(y)
  BY <1>1, <1>2, NoRecord
<1>9. QueueMoves /\ SubmitTakes /\ \A y \in Recs' : Happened(y) => ~IsEnd(y)
  BY <1>1, <1>3, <1>4, <1>8 DEF QueueMoves, SubmitTakes
<1>10. cc.lastNumber > 0
  <2>1. cc.queue # <<>> /\ Head(cc.queue) = "typed" => cc.queue[1] = "typed" /\ 1 \in DOMAIN cc.queue
    BY <1>2, QueueTypes
  <2>2. CASE cc.queue # <<>> /\ Head(cc.queue) = "typed"
    <3>1. cc.lastNumber # 0
      BY <1>2, <2>1, <2>2 DEF Queue
    <3>. QED  BY <1>2, <3>1
  <2>. QED  BY <1>1, <2>2
<1>11. files'.log # <<>>
  BY <1>1, <1>2, <1>10 DEF Queue
<1>12. OpenersKept /\ FirstTurnsKept /\ InTurn'
  <2>1. cc.lastNumber # 0
    BY <1>2, <1>10
  <2>. QED  BY <1>1, <1>4, <1>5, <2>1, LocalStart
<1>13. QED
  BY <1>1, <1>4, <1>6, <1>7, <1>9, <1>11, <1>12, NewIdKeeps

(* A channel message is taken by its submit: what is known of the record.  *)
LEMMA SubmitTaken ==
  ASSUME ClaudeTypes, ClaudeTypes', Records, cc.queue # <<>>, Head(cc.queue) # "typed",
         cc'.queue = Tail(cc.queue), cc'.lastId \in PromptIds, now + 1 \in Nat, now' = now + 1,
         taken' = [taken EXCEPT ![Head(cc.queue)] = [number |-> cc'.lastNumber, at |-> now + 1]],
         Logs(Submit(cc'.lastId, Head(cc.queue)))
  PROVE  /\ HeadTaken /\ QueueMoves /\ SubmitTakes /\ Noted /\ OpenersKept
         /\ files'.open = files.open /\ files'.nudge = files.nudge /\ files'.log # <<>>
         /\ \A y \in Recs' : Happened(y) => ~IsEnd(y)
<1>1. Head(cc.queue) \in Requests /\ files \in FilesType
  <2>1. files \in FilesType
    BY DEF ClaudeTypes, FilesType
  <2>2. Head(cc.queue) = cc.queue[1] /\ 1 \in 1..Len(cc.queue)
    BY QueueTypes
  <2>3. cc.queue[1] # "typed"
    BY <2>2
  <2>4. Head(cc.queue) \in Requests
    BY <2>2, <2>3, QueueTypes
  <2>. QED  BY <2>1, <2>4
<1>2. PICK x : /\ x = Submit(cc'.lastId, Head(cc.queue)) /\ x \in Submits /\ x.id = cc'.lastId
               /\ x.at = now + 1 /\ ByChannel(x) /\ ~IsEnd(x) /\ x.request = Head(cc.queue)
               /\ x.kind = "submit"
  <2>1. Head(cc.queue) # None
    BY <1>1, NoneIsNothing
  <2>2. ASSUME NEW i \in PromptIds, NEW r \in Requests, r # None
        PROVE  /\ Submit(i, r) \in Submits /\ Submit(i, r).id = i /\ Submit(i, r).at = now + 1
               /\ ByChannel(Submit(i, r)) /\ ~IsEnd(Submit(i, r)) /\ Submit(i, r).request = r
               /\ Submit(i, r).kind = "submit"
    BY <2>2, SubmitRecord
  <2>. QED  BY <1>1, <2>1, <2>2
<1>3. /\ files' \in FilesType /\ files'.log = Append(files.log, x) /\ SameFiles(files, files')
  <2>1. files' = [files EXCEPT !.log = Append(@, x)]
    BY <1>2 DEF Logs
  <2>. QED  BY <1>1, <1>2, <2>1, LogUpdate
<1>4. Happened(x)
  BY <1>2 DEF Happened
<1>5. Appends(x)
  BY <1>2, <1>3, <1>4 DEF Appends, SameFiles
<1>6. Noted
  BY <1>3, <1>5 DEF Noted, SameFiles
<1>7. x \in Recs' /\ x \in Range(files'.log) /\ files'.log # <<>>
  BY <1>2, <1>3, AppendedRecord
<1>8. \A y \in Recs' : Happened(y) => y = x
  BY <1>4, <1>6, <1>7, OneRecord
<1>9. HeadTaken
  BY <1>2, <1>7 DEF HeadTaken
<1>10. QueueMoves /\ SubmitTakes /\ \A y \in Recs' : Happened(y) => ~IsEnd(y)
  BY <1>2, <1>8, <1>9 DEF QueueMoves, SubmitTakes
<1>11. OpenersKept
  BY <1>2, <1>4, <1>7 DEF OpenersKept
<1>12. QED
  BY <1>3, <1>6, <1>7, <1>9, <1>10, <1>11 DEF SameFiles

\* files as they are after a submit.
LEMMA SubmitLogged ==
  ASSUME files \in FilesType, NEW i \in PromptIds, NEW r \in Requests, now + 1 \in Nat,
         Logs(Submit(i, r))
  PROVE  files' \in FilesType
<1>1. PICK x : x = Submit(i, r) /\ x \in Submits
  BY SubmitRecord
<1>2. files' = [files EXCEPT !.log = Append(@, x)]
  BY <1>1 DEF Logs
<1>3. QED
  BY <1>1, <1>2, LogUpdate

(* The first of the messages that wait together is taken.                  *)
LEMMA TakeFirstStep ==
  ASSUME Inv, TakeFirst
  PROVE  Inv'
<1>1. /\ ~server.down /\ now' = now + 1 /\ cc.id = 0
      /\ Logs(Submit(cc.lastId + 1, Head(cc.queue))) /\ TakenInto(Head(cc.queue), cc.lastNumber + 1)
      /\ UNCHANGED <<server, routed>>
  BY DEF TakeFirst, Happens, Idle
<1>2. PICK n \in DOMAIN cc.queue :
        Together(cc.queue, n) /\ NewTurn([cc EXCEPT !.queue = Tail(@), !.taking = n - 1], TRUE)
  BY DEF TakeFirst
<1>3. /\ ClaudeTypes /\ Numbers /\ InTurn /\ Queue /\ Records /\ cc \in CodeType /\ files \in FilesType
      /\ now + 1 \in Nat /\ cc.lastNumber \in Nat /\ cc.taking = 0 /\ cc.number = 0
  BY <1>1, IdleTypes
<1>4. /\ n \in 1..Len(cc.queue) /\ Len(cc.queue) \in Nat /\ cc.queue # <<>> /\ n - 1 \in Nat
      /\ cc.queue \in Seq(Requests \cup {"typed"}) /\ DOMAIN cc.queue = 1..Len(cc.queue)
      /\ Head(cc.queue) = cc.queue[1] /\ cc.queue[1] # "typed" /\ Head(cc.queue) \in Requests
  <2>1. cc.queue \in Seq(Requests \cup {"typed"})
    BY <1>3 DEF CodeType
  <2>2. n \in 1..Len(cc.queue) /\ Len(cc.queue) \in Nat /\ cc.queue # <<>> /\ n - 1 \in Nat
    BY <2>1
  <2>3. Head(cc.queue) = cc.queue[1] /\ 1 \in 1..n
    BY <1>3, <2>2, QueueTypes
  <2>4. cc.queue[1] # "typed"
    BY <1>2, <2>3 DEF Together
  <2>. QED  BY <1>3, <2>1, <2>2, <2>3, <2>4, QueueTypes
<1>5. PICK c \in CodeType : /\ NewTurn(c, TRUE) /\ c.lastId = cc.lastId /\ c.lastNumber = cc.lastNumber
                            /\ c.queue = Tail(cc.queue) /\ c.taking = n - 1
  <2>1. PICK c, k, q : /\ c = [cc EXCEPT !.queue = q, !.taking = k]
                       /\ k = n - 1 /\ q = Tail(cc.queue)
    OBVIOUS
  <2>2. k \in Nat /\ q \in Seq(Requests \cup {"typed"})
    BY <1>4, <2>1
  <2>3. /\ c \in CodeType /\ c.lastId = cc.lastId /\ c.lastNumber = cc.lastNumber
        /\ c.queue = q /\ c.taking = k
    BY <1>3, <2>1, <2>2 DEF CodeType
  <2>4. NewTurn(c, TRUE)
    BY <1>2, <2>1
  <2>. QED  BY <2>1, <2>3, <2>4
<1>6. TurnStarted /\ cc' \in CodeType /\ cc'.queue = Tail(cc.queue) /\ cc'.taking = n - 1 /\ NoFlags(cc')
  BY <1>1, <1>3, <1>5, TurnStarts
<1>7. served' = served \cup {cc.lastNumber + 1}
  BY <1>5 DEF NewTurn
<1>8. cc'.lastId = cc.lastId + 1 /\ cc'.lastNumber = cc.lastNumber + 1 /\ cc'.lastId \in PromptIds
  <2>1. cc'.lastId = cc.lastId + 1 /\ cc'.lastNumber = cc.lastNumber + 1 /\ cc.lastId < LastId
    BY <1>6 DEF TurnStarted
  <2>2. cc.lastId \in 0..LastId
    BY <1>3 DEF CodeType
  <2>3. cc.lastId + 1 \in 0..LastId /\ cc.lastId + 1 # 0
    BY <2>1, <2>2, PromptIdsAreIntegers
  <2>. QED  BY <2>1, <2>3, PromptIdsAreIntegers
<1>9. files' \in FilesType
  BY <1>1, <1>3, <1>4, <1>8, SubmitLogged
<1>10. taken' = [taken EXCEPT ![Head(cc.queue)] = [number |-> cc'.lastNumber, at |-> now + 1]]
  BY <1>1, <1>8 DEF TakenInto
<1>11. ClaudeTypes'
  BY <1>1, <1>3, <1>6, <1>9, <1>10, StepTypes DEF TurnMoves
<1>12. Logs(Submit(cc'.lastId, Head(cc.queue)))
  BY <1>1, <1>8
<1>13. /\ HeadTaken /\ QueueMoves /\ SubmitTakes /\ Noted /\ OpenersKept
       /\ files'.open = files.open /\ files'.nudge = files.nudge /\ files'.log # <<>>
       /\ \A y \in Recs' : Happened(y) => ~IsEnd(y)
  BY <1>1, <1>3, <1>4, <1>6, <1>8, <1>10, <1>11, <1>12, SubmitTaken
<1>14. /\ Len(cc'.queue) = Len(cc.queue) - 1
       /\ \A i \in 1..(Len(cc.queue) - 1) : cc'.queue[i] = cc.queue[i + 1]
  BY <1>3, <1>4, <1>6, TailOfQueue
<1>15. TakenGrows
  BY <1>3, <1>11, <1>13, TakenMoves
<1>16. FirstTurnsKept
  <2>1. SUFFICES ASSUME NEW r \in Requests, FirstTurn(r) PROVE FirstTurn(r)'
    BY DEF FirstTurnsKept
  <2>2. CASE taken[r] # None /\ taken[r].number = 1
    BY <1>15, <2>2 DEF FirstTurn, TakenGrows
  <2>3. CASE cc.lastNumber = 0 /\ \E i \in DOMAIN cc.queue : cc.queue[i] = r
    <3>1. PICK i \in 1..Len(cc.queue) : cc.queue[i] = r
      BY <1>4, <2>3
    <3>2. n = Len(cc.queue)
      <4>1. SUFFICES ASSUME n # Len(cc.queue) PROVE FALSE
        OBVIOUS
      <4>2. n + 1 \in DOMAIN cc.queue /\ n < Len(cc.queue)
        BY <1>4, <4>1
      <4>3. cc.queue[n + 1] # "typed"
        BY <1>3, <2>3, <4>2 DEF Queue
      <4>. QED  BY <1>2, <4>2, <4>3 DEF Together
    <3>3. CASE i = 1
      <4>1. taken'[r] # None /\ taken'[r].number = cc'.lastNumber
        BY <1>3, <1>4, <1>11, <1>13, <3>1, <3>3, HeadIsNew
      <4>. QED  BY <1>8, <2>3, <4>1 DEF FirstTurn
    <3>4. CASE i # 1
      <4>1. PICK j \in 1..(n - 1) : i = j + 1
        <5>1. i - 1 \in 1..(n - 1) /\ i = (i - 1) + 1
          BY <1>4, <3>1, <3>2, <3>4
        <5>. QED  BY <5>1
      <4>2. cc'.queue[j] = r
        BY <1>14, <3>1, <3>2, <4>1
      <4>3. cc'.number = 1 /\ j \in 1..cc'.taking
        BY <1>6, <2>3, <4>1 DEF TurnStarted
      <4>. QED  BY <4>2, <4>3 DEF FirstTurn
    <3>. QED  BY <3>3, <3>4
  <2>. QED  BY <1>3, <2>1, <2>2, <2>3 DEF FirstTurn
<1>17. InTurn'
  <2>1. cc'.taking <= Len(cc'.queue)
    BY <1>4, <1>6, <1>14
  <2>2. \A i \in 1..cc'.taking : cc'.queue[i] # "typed"
    <3>1. SUFFICES ASSUME NEW i \in 1..(n - 1) PROVE cc'.queue[i] # "typed"
      BY <1>6
    <3>2. i \in 1..(Len(cc.queue) - 1) /\ i + 1 \in 1..n
      BY <1>4
    <3>. QED  BY <1>2, <1>14, <3>2 DEF Together
  <2>3. cc'.id # 0 /\ cc'.number \in served'
    BY <1>3, <1>6, <1>7, <1>8, PromptIdsAreIntegers DEF TurnStarted
  <2>. QED  BY <1>6, <2>1, <2>2, <2>3 DEF InTurn, NoFlags
<1>18. QED
  BY <1>1, <1>6, <1>11, <1>13, <1>16, <1>17, NewIdKeeps

(* One of the others that were taken together.                             *)
LEMMA TakeAlsoStep ==
  ASSUME Inv, TakeAlso
  PROVE  Inv'
<1>1. /\ ~server.down /\ now' = now + 1 /\ cc.taking > 0 /\ cc.lastId < LastId
      /\ cc' = [cc EXCEPT !.queue = Tail(@), !.taking = @ - 1, !.id = cc.lastId + 1, !.lastId = @ + 1]
      /\ numberOf' = [numberOf EXCEPT ![cc.lastId + 1] = cc.number]
      /\ Logs(Submit(cc.lastId + 1, Head(cc.queue))) /\ TakenInto(Head(cc.queue), cc.number)
      /\ UNCHANGED <<server, served, routed>>
  BY DEF TakeAlso, Happens
<1>2. /\ ClaudeTypes /\ Numbers /\ InTurn /\ Queue /\ Records /\ cc \in CodeType /\ files \in FilesType
      /\ now + 1 \in Nat
  BY <1>1, CodeTypes
<1>3. /\ cc.id # 0 /\ ~cc.call /\ cc.number \in served /\ cc.taking <= Len(cc.queue)
      /\ \A i \in 1..cc.taking : cc.queue[i] # "typed"
  BY <1>1, <1>2 DEF InTurn
<1>4. cc.number = cc.lastNumber /\ cc.lastNumber > 0
  BY <1>1, <1>3, CodeTypes
<1>5. cc.taking \in Nat /\ cc.lastId \in 0..LastId /\ cc.queue \in Seq(Requests \cup {"typed"})
  BY <1>2 DEF CodeType
<1>6. /\ Len(cc.queue) \in Nat /\ cc.queue # <<>> /\ 1 \in 1..cc.taking
      /\ Tail(cc.queue) \in Seq(Requests \cup {"typed"})
  BY <1>1, <1>3, <1>5
<1>7. Head(cc.queue) = cc.queue[1] /\ Head(cc.queue) # "typed" /\ Head(cc.queue) \in Requests
  <2>1. Head(cc.queue) = cc.queue[1] /\ 1 \in 1..Len(cc.queue)
    BY <1>2, <1>6, QueueTypes
  <2>2. cc.queue[1] # "typed"
    BY <1>3, <1>6
  <2>3. cc.queue[1] \in Requests
    BY <1>2, <2>1, <2>2, QueueTypes
  <2>. QED  BY <2>1, <2>2, <2>3
<1>8. cc.lastId + 1 \in 0..LastId /\ cc.lastId + 1 # 0 /\ cc.lastId + 1 \in PromptIds
  <2>1. cc.lastId + 1 \in 0..LastId /\ cc.lastId + 1 # 0
    BY <1>1, <1>5, PromptIdsAreIntegers
  <2>. QED  BY <2>1, PromptIdsAreIntegers
<1>9. PICK k, l, q : /\ k = cc.taking - 1 /\ l = cc.lastId + 1 /\ q = Tail(cc.queue)
  OBVIOUS
<1>10. /\ k \in Nat /\ l \in 0..LastId /\ q \in Seq(Requests \cup {"typed"})
       /\ cc' = [cc EXCEPT !.queue = q, !.taking = k, !.id = l, !.lastId = l]
  <2>1. k \in Nat
    BY <1>1, <1>5, <1>9
  <2>2. l \in 0..LastId /\ q \in Seq(Requests \cup {"typed"})
    BY <1>6, <1>8, <1>9
  <2>3. cc' = [cc EXCEPT !.queue = q, !.taking = k, !.id = l, !.lastId = l]
    BY <1>1, <1>9
  <2>. QED  BY <2>1, <2>2, <2>3
<1>11. cc' \in CodeType
  BY <1>2, <1>10 DEF CodeType
<1>12. /\ cc'.queue = Tail(cc.queue) /\ cc'.taking = cc.taking - 1 /\ cc'.id = cc.lastId + 1
       /\ cc'.lastId = cc.lastId + 1 /\ cc'.number = cc.number /\ cc'.lastNumber = cc.lastNumber
  <2>1. /\ cc'.queue = q /\ cc'.taking = k /\ cc'.id = l
        /\ cc'.lastId = l /\ cc'.number = cc.number /\ cc'.lastNumber = cc.lastNumber
    BY <1>2, <1>10 DEF CodeType
  <2>. QED  BY <1>9, <2>1
<1>13. SameFlags(cc, cc')
  BY <1>2, <1>10 DEF CodeType, SameFlags
<1>14. TurnJoined
  BY <1>1, <1>12 DEF TurnJoined
<1>15. files' \in FilesType
  BY <1>1, <1>2, <1>7, <1>8, SubmitLogged
<1>16. taken' = [taken EXCEPT ![Head(cc.queue)] = [number |-> cc'.lastNumber, at |-> now + 1]]
  BY <1>1, <1>4, <1>12 DEF TakenInto
<1>17. ClaudeTypes'
  BY <1>1, <1>2, <1>11, <1>14, <1>15, <1>16, StepTypes DEF TurnMoves
<1>18. Logs(Submit(cc'.lastId, Head(cc.queue))) /\ cc'.lastId \in PromptIds
  BY <1>1, <1>8, <1>12
<1>19. /\ HeadTaken /\ QueueMoves /\ SubmitTakes /\ Noted /\ OpenersKept
       /\ files'.open = files.open /\ files'.nudge = files.nudge /\ files'.log # <<>>
       /\ \A y \in Recs' : Happened(y) => ~IsEnd(y)
  BY <1>1, <1>2, <1>6, <1>7, <1>12, <1>16, <1>17, <1>18, SubmitTaken
<1>20. /\ Len(cc'.queue) = Len(cc.queue) - 1
       /\ \A i \in 1..(Len(cc.queue) - 1) : cc'.queue[i] = cc.queue[i + 1]
  BY <1>2, <1>6, <1>12, TailOfQueue
<1>21. TakenGrows
  BY <1>2, <1>17, <1>19, TakenMoves
<1>22. FirstTurnsKept
  <2>1. SUFFICES ASSUME NEW r \in Requests, FirstTurn(r) PROVE FirstTurn(r)'
    BY DEF FirstTurnsKept
  <2>2. CASE taken[r] # None /\ taken[r].number = 1
    BY <1>21, <2>2 DEF FirstTurn, TakenGrows
  <2>3. CASE cc.number = 1 /\ \E i \in 1..cc.taking : cc.queue[i] = r
    <3>1. PICK i \in 1..cc.taking : cc.queue[i] = r
      BY <2>3
    <3>2. CASE i = 1
      <4>1. taken'[r] # None /\ taken'[r].number = cc'.lastNumber
        BY <1>2, <1>7, <1>17, <1>19, <3>1, <3>2, HeadIsNew
      <4>. QED  BY <1>4, <1>12, <2>3, <4>1 DEF FirstTurn
    <3>3. CASE i # 1
      <4>1. PICK j \in 1..(cc.taking - 1) : i = j + 1
        <5>1. i - 1 \in 1..(cc.taking - 1) /\ i = (i - 1) + 1
          BY <1>5, <3>1, <3>3
        <5>. QED  BY <5>1
      <4>2. j \in 1..(Len(cc.queue) - 1)
        BY <1>3, <1>5, <1>6
      <4>3. cc'.queue[j] = r
        BY <1>20, <3>1, <4>1, <4>2
      <4>4. cc'.number = 1 /\ j \in 1..cc'.taking
        BY <1>12, <2>3
      <4>. QED  BY <4>3, <4>4 DEF FirstTurn
    <3>. QED  BY <3>2, <3>3
  <2>4. cc.lastNumber # 0
    BY <1>2, <1>4 DEF CodeType
  <2>. QED  BY <2>1, <2>2, <2>3, <2>4 DEF FirstTurn
<1>23. InTurn'
  <2>1. cc'.taking <= Len(cc'.queue)
    BY <1>3, <1>5, <1>6, <1>12, <1>20
  <2>2. \A i \in 1..cc'.taking : cc'.queue[i] # "typed"
    <3>1. SUFFICES ASSUME NEW i \in 1..(cc.taking - 1) PROVE cc'.queue[i] # "typed"
      BY <1>12
    <3>2. i \in 1..(Len(cc.queue) - 1) /\ i + 1 \in 1..cc.taking
      BY <1>3, <1>5, <1>6
    <3>. QED  BY <1>3, <1>20, <3>2
  <2>3. cc'.id # 0 /\ cc'.number \in served'
    BY <1>1, <1>3, <1>8, <1>12
  <2>4. ~cc'.call /\ (cc'.refused => cc.refused)
    BY <1>3, <1>13 DEF SameFlags
  <2>5. cc'.refused => files'.nudge # None /\ files'.nudge.number = cc'.number
    BY <1>2, <1>3, <1>12, <1>19, <2>4 DEF InTurn
  <2>. QED  BY <2>1, <2>2, <2>3, <2>4, <2>5 DEF InTurn
<1>24. QED
  BY <1>1, <1>14, <1>17, <1>19, <1>22, <1>23, NewIdKeeps

(* At the start nothing is known, and nothing has happened.                *)
LEMMA StartsTyped ==
  ASSUME ClaudeInit
  PROVE  ClaudeTypes
<1>1. NoTurn \in OpenTurns /\ NotDelivered \in Deliveries
  <2>1. 0 \in 0..LastId
    BY ClaudeTurnsAssumption
  <2>2. NoTurn \in OpenTurns
    BY <2>1 DEF NoTurn, OpenTurns
  <2>3. NotDelivered \in Deliveries
    BY <2>1 DEF NotDelivered, Deliveries
  <2>. QED  BY <2>2, <2>3
<1>2. ServerStart \in Servers
  <2>1. 0 \in 0..LastId /\ \A i \in PromptIds : i \in PromptIds
    BY ClaudeTurnsAssumption
  <2>2. /\ [i \in PromptIds |-> None] \in [PromptIds -> Seq(Requests) \cup {None}]
        /\ [r \in Requests |-> 0] \in [Requests -> 0..LastId]
        /\ [i \in PromptIds |-> i] \in [PromptIds -> PromptIds]
    BY <2>1
  <2>3. <<>> \in Seq([event : {"started", "ended"}, id : PromptIds])
    OBVIOUS
  <2>4. [r \in Requests |-> NotDelivered] \in [Requests -> Deliveries]
    BY <1>1
  <2>5. /\ [r \in Requests |-> "none"] \in [Requests -> {"none", "open", "answering", "ended"}]
        /\ [r \in Requests |-> None] \in [Requests -> Texts \cup {None}]
    OBVIOUS
  <2>6. FALSE \in BOOLEAN /\ -1 \in Int /\ 0 \in Int /\ None \in TurnEnds \cup {None}
    OBVIOUS
  <2>. QED  BY <1>1, <2>2, <2>3, <2>4, <2>5, <2>6 DEF ServerStart, Servers
<1>3. cc \in CodeType
  <2>1. 0 \in 0..LastId
    BY ClaudeTurnsAssumption
  <2>2. <<>> \in Seq(Requests \cup {"typed"})
    OBVIOUS
  <2>. QED  BY <2>1, <2>2 DEF ClaudeInit, CodeType
<1>4. files \in FilesType
  <2>1. <<>> \in Seq(Submits \cup TurnEnds)
    OBVIOUS
  <2>. QED  BY <2>1 DEF ClaudeInit, FilesType
<1>5. server \in [state : Servers, read : Nat, activityRead : Int, down : BOOLEAN]
  BY <1>2 DEF ClaudeInit
<1>6. /\ now \in Nat /\ numberOf \in [PromptIds -> Nat] /\ served \subseteq Nat
      /\ taken \in [Requests -> Texts \cup {None}] /\ routed \subseteq Requests \X Nat
  BY DEF ClaudeInit
<1>7. QED
  BY <1>3, <1>4, <1>5, <1>6 DEF ClaudeTypes, CodeType, FilesType

LEMMA StartsRight ==
  ASSUME ClaudeInit
  PROVE  Inv
<1>1. ClaudeTypes
  BY StartsTyped
<1>2. /\ cc.queue = <<>> /\ cc.id = 0 /\ cc.number = 0 /\ cc.taking = 0 /\ cc.lastId = 0
      /\ cc.lastNumber = 0
  BY DEF ClaudeInit
<1>3. ~cc.call /\ ~cc.refused
  BY DEF ClaudeInit
<1>4. /\ files.log = <<>> /\ files.stop = None /\ files.activity = None
      /\ files.open = [owning |-> {}, open |-> {}]
  BY DEF ClaudeInit
<1>5. /\ server.state = ServerStart /\ server.read = 0 /\ server.activityRead = -1
  BY DEF ClaudeInit
<1>6. ~server.down
  BY DEF ClaudeInit
<1>7. /\ now = 0 /\ numberOf = [i \in PromptIds |-> 0] /\ served = {}
      /\ taken = [r \in Requests |-> None] /\ routed = {}
  BY DEF ClaudeInit
<1>8. Recs = {} /\ Range(files.log) = {} /\ DOMAIN files.log = {} /\ Len(files.log) = 0
  BY <1>4 DEF Recs, Range
<1>9. DOMAIN cc.queue = {} /\ Len(cc.queue) = 0
  BY <1>2
<1>10. Numbers
  <2>1. \A i \in PromptIds : i \in Nat /\ ~(i <= 0) /\ numberOf[i] = 0
    BY <1>7, PromptIdsAreIntegers
  <2>. QED  BY <1>2, <1>7, <2>1 DEF Numbers
<1>11. InTurn
  BY <1>2, <1>3, <1>9 DEF InTurn
<1>12. Queue
  BY <1>2, <1>4, <1>7, <1>9 DEF Queue
<1>13. Records
  BY <1>4, <1>8 DEF Records
<1>14. Openers /\ Messages
  BY <1>7, <1>8 DEF Openers, Messages
<1>15. World
  BY <1>10, <1>11, <1>12, <1>13, <1>14 DEF World
<1>16. PICK S : S = ServerStart
  OBVIOUS
<1>17. /\ S.current = NoTurn /\ S.heard = <<>> /\ \A i \in PromptIds : S.ended[i] = None /\ S.alias[i] = i
       /\ \A r \in Requests : /\ S.bound[r] = 0 /\ S.deliveries[r] = NotDelivered
                              /\ S.pending[r] = "none" /\ S.text[r] = None
  BY <1>16 DEF ServerStart
<1>18. ~S.binding
  BY <1>16 DEF ServerStart
<1>19. /\ NoTurn.id = 0 /\ NoTurn.kind = "none" /\ NoTurn.requests = <<>> /\ Range(<<>>) = {}
       /\ NotDelivered.boundTo = 0 /\ NotDelivered.ended = None /\ NotDelivered.firstStop = None
  BY DEF NoTurn, NotDelivered, Range
<1>20. \A r \in Requests : ~OpenIn(S, r)
  BY <1>17 DEF OpenIn
<1>21. Fresh(S)
  BY <1>17 DEF Fresh
<1>22. Position(S, 0, 0)
  <2>1. 0 \in 0..cc.lastId
    BY <1>2
  <2>. QED  BY <1>2, <1>8, <1>17, <1>19, <1>21, <2>1 DEF Position
<1>23. Turn(S, 0, 0)
  BY <1>2, <1>4, <1>8, <1>17, <1>19 DEF Turn
<1>24. Bindings(S, 0, 0)
  BY <1>8, <1>17, <1>19, <1>20 DEF Bindings
<1>25. Heard(S, 0)
  <2>1. Len(S.heard) % 2 = 0 /\ DOMAIN S.heard = {}
    BY <1>17
  <2>. QED  BY <1>17, <1>19, <2>1 DEF Heard
<1>26. Settled(S, 0)
  BY <1>8, <1>17 DEF Settled
<1>27. Unheard(S)
  BY <1>8, <1>17, <1>19, <1>20 DEF Unheard, FirstText
<1>28. Knows(S, 0, 0)
  BY <1>17, <1>18, <1>19, <1>22, <1>23, <1>24, <1>25, <1>26, <1>27 DEF Knows, Follows
<1>29. Horizon(0)
  BY <1>4, <1>5, <1>7, <1>8 DEF Horizon
<1>30. InLine
  <2>1. Owning(S) = {} /\ OpenRequests(S) = {}
    BY <1>20 DEF Owning, OpenRequests
  <2>. QED  BY <1>4, <1>5, <1>16, <2>1 DEF InLine
<1>31. RoutedToItsTurn
  BY <1>7 DEF RoutedToItsTurn
<1>32. \E h \in Nat, m \in 0..LastId : Horizon(h) /\ Knows(server.state, h, m)
  <2>1. 0 \in 0..LastId /\ 0 \in Nat
    BY ClaudeTurnsAssumption
  <2>. QED  BY <1>5, <1>16, <1>28, <1>29, <2>1
<1>33. QED
  BY <1>1, <1>6, <1>15, <1>30, <1>31, <1>32 DEF Inv

-----------------------------------------------------------------------------
(* Every step keeps it, if Esc waits for the server to have read.          *)
LEMMA StepKeepsRight ==
  ASSUME EarlyEsc = FALSE, Inv, [ClaudeNext]_claudeVars
  PROVE  Inv'
<1>1. CASE Poll
  BY <1>1, PollStep
<1>2. CASE GraceOver
  BY <1>2, GraceOverStep
<1>3. CASE ChannelShutdown
  BY <1>3, ChannelShutdownStep
<1>4. ASSUME NEW r \in Requests, Deliver(r) \/ FinalTextSent(r) \/ ExpireRequest(r) \/ ReplyDone(r)
      PROVE  Inv'
  BY <1>4, DeliverStep, FinalTextSentStep, ExpireRequestStep, ReplyDoneStep
<1>5. CASE Type
  BY <1>5, TypeNowStep, TypeLaterStep
<1>6. CASE BeginUnannounced
  BY <1>6, BeginUnannouncedStep
<1>7. CASE TakeFirst \/ TakeAlso
  BY <1>7, TakeFirstStep, TakeAlsoStep
<1>8. CASE ToolCall \/ ToolResult
  BY <1>8, ToolCallStep, ToolResultStep
<1>9. CASE AskPermission \/ CallAgentTool
  BY <1>9, AskPermissionStep, CallAgentToolStep
<1>10. CASE RefuseStop
  BY <1>10, RefuseStopStep
<1>11. ASSUME NEW background \in BOOLEAN, Stop(background)
       PROVE  Inv'
  BY <1>11, StopStep
<1>12. CASE StopFails \/ Interrupt
  BY <1>12, StopFailsStep, InterruptStep
<1>13. CASE UNCHANGED claudeVars
  <2>1. /\ cc' = cc /\ files' = files /\ server' = server /\ now' = now /\ numberOf' = numberOf
        /\ served' = served /\ taken' = taken /\ routed' = routed
    BY <1>13 DEF claudeVars
  <2>2. (World <=> World') /\ (InLine <=> InLine')
    <3>1. Recs' = Recs
      BY <2>1 DEF Recs
    <3>2. (Numbers <=> Numbers') /\ (InTurn <=> InTurn') /\ (Queue <=> Queue') /\ (Openers <=> Openers')
      BY <2>1, <3>1 DEF Numbers, InTurn, Queue, Openers
    <3>3. (Records <=> Records') /\ (Messages <=> Messages')
      BY <2>1, <3>1 DEF Records, Messages, LastOf, NumberOf
    <3>4. InLine <=> InLine'
      BY <2>1 DEF InLine, OpenRequests
    <3>. QED  BY <3>2, <3>3, <3>4 DEF World
  <2>3. /\ ClaudeTypes <=> ClaudeTypes'
        /\ RoutedToItsTurn <=> RoutedToItsTurn'
    BY <2>1 DEF ClaudeTypes, RoutedToItsTurn
  <2>4. /\ AnsweredFromItsTurn <=> AnsweredFromItsTurn'
        /\ LocalTurnsAreLocal <=> LocalTurnsAreLocal'
        /\ TurnEndsItsRequests <=> TurnEndsItsRequests'
    BY <2>1 DEF AnsweredFromItsTurn, LocalTurnsAreLocal, TurnEndsItsRequests
  <2>5. ASSUME NEW h \in Nat, NEW m \in 0..LastId, Horizon(h), Knows(server.state, h, m)
        PROVE  Horizon(h)' /\ Knows(server.state, h, m)'
    <3>1. Recs' = Recs /\ \A x : NumberOf(x)' = NumberOf(x)
      BY <2>1 DEF Recs, NumberOf
    <3>2. Horizon(h)'
      BY <2>1, <2>5 DEF Horizon
    <3>3. PICK S : S = server.state
      OBVIOUS
    <3>4. Knows(S, h, m)
      BY <2>5, <3>3
    <3>5. Position(S, h, m)' <=> Position(S, h, m)
      BY <2>1, <3>1 DEF Position, Fresh
    <3>6. Turn(S, h, m)' <=> Turn(S, h, m)
      BY <2>1, <3>1 DEF Turn, LastOf, NumberOf
    <3>7. Bindings(S, h, m)' <=> Bindings(S, h, m)
      BY <2>1, <3>1 DEF Bindings
    <3>8. (Heard(S, m)' <=> Heard(S, m)) /\ (Settled(S, h)' <=> Settled(S, h))
      BY <2>1, <3>1 DEF Heard, Settled, NumberOf
    <3>9. Unheard(S)' <=> Unheard(S)
      BY <2>1 DEF Unheard, FirstTurn
    <3>10. Knows(S, h, m)'
      BY <3>4, <3>5, <3>6, <3>7, <3>8, <3>9 DEF Knows, Follows
    <3>11. Knows(server.state, h, m)'
      BY <2>1, <3>3, <3>10
    <3>. QED  BY <3>2, <3>11
  <2>. QED  BY <2>1, <2>2, <2>3, <2>4, <2>5 DEF Inv
<1>14. QED
  BY <1>1, <1>2, <1>3, <1>4, <1>5, <1>6, <1>7, <1>8, <1>9, <1>10, <1>11, <1>12, <1>13 DEF ClaudeNext

(* The invariant holds of every reachable state.                          *)
THEOREM ClaudeStaysRight == ASSUME EarlyEsc = FALSE PROVE ClaudeSpec => []Inv
<1>1. ClaudeInit => Inv
  BY StartsRight
<1>2. Inv /\ [ClaudeNext]_claudeVars => Inv'
  BY StepKeepsRight
<1>3. QED
  BY <1>1, <1>2, PTL DEF ClaudeSpec

(* While Esc comes only once the server has read of a tool call of the     *)
(* turn, a request is answered with a final text of the turn it was taken  *)
(* into, and the questions and agent-tool calls of a turn go to a request  *)
(* that was taken into it: for any requests, ids, events, typed texts and  *)
(* calls.                                                                  *)
THEOREM TurnsStayKeptApart == ASSUME EarlyEsc = FALSE PROVE ClaudeSpec => []TurnsKeptApart
<1>1. Inv => TurnsKeptApart
  BY KnownIsRight DEF Inv, TurnsKeptApart
<1>2. ClaudeSpec => []Inv
  BY ClaudeStaysRight
<1>3. QED
  BY <1>1, <1>2, PTL

(* While Esc comes only once the server has read of a tool call of the     *)
(* turn, the extensions hear of local turns only, one at a time and start  *)
(* before end, and the requests of a turn are answered or over once the    *)
(* server has read the turn's end.                                         *)
THEOREM TurnsAreReported == ASSUME EarlyEsc = FALSE PROVE ClaudeSpec => []TurnsReported
<1>1. Inv => TurnsReported
  BY KnownIsRight DEF TurnsReported
<1>2. ClaudeSpec => []Inv
  BY ClaudeStaysRight
<1>3. QED
  BY <1>1, <1>2, PTL
=============================================================================
