---------------------------- MODULE AgentToolsProofs ----------------------------
(***************************************************************************)
(* What holds of AgentTools for every set of scopes and tool calls and     *)
(* every limit, checked by the TLA+ proof system.                          *)
(***************************************************************************)
EXTENDS AgentTools, FiniteSetTheorems, TLAPS

(* What the type invariant needs besides itself: every call a tool call    *)
(* works on, or a scope tracks, has started, and only those.               *)
KnownCalls ==
  /\ \A t \in ToolCalls : \A c \in local[t].on : state[c] # "none"
  /\ \A s \in Scopes : \A c \in tracked[s] : state[c] # "none"
  /\ \A c \in Calls : c > started => state[c] = "none"

Shown == \A c \in Calls : state[c] = "input_required" <=> queue[c] # <<>>

TypeInv == TypeOK /\ KnownCalls /\ Shown

USE DEF CallStates, OpenStates, FinalStates, Calls

(* The waiters Finish and SetState wake stay tool calls at an await.       *)
LEMMA WokenType ==
  ASSUME TypeOK, NEW cs
  PROVE  /\ Woken(cs) \in [ToolCalls -> PcStates]
         /\ \A t \in ToolCalls : Woken(cs)[t] = "admitted" <=> pc[t] = "admitted"
BY DEF TypeOK, Woken, Watching, PcStates

LEMMA SetStateType ==
  ASSUME TypeOK, NEW c \in Calls, NEW st \in OpenStates, SetState(c, st)
  PROVE  /\ state' \in [Calls -> CallStates \cup {"none"}]
         /\ seq' \in [Calls -> Nat]
         /\ clock' \in Nat
<1>1. state' \in [Calls -> CallStates \cup {"none"}]
  BY DEF TypeOK, SetState
<1>2. CASE st = "input_required"
  BY <1>1, <1>2 DEF TypeOK, SetState
<1>3. CASE st # "input_required"
  BY <1>1, <1>3 DEF TypeOK, SetState
<1>4. QED
  BY <1>2, <1>3

(* Any finite set of calls has a size.                                     *)
LEMMA CallsFinite ==
  ASSUME NEW cs \in SUBSET Calls
  PROVE  IsFiniteSet(cs) /\ Cardinality(cs) \in Nat
<1>1. IsFiniteSet(Calls)
  BY BoundsAssumption, FS_Interval
<1>2. IsFiniteSet(cs)
  BY <1>1, FS_Subset
<1>3. QED
  BY <1>2, FS_CardinalityType

LEMMA FinishType ==
  ASSUME TypeOK, NEW cs \in SUBSET OpenCalls, NEW end \in FinalStates, Finish(cs, end)
  PROVE  /\ state' \in [Calls -> CallStates \cup {"none"}]
         /\ seq' \in [Calls -> Nat]
         /\ clock' \in Nat
         /\ queue' \in [Calls -> Seq(Nat)]
         /\ arriving' \in [Calls -> Nat]
         /\ settled' \in [Calls -> {"no", "awaited", "unawaited"}]
<1>1. \A c \in Calls : Rank(c, cs) \in Nat
  <2> SUFFICES ASSUME NEW c \in Calls PROVE Rank(c, cs) \in Nat
    OBVIOUS
  <2>1. {d \in cs : d <= c} \in SUBSET Calls
    BY DEF OpenCalls
  <2>2. QED
    BY <2>1, CallsFinite DEF Rank
<1>2. Cardinality(cs) \in Nat
  BY CallsFinite DEF OpenCalls
<1>3. state' \in [Calls -> CallStates \cup {"none"}]
  BY DEF TypeOK, Finish
<1>4. seq' \in [Calls -> Nat]
  BY <1>1 DEF TypeOK, Finish
<1>5. queue' \in [Calls -> Seq(Nat)]
  BY DEF TypeOK, Finish
<1>6. arriving' \in [Calls -> Nat]
  BY DEF TypeOK, Finish
<1>7. settled' \in [Calls -> {"no", "awaited", "unawaited"}]
  BY DEF TypeOK, Finish
<1>8. clock' \in Nat
  BY <1>2 DEF TypeOK, Finish
<1>9. QED
  BY <1>3, <1>4, <1>5, <1>6, <1>7, <1>8

LEMMA RefuseType ==
  ASSUME TypeOK, NEW cs, NEW sent \in BOOLEAN, Refuse(cs, sent)
  PROVE  reply' \in [Calls -> Seq(ReplyStates)]
<1> SUFFICES ASSUME NEW c \in Calls PROVE reply'[c] \in Seq(ReplyStates)
  BY DEF Refuse
<1>1. reply[c] \in Seq(ReplyStates)
  BY DEF TypeOK
<1>2. PICK n \in Nat : reply[c] \in [1..n -> ReplyStates]
  BY <1>1
<1>3. reply'[c] \in [1..n -> ReplyStates]
  BY <1>2 DEF Refuse, ReplyStates
<1>4. reply'[c] \in Seq(ReplyStates)
  BY <1>2, <1>3
<1>5. QED
  BY <1>4

(* What Cancel does to the types, and that it starts no call and leaves a  *)
(* call's questions where Shown looks for them.                            *)
LEMMA FinishShown ==
  ASSUME TypeInv, NEW cs \in SUBSET OpenCalls, NEW end \in FinalStates, Finish(cs, end)
  PROVE  /\ \A c \in Calls : state'[c] = "none" <=> state[c] = "none"
         /\ Shown'
<1>1. \A c \in Calls : state[c] = "input_required" <=> queue[c] # <<>>
  BY DEF TypeInv, Shown
<1>2. ASSUME NEW c \in Calls
      PROVE  /\ state'[c] = "none" <=> state[c] = "none"
             /\ state'[c] = "input_required" <=> queue'[c] # <<>>
  <2>1. CASE c \in cs
    BY <2>1 DEF Finish, OpenCalls
  <2>2. CASE c \notin cs
    BY <2>2, <1>1 DEF Finish
  <2>3. QED
    BY <2>1, <2>2
<1>3. QED
  BY <1>2 DEF Shown

LEMMA CancelType ==
  ASSUME TypeInv, NEW cs \in SUBSET Calls, Cancel(cs)
  PROVE  /\ state' \in [Calls -> CallStates \cup {"none"}]
         /\ seq' \in [Calls -> Nat]
         /\ clock' \in Nat
         /\ queue' \in [Calls -> Seq(Nat)]
         /\ arriving' \in [Calls -> Nat]
         /\ settled' \in [Calls -> {"no", "awaited", "unawaited"}]
         /\ reply' \in [Calls -> Seq(ReplyStates)]
         /\ \A c \in Calls : state'[c] = "none" <=> state[c] = "none"
         /\ Shown'
<1>1. cs \cap OpenCalls \in SUBSET OpenCalls
  OBVIOUS
<1>2. Finish(cs \cap OpenCalls, "cancelled")
  BY DEF Cancel
<1>3. PICK sent \in BOOLEAN : Refuse(cs \cap OpenCalls, sent)
  BY DEF Cancel
<1>4. reply' \in [Calls -> Seq(ReplyStates)]
  BY <1>3, RefuseType DEF TypeInv
<1>5. QED
  BY <1>1, <1>2, <1>4, FinishType, FinishShown DEF TypeInv

(* callResult has the shape of a result for every call that has started.   *)
LEMMA CallResultType ==
  ASSUME TypeInv, NEW c \in Calls, state[c] # "none"
  PROVE  CallResult(c) \in CallResults
<1>1. queue[c] \in Seq(Nat)
  BY DEF TypeInv, TypeOK
<1>2. state[c] = "input_required" => Head(queue[c]) \in Nat
  BY <1>1 DEF TypeInv, Shown
<1>3. state[c] \in CallStates /\ text[c] \in Nat /\ files[c] \in Nat
  BY DEF TypeInv, TypeOK
<1>4. QED
  BY <1>2, <1>3 DEF CallResult, CallResults

LEMMA GiveType ==
  ASSUME TypeInv, NEW t \in ToolCalls, NEW c \in local[t].on, Give(t, c)
  PROVE  /\ pc' \in [ToolCalls -> PcStates]
         /\ local' \in [ToolCalls -> Locals]
         /\ returned' \in [ToolCalls -> SUBSET CallResults]
         /\ \A u \in ToolCalls : local'[u].on \subseteq local[u].on
<1>1. c \in Calls /\ state[c] # "none"
  BY DEF TypeInv, TypeOK, Locals, KnownCalls
<1>2. CallResult(c) \in CallResults
  BY <1>1, CallResultType
<1>3. returned' \in [ToolCalls -> SUBSET CallResults]
  BY <1>2 DEF Give, TypeInv, TypeOK
<1>4. pc' \in [ToolCalls -> PcStates]
  BY DEF Give, TypeInv, TypeOK, PcStates
<1>5. NoLocals \in Locals
  BY ScopesAssumption DEF NoLocals, Locals
<1>6. local' \in [ToolCalls -> Locals]
  BY <1>5 DEF Give, Ends, TypeInv, TypeOK
<1>7. \A u \in ToolCalls : local'[u].on \subseteq local[u].on
  BY DEF Give, Ends, NoLocals, TypeInv, TypeOK
<1>8. QED
  BY <1>3, <1>4, <1>6, <1>7

(* Leaving a tool call, and the records a tool call begins with.           *)
LEMMA LocalsType ==
  ASSUME TypeOK, NEW t \in ToolCalls
  PROVE  /\ NoLocals \in Locals
         /\ \A s \in Scopes, cs \in SUBSET Calls :
              /\ Begin(t, s, cs) \in Locals
              /\ Begin(t, s, cs).on = cs
         /\ Ends(t) => /\ local' \in [ToolCalls -> Locals]
                       /\ \A u \in ToolCalls : local'[u].on \subseteq local[u].on
<1>1. NoLocals \in Locals
  BY ScopesAssumption DEF NoLocals, Locals
<1>2. \A s \in Scopes, cs \in SUBSET Calls :
        Begin(t, s, cs) \in Locals /\ Begin(t, s, cs).on = cs
  BY DEF NoLocals, Locals, Begin
<1>3. Ends(t) => /\ local' \in [ToolCalls -> Locals]
                 /\ \A u \in ToolCalls : local'[u].on \subseteq local[u].on
  BY <1>1 DEF Ends, NoLocals, TypeOK
<1>4. QED
  BY <1>1, <1>2, <1>3

(* KnownCalls survives a step that starts no call anew, adds none to a     *)
(* scope and none to a tool call.                                          *)
LEMMA KnownKept ==
  ASSUME TypeInv, UNCHANGED started,
         \A c \in Calls : state'[c] = "none" <=> state[c] = "none",
         \A t \in ToolCalls : local'[t].on \subseteq local[t].on,
         \A s \in Scopes : tracked'[s] \subseteq tracked[s]
  PROVE  KnownCalls'
BY DEF TypeInv, TypeOK, Locals, KnownCalls

LEMMA TypeInit == Init => TypeInv
<1> SUFFICES ASSUME Init PROVE TypeInv
  OBVIOUS
<1>1. NoLocals \in Locals /\ NoLocals.on = {}
  BY ScopesAssumption DEF NoLocals, Locals
<1>2. TypeOK
  <2>1. queue \in [Calls -> Seq(Nat)] /\ reply \in [Calls -> Seq(ReplyStates)]
    BY DEF Init
  <2>2. /\ closed \in BOOLEAN
        /\ phase \in [Scopes -> {"unopened", "open", "closed"}]
        /\ tracked \in [Scopes -> SUBSET Calls]
    BY DEF Init
  <2>3. /\ reserved \in [Scopes -> Nat]
        /\ started \in 0..MaxStarted
        /\ clock \in Nat
    BY BoundsAssumption DEF Init
  <2>4. /\ state \in [Calls -> CallStates \cup {"none"}]
        /\ home \in [Calls -> Scopes]
        /\ seq \in [Calls -> Nat]
        /\ text \in [Calls -> Nat]
        /\ files \in [Calls -> Nat]
        /\ arriving \in [Calls -> Nat]
        /\ reader \in [Calls -> ReaderStates]
        /\ settled \in [Calls -> {"no", "awaited", "unawaited"}]
    BY ScopesAssumption DEF Init, ReaderStates
  <2>5. /\ pc \in [ToolCalls -> PcStates]
        /\ local \in [ToolCalls -> Locals]
        /\ returned \in [ToolCalls -> SUBSET CallResults]
    BY <1>1 DEF Init, PcStates
  <2>6. QED
    BY <2>1, <2>2, <2>3, <2>4, <2>5 DEF TypeOK
<1>3. KnownCalls /\ Shown
  BY <1>1, BoundsAssumption DEF Init, KnownCalls, Shown
<1>4. QED
  BY <1>2, <1>3 DEF TypeInv

(* Steps that change no call's state, add no call and give no result.      *)
LEMMA TypeQuiet ==
  ASSUME TypeInv, UNCHANGED <<tracked, callVars, birthVars, local>>,
         /\ closed' \in BOOLEAN
         /\ phase' \in [Scopes -> {"unopened", "open", "closed"}]
         /\ reserved' \in [Scopes -> Nat]
         /\ text' \in [Calls -> Nat]
         /\ files' \in [Calls -> Nat]
         /\ reply' \in [Calls -> Seq(ReplyStates)]
         /\ reader' \in [Calls -> ReaderStates]
         /\ pc' \in [ToolCalls -> PcStates]
         /\ returned' \in [ToolCalls -> SUBSET CallResults]
  PROVE  TypeInv'
<1>1. TypeOK'
  BY DEF TypeInv, TypeOK, callVars, birthVars
<1>2. KnownCalls'
  BY DEF TypeInv, KnownCalls, callVars, birthVars
<1>3. Shown'
  BY DEF TypeInv, Shown, callVars
<1>4. QED
  BY <1>1, <1>2, <1>3 DEF TypeInv

LEMMA TypeScopes ==
  ASSUME TypeInv, NEW ss \in SUBSET Scopes, CloseScopes(ss), closed' \in BOOLEAN
  PROVE  TypeInv'
<1> DEFINE cs == UNION {tracked[s] : s \in ss}
<1>1. cs \in SUBSET Calls
  BY DEF TypeInv, TypeOK
<1>2. Cancel(cs) /\ pc' = Woken(cs \cap OpenCalls)
  BY DEF CloseScopes
<1> HIDE DEF cs
<1>3. phase' \in [Scopes -> {"unopened", "open", "closed"}]
  BY DEF CloseScopes, TypeInv, TypeOK
<1>4. pc' \in [ToolCalls -> PcStates]
  BY <1>2, WokenType DEF TypeInv
<1>5. UNCHANGED <<scopeVars, streamVars, birthVars, toolVars>>
  BY DEF CloseScopes
<1>6. TypeOK'
  BY <1>1, <1>2, <1>3, <1>4, <1>5, CancelType
     DEF TypeInv, TypeOK, scopeVars, streamVars, birthVars, toolVars
<1>7. KnownCalls'
  BY <1>1, <1>2, <1>5, CancelType, KnownKept DEF scopeVars, toolVars, birthVars
<1>8. QED
  BY <1>1, <1>2, <1>6, <1>7, CancelType DEF TypeInv

(* Every reservation is held: what keeps reserved from going below zero.   *)
Reservations ==
  \A s \in Scopes : IsFiniteSet(Holders(s)) /\ reserved[s] = Cardinality(Holders(s))

LEMMA HeldReservation ==
  ASSUME TypeInv, Reservations, NEW t \in ToolCalls, pc[t] = "admitted"
  PROVE  local[t].scope \in Scopes /\ reserved[local[t].scope] - 1 \in Nat
<1> DEFINE s == local[t].scope
<1>1. s \in Scopes
  BY DEF TypeInv, TypeOK, Locals
<1>2. t \in Holders(s)
  BY DEF Holders
<1>3. IsFiniteSet(Holders(s)) /\ reserved[s] = Cardinality(Holders(s))
  BY <1>1 DEF Reservations
<1>4. Cardinality(Holders(s)) # 0 /\ Cardinality(Holders(s)) \in Nat
  BY <1>2, <1>3, FS_EmptySet, FS_CardinalityType
<1>5. QED
  BY <1>1, <1>3, <1>4

(* Steps of a tool call that change no call.                               *)
LEMMA TypeToolOnly ==
  ASSUME TypeInv, UNCHANGED <<helperVars, callVars, streamVars, birthVars>>,
         /\ tracked' \in [Scopes -> SUBSET Calls]
         /\ \A s \in Scopes : tracked'[s] \subseteq tracked[s]
         /\ reserved' \in [Scopes -> Nat]
         /\ reply' \in [Calls -> Seq(ReplyStates)]
         /\ pc' \in [ToolCalls -> PcStates]
         /\ local' \in [ToolCalls -> Locals]
         /\ \A t \in ToolCalls : \A c \in local'[t].on : state[c] # "none"
         /\ returned' \in [ToolCalls -> SUBSET CallResults]
  PROVE  TypeInv'
<1>1. TypeOK'
  BY DEF TypeInv, TypeOK, helperVars, callVars, streamVars, birthVars
<1>2. KnownCalls'
  BY DEF TypeInv, KnownCalls, callVars, birthVars
<1>3. Shown'
  BY DEF TypeInv, Shown, callVars
<1>4. QED
  BY <1>1, <1>2, <1>3 DEF TypeInv

LEMMA RefusedType ==
  ASSUME TypeInv, NEW t \in ToolCalls, Refused(t)
  PROVE  /\ pc' \in [ToolCalls -> PcStates]
         /\ local' \in [ToolCalls -> Locals]
         /\ \A u \in ToolCalls : local'[u].on \subseteq local[u].on
         /\ \A u \in ToolCalls : \A c \in local'[u].on : state[c] # "none"
<1>1. pc' \in [ToolCalls -> PcStates]
  BY DEF Refused, TypeInv, TypeOK, PcStates
<1>2. /\ local' \in [ToolCalls -> Locals]
      /\ \A u \in ToolCalls : local'[u].on \subseteq local[u].on
  BY LocalsType DEF Refused, TypeInv
<1>3. QED
  BY <1>1, <1>2 DEF TypeInv, KnownCalls

LEMMA TypePrompt ==
  ASSUME TypeInv, NEW t \in ToolCalls, NEW s \in Scopes, NEW wait \in BOOLEAN,
         PromptAgent(t, s, wait)
  PROVE  TypeInv'
<1>1. /\ pc' \in [ToolCalls -> PcStates]
      /\ local' \in [ToolCalls -> Locals]
      /\ \A u \in ToolCalls : \A c \in local'[u].on : state[c] # "none"
  <2>1. CASE phase[s] = "closed" \/ (~wait /\ "wait_agent" \notin Offered)
    BY <2>1, RefusedType DEF PromptAgent
  <2>2. CASE ~(phase[s] = "closed" \/ (~wait /\ "wait_agent" \notin Offered))
    <3>1. pc' = [pc EXCEPT ![t] = "resolving"]
      BY <2>2 DEF PromptAgent
    <3>2. local' = [local EXCEPT ![t] = [Begin(t, s, {}) EXCEPT !.wait = wait]]
      BY <2>2 DEF PromptAgent
    <3>3. /\ [Begin(t, s, {}) EXCEPT !.wait = wait] \in Locals
          /\ [Begin(t, s, {}) EXCEPT !.wait = wait].on = {}
      BY LocalsType DEF Begin, NoLocals, Locals
    <3>4. QED
      BY <3>1, <3>2, <3>3 DEF TypeInv, TypeOK, PcStates, KnownCalls
  <2>3. QED
    BY <2>1, <2>2
<1>2. QED
  BY <1>1, TypeToolOnly DEF PromptAgent, TypeInv, TypeOK, scopeVars

LEMMA TypeResolveFails ==
  ASSUME TypeInv, NEW t \in ToolCalls, ResolveFails(t)
  PROVE  TypeInv'
<1>1. Refused(t)
  BY DEF ResolveFails
<1>2. QED
  BY <1>1, RefusedType, TypeToolOnly DEF ResolveFails, TypeInv, TypeOK, scopeVars

LEMMA TypeReserve ==
  ASSUME TypeInv, NEW t \in ToolCalls, Reserve(t)
  PROVE  TypeInv'
<1> DEFINE s == local[t].scope
           drop == IF HasRoom(s) THEN {} ELSE Oldest(s)
<1>1. s \in Scopes
  BY DEF TypeInv, TypeOK, Locals
<1>2. drop \in SUBSET Calls
  BY <1>1 DEF TypeInv, TypeOK, Oldest, Finished
<1>3. CASE HasRoom(s) \/ Finished(s) # {}
  <2>1. /\ tracked' = [tracked EXCEPT ![s] = @ \ drop]
        /\ reserved' = [reserved EXCEPT ![s] = @ + 1]
        /\ pc' = [pc EXCEPT ![t] = "admitted"]
        /\ UNCHANGED local
    BY <1>3 DEF Reserve
  <2> HIDE DEF drop
  <2>2. /\ tracked' \in [Scopes -> SUBSET Calls]
        /\ \A u \in Scopes : tracked'[u] \subseteq tracked[u]
    BY <2>1, <1>1, <1>2 DEF TypeInv, TypeOK
  <2>3. reserved' \in [Scopes -> Nat]
    BY <2>1, <1>1 DEF TypeInv, TypeOK
  <2>4. pc' \in [ToolCalls -> PcStates]
    BY <2>1 DEF TypeInv, TypeOK, PcStates
  <2>5. QED
    BY <2>1, <2>2, <2>3, <2>4, TypeToolOnly
       DEF Reserve, TypeInv, TypeOK, KnownCalls
<1>4. CASE ~(HasRoom(s) \/ Finished(s) # {})
  <2>1. Refused(t) /\ UNCHANGED scopeVars
    BY <1>4 DEF Reserve
  <2>2. QED
    BY <2>1, RefusedType, TypeToolOnly DEF Reserve, TypeInv, TypeOK, scopeVars
<1>5. QED
  BY <1>3, <1>4

LEMMA TypeGiveUp ==
  ASSUME TypeInv, Reservations, NEW t \in ToolCalls, GiveUp(t)
  PROVE  TypeInv'
<1>1. Refused(t) /\ pc[t] = "admitted"
  BY DEF GiveUp
<1>2. reserved' \in [Scopes -> Nat]
  BY <1>1, HeldReservation DEF GiveUp, TypeInv, TypeOK
<1>3. QED
  BY <1>1, <1>2, RefusedType, TypeToolOnly DEF GiveUp, TypeInv, TypeOK

LEMMA TypeStartCall ==
  ASSUME TypeInv, Reservations, NEW t \in ToolCalls, StartCall(t)
  PROVE  TypeInv'
<1> DEFINE s == local[t].scope
           c == started + 1
<1>0. started \in 0..MaxStarted /\ started < MaxStarted /\ started' = started + 1
  BY DEF StartCall, TypeInv, TypeOK
<1>1. /\ s \in Scopes
      /\ c \in Calls
      /\ started' \in 0..MaxStarted
  BY <1>0, HeldReservation, BoundsAssumption DEF StartCall
<1>2. reserved' \in [Scopes -> Nat]
  BY HeldReservation DEF StartCall, TypeInv, TypeOK
<1>3. /\ tracked' = [tracked EXCEPT ![s] = @ \cup {c}]
      /\ state' = [state EXCEPT ![c] = "running"]
      /\ home' = [home EXCEPT ![c] = s]
      /\ reader' = [reader EXCEPT ![c] = "reading"]
      /\ UNCHANGED <<helperVars, seq, clock, queue, arriving, settled, text, files, reply,
                     returned>>
  BY DEF StartCall
<1>4. /\ pc' \in [ToolCalls -> PcStates]
      /\ local' \in [ToolCalls -> Locals]
      /\ \A u \in ToolCalls : local'[u].on \subseteq local[u].on \cup {c}
  <2>1. CASE local[t].wait
    <3>1. /\ pc' = [pc EXCEPT ![t] = "untilReady"]
          /\ local' = [local EXCEPT ![t].on = {c}]
      BY <2>1 DEF StartCall
    <3>2. pc' \in [ToolCalls -> PcStates]
      BY <3>1 DEF TypeInv, TypeOK, PcStates
    <3>3. /\ local[t] \in Locals
          /\ local' = [local EXCEPT ![t] = [local[t] EXCEPT !.on = {c}]]
      BY <3>1 DEF TypeInv, TypeOK
    <3>4. /\ [local[t] EXCEPT !.on = {c}] \in Locals
          /\ [local[t] EXCEPT !.on = {c}].on = {c}
      BY <3>3, <1>1 DEF Locals
    <3>5. QED
      BY <3>2, <3>3, <3>4 DEF TypeInv, TypeOK
  <2>2. CASE ~local[t].wait
    <3>1. pc' = [pc EXCEPT ![t] = "done"] /\ Ends(t)
      BY <2>2 DEF StartCall
    <3>2. QED
      BY <3>1, LocalsType DEF TypeInv, TypeOK, PcStates
  <2>3. QED
    BY <2>1, <2>2
<1> HIDE DEF s, c
<1>5. state' \in [Calls -> CallStates \cup {"none"}] /\ home' \in [Calls -> Scopes]
  BY <1>1, <1>3 DEF TypeInv, TypeOK
<1>6. tracked' \in [Scopes -> SUBSET Calls]
  BY <1>1, <1>3 DEF TypeInv, TypeOK
<1>7. reader' \in [Calls -> ReaderStates]
  BY <1>1, <1>3 DEF TypeInv, TypeOK, ReaderStates
<1>8. TypeOK'
  BY <1>1, <1>2, <1>3, <1>4, <1>5, <1>6, <1>7 DEF TypeInv, TypeOK, helperVars
<1>9. \A d \in Calls : (d = c \/ state[d] # "none") => state'[d] # "none"
  BY <1>3, <1>1 DEF TypeInv, TypeOK
<1>10. KnownCalls'
  <2>1. \A u \in ToolCalls : \A d \in local'[u].on : state'[d] # "none"
    BY <1>4, <1>9 DEF TypeInv, TypeOK, KnownCalls, Locals
  <2>2. \A u \in Scopes : \A d \in tracked'[u] : state'[d] # "none"
    BY <1>1, <1>3, <1>9 DEF TypeInv, TypeOK, KnownCalls
  <2>3. \A d \in Calls : d > started' => state'[d] = "none"
    BY <1>0, <1>3 DEF TypeInv, TypeOK, KnownCalls, c
  <2>4. QED
    BY <2>1, <2>2, <2>3 DEF KnownCalls
<1>11. Shown'
  <2>1. c \in Calls /\ queue' = queue /\ Shown
    BY <1>1, <1>3 DEF TypeInv
  <2>2. state[c] = "none" /\ queue[c] = <<>>
    BY <1>1, <1>0, <2>1 DEF TypeInv, TypeOK, KnownCalls, Shown, c
  <2>3. QED
    BY <2>1, <2>2, <1>3 DEF Shown, TypeInv, TypeOK
<1>12. QED
  BY <1>8, <1>10, <1>11 DEF TypeInv

(* What the ends of a waiting loop have in common.                         *)
LEMMA TypeGive ==
  ASSUME TypeInv, NEW t \in ToolCalls, NEW c \in local[t].on, Give(t, c),
         UNCHANGED <<helperVars, scopeVars, callVars, streamVars, birthVars>>,
         reply' \in [Calls -> Seq(ReplyStates)]
  PROVE  TypeInv'
<1>1. \A u \in ToolCalls : \A d \in local'[u].on : state[d] # "none"
  BY GiveType DEF TypeInv, KnownCalls
<1>2. QED
  BY <1>1, GiveType, TypeToolOnly DEF TypeInv, TypeOK, scopeVars

LEMMA TypeUntilReady ==
  ASSUME TypeInv, NEW t \in ToolCalls, UntilReady(t)
  PROVE  TypeInv'
<1> PICK c \in local[t].on :
       IF state[c] # "running"
       THEN Give(t, c) /\ UNCHANGED <<callVars, reply>>
       ELSE /\ UNCHANGED <<local, returned>>
            /\ IF local[t].aborted
               THEN Cancel({c}) /\ pc' = Woken({c})
               ELSE pc' = [pc EXCEPT ![t] = "awaitReady"] /\ UNCHANGED <<callVars, reply>>
  BY DEF UntilReady
<1>1. UNCHANGED <<helperVars, scopeVars, streamVars, birthVars>>
  BY DEF UntilReady
<1>2. c \in Calls
  BY DEF TypeInv, TypeOK, Locals
<1>3. CASE state[c] # "running"
  BY <1>1, <1>3, TypeGive DEF TypeInv, TypeOK
<1>4. CASE state[c] = "running" /\ local[t].aborted
  <2>1. Cancel({c}) /\ pc' = Woken({c}) /\ UNCHANGED <<local, returned>>
    BY <1>4
  <2>2. pc' \in [ToolCalls -> PcStates]
    BY <2>1, WokenType DEF TypeInv
  <2>3. {c} \in SUBSET Calls
    BY <1>2
  <2>4. TypeOK'
    BY <1>1, <2>1, <2>2, <2>3, CancelType
       DEF TypeInv, TypeOK, helperVars, scopeVars, streamVars, birthVars
  <2>5. KnownCalls'
    BY <1>1, <2>1, <2>3, CancelType, KnownKept DEF scopeVars, birthVars
  <2>6. QED
    BY <2>1, <2>3, <2>4, <2>5, CancelType DEF TypeInv
<1>5. CASE state[c] = "running" /\ ~local[t].aborted
  <2>1. /\ pc' = [pc EXCEPT ![t] = "awaitReady"]
        /\ UNCHANGED <<callVars, reply, local, returned>>
    BY <1>5
  <2>2. pc' \in [ToolCalls -> PcStates]
    BY <2>1 DEF TypeInv, TypeOK, PcStates
  <2>3. QED
    BY <1>1, <2>1, <2>2, TypeToolOnly DEF TypeInv, TypeOK, KnownCalls, scopeVars
<1>6. QED
  BY <1>3, <1>4, <1>5

(* Abort and Deadline set a flag of the tool call.                         *)
LEMMA TypeFlag ==
  ASSUME TypeInv, NEW t \in ToolCalls, Abort(t) \/ Deadline(t)
  PROVE  TypeInv'
<1>1. UNCHANGED <<helperVars, scopeVars, callVars, streamVars, birthVars, reply,
                  returned>>
  BY DEF Abort, Deadline
<1>2. pc' \in [ToolCalls -> PcStates]
  BY DEF Abort, Deadline, TypeInv, TypeOK, PcStates
<1>3. PICK l \in Locals : local' = [local EXCEPT ![t] = l] /\ l.on = local[t].on
  <2>1. local[t] \in Locals
    BY DEF TypeInv, TypeOK
  <2>2. CASE Abort(t)
    <3>1. local' = [local EXCEPT ![t] = [local[t] EXCEPT !.aborted = TRUE]]
      BY <2>2 DEF Abort, TypeInv, TypeOK
    <3>2. /\ [local[t] EXCEPT !.aborted = TRUE] \in Locals
          /\ [local[t] EXCEPT !.aborted = TRUE].on = local[t].on
      BY <2>1 DEF Locals
    <3>3. QED
      BY <3>1, <3>2
  <2>3. CASE Deadline(t)
    <3>1. local' = [local EXCEPT ![t] = [local[t] EXCEPT !.late = TRUE]]
      BY <2>3 DEF Deadline, TypeInv, TypeOK
    <3>2. /\ [local[t] EXCEPT !.late = TRUE] \in Locals
          /\ [local[t] EXCEPT !.late = TRUE].on = local[t].on
      BY <2>1 DEF Locals
    <3>3. QED
      BY <3>1, <3>2
  <2>4. QED
    BY <2>2, <2>3
<1>4. /\ local' \in [ToolCalls -> Locals]
      /\ \A u \in ToolCalls : \A c \in local'[u].on : state[c] # "none"
  BY <1>3 DEF TypeInv, TypeOK, KnownCalls
<1>5. QED
  BY <1>1, <1>2, <1>4, TypeToolOnly DEF TypeInv, TypeOK, scopeVars

LEMMA TypeWaitAgent ==
  ASSUME TypeInv, NEW t \in ToolCalls, NEW s \in Scopes, NEW cs \in SUBSET Calls,
         WaitAgent(t, s, cs)
  PROVE  TypeInv'
<1>1. UNCHANGED <<helperVars, scopeVars, callVars, streamVars, birthVars, reply,
                  returned>>
  BY DEF WaitAgent
<1>2. CASE cs \subseteq tracked[s]
  <2>1. /\ pc' = [pc EXCEPT ![t] = "waitAgent"]
        /\ local' = [local EXCEPT ![t] = Begin(t, s, cs)]
    BY <1>2 DEF WaitAgent
  <2>2. /\ Begin(t, s, cs) \in Locals
        /\ Begin(t, s, cs).on = cs
    BY LocalsType DEF TypeInv
  <2>3. /\ local' \in [ToolCalls -> Locals]
        /\ \A u \in ToolCalls : \A c \in local'[u].on : state[c] # "none"
    BY <1>2, <2>1, <2>2 DEF TypeInv, TypeOK, KnownCalls
  <2>4. pc' \in [ToolCalls -> PcStates]
    BY <2>1 DEF TypeInv, TypeOK, PcStates
  <2>5. QED
    BY <1>1, <2>3, <2>4, TypeToolOnly DEF TypeInv, TypeOK, scopeVars
<1>3. CASE ~(cs \subseteq tracked[s])
  <2>1. Refused(t)
    BY <1>3 DEF WaitAgent
  <2>2. QED
    BY <1>1, <2>1, RefusedType, TypeToolOnly DEF TypeInv, TypeOK, scopeVars
<1>4. QED
  BY <1>2, <1>3

LEMMA TypeWaitTurn ==
  ASSUME TypeInv, NEW t \in ToolCalls, WaitTurn(t)
  PROVE  TypeInv'
<1>1. UNCHANGED <<helperVars, scopeVars, callVars, streamVars, birthVars, reply>>
  BY DEF WaitTurn
<1>2. CASE \E c \in local[t].on : Give(t, c)
  BY <1>1, <1>2, TypeGive DEF TypeInv, TypeOK
<1>3. CASE /\ UNCHANGED returned
           /\ IF local[t].late \/ local[t].aborted
              THEN pc' = [pc EXCEPT ![t] = "done"] /\ Ends(t)
              ELSE pc' = [pc EXCEPT ![t] = "awaitAny"] /\ UNCHANGED local
  <2>1. pc' \in [ToolCalls -> PcStates]
    BY <1>3 DEF TypeInv, TypeOK, PcStates
  <2>2. Ends(t) \/ UNCHANGED local
    BY <1>3
  <2>3. /\ local' \in [ToolCalls -> Locals]
        /\ \A u \in ToolCalls : \A c \in local'[u].on : state[c] # "none"
    BY <2>2, LocalsType DEF TypeInv, TypeOK, KnownCalls
  <2>4. QED
    BY <1>1, <1>3, <2>1, <2>3, TypeToolOnly DEF TypeInv, TypeOK, scopeVars
<1>4. QED
  BY <1>2, <1>3 DEF WaitTurn

LEMMA TypeCollect ==
  ASSUME TypeInv, NEW t \in ToolCalls, Collect(t)
  PROVE  TypeInv'
BY TypeGive DEF Collect, TypeInv, TypeOK

(* Asking for, or taking back, a question of one call.                     *)
LEMMA ReplyType ==
  ASSUME TypeOK, NEW c \in Calls, NEW q, NEW r \in ReplyStates,
         \/ reply' = [reply EXCEPT ![c] = [@ EXCEPT ![q] = r]]
         \/ reply' = [reply EXCEPT ![c] = Append(@, r)]
         \/ reply' = reply
  PROVE  reply' \in [Calls -> Seq(ReplyStates)]
<1>1. reply[c] \in Seq(ReplyStates)
  BY DEF TypeOK
<1>2. PICK n \in Nat : reply[c] \in [1..n -> ReplyStates]
  BY <1>1
<1>3. [reply[c] EXCEPT ![q] = r] \in [1..n -> ReplyStates]
  BY <1>2
<1>4. [reply[c] EXCEPT ![q] = r] \in Seq(ReplyStates)
  BY <1>2, <1>3
<1>5. Append(reply[c], r) \in Seq(ReplyStates)
  BY <1>1
<1>6. QED
  BY <1>4, <1>5 DEF TypeOK

LEMMA TypeAnswerAgent ==
  ASSUME TypeInv, NEW t \in ToolCalls, NEW s \in Scopes, NEW c \in Calls, NEW wait \in BOOLEAN,
         AnswerAgent(t, s, c, wait)
  PROVE  TypeInv'
<1> DEFINE q == Head(queue[c])
           answers == /\ wait \/ "wait_agent" \in Offered
                      /\ c \in tracked[s] /\ state[c] = "input_required"
<1>1. UNCHANGED <<helperVars, scopeVars, arriving, settled, streamVars, birthVars,
                  returned>>
  BY DEF AnswerAgent
<1>2. CASE answers
  <2>1. /\ queue' = [queue EXCEPT ![c] = Tail(@)]
        /\ SetState(c, IF Tail(queue[c]) # <<>> THEN "input_required" ELSE "running")
        /\ reply' = [reply EXCEPT ![c][q] = IF @ = "open" THEN "sending" ELSE @]
        /\ pc' = [Woken({c}) EXCEPT ![t] = "answering"]
        /\ local' = [local EXCEPT ![t] = [Begin(t, s, {c}) EXCEPT !.wait = wait, !.asking = q]]
    BY <1>2 DEF AnswerAgent
  <2>2. queue[c] \in Seq(Nat) /\ queue[c] # <<>>
    BY <1>2 DEF TypeInv, TypeOK, Shown
  <2>3. q \in Nat /\ Tail(queue[c]) \in Seq(Nat)
    BY <2>2
  <2> HIDE DEF q
  <2>4. /\ [Begin(t, s, {c}) EXCEPT !.wait = wait, !.asking = q] \in Locals
        /\ [Begin(t, s, {c}) EXCEPT !.wait = wait, !.asking = q].on = {c}
    BY <2>3, LocalsType DEF Begin, NoLocals, Locals
  <2>5. /\ state' \in [Calls -> CallStates \cup {"none"}]
        /\ seq' \in [Calls -> Nat]
        /\ clock' \in Nat
    BY <2>1, SetStateType DEF TypeInv
  <2>6. queue' \in [Calls -> Seq(Nat)]
    BY <2>1, <2>3 DEF TypeInv, TypeOK
  <2>7. reply' \in [Calls -> Seq(ReplyStates)]
    <3>0. reply[c] \in Seq(ReplyStates)
      BY DEF TypeInv, TypeOK
    <3>1. PICK n \in Nat : reply[c] \in [1..n -> ReplyStates]
      BY <3>0
    <3>2. reply'[c] \in [1..n -> ReplyStates]
      BY <2>1, <3>1 DEF TypeInv, TypeOK, ReplyStates
    <3>3. reply'[c] \in Seq(ReplyStates)
      BY <3>1, <3>2
    <3>4. QED
      BY <2>1, <3>3 DEF TypeInv, TypeOK
  <2>8. pc' \in [ToolCalls -> PcStates]
    BY <2>1, WokenType DEF TypeInv, PcStates
  <2>9. local' \in [ToolCalls -> Locals]
    BY <2>1, <2>4 DEF TypeInv, TypeOK
  <2>10. TypeOK'
    BY <1>1, <2>5, <2>6, <2>7, <2>8, <2>9
       DEF TypeInv, TypeOK, helperVars, scopeVars, streamVars, birthVars
  <2>11. state' = [state EXCEPT ![c] = IF Tail(queue[c]) # <<>> THEN "input_required" ELSE "running"]
    BY <2>1 DEF SetState
  <2>12. \A d \in Calls : state'[d] = "none" <=> state[d] = "none"
    BY <1>2, <2>11 DEF TypeInv, TypeOK
  <2>13. KnownCalls'
    <3>1. \A u \in ToolCalls : \A d \in local'[u].on : state'[d] # "none"
      <4> SUFFICES ASSUME NEW u \in ToolCalls, NEW d \in local'[u].on
                   PROVE  state'[d] # "none"
        OBVIOUS
      <4>1. CASE u = t
        <5>1. local'[u].on = {c}
          BY <4>1, <2>1, <2>4 DEF TypeInv, TypeOK
        <5>2. QED
          BY <5>1, <1>2, <2>12
      <4>2. CASE u # t
        <5>1. local'[u] = local[u]
          BY <4>2, <2>1 DEF TypeInv, TypeOK
        <5>2. QED
          BY <5>1, <2>12 DEF TypeInv, TypeOK, KnownCalls, Locals
      <4>3. QED
        BY <4>1, <4>2
    <3>2. \A u \in Scopes : \A d \in tracked'[u] : state'[d] # "none"
      BY <1>1, <2>12 DEF TypeInv, TypeOK, KnownCalls, scopeVars
    <3>3. \A d \in Calls : d > started' => state'[d] = "none"
      BY <1>1, <2>12 DEF TypeInv, KnownCalls, birthVars
    <3>4. QED
      BY <3>1, <3>2, <3>3 DEF KnownCalls
  <2>14. Shown'
    BY <2>1, <2>11 DEF TypeInv, TypeOK, Shown
  <2>15. QED
    BY <2>10, <2>13, <2>14 DEF TypeInv
<1>3. CASE ~answers
  <2>1. Refused(t) /\ UNCHANGED <<queue, state, clock, seq, reply>>
    BY <1>3 DEF AnswerAgent
  <2>2. UNCHANGED callVars
    BY <1>1, <2>1 DEF callVars
  <2>3. QED
    BY <1>1, <2>1, <2>2, RefusedType, TypeToolOnly DEF TypeInv, TypeOK, scopeVars
<1>4. QED
  BY <1>2, <1>3

LEMMA TypeAnswerSent ==
  ASSUME TypeInv, NEW t \in ToolCalls, AnswerSent(t)
  PROVE  TypeInv'
<1> PICK c \in local[t].on :
       /\ reply' = [reply EXCEPT ![c][local[t].asking] = "answered"]
       /\ IF local[t].wait
          THEN pc' = [pc EXCEPT ![t] = "untilReady"] /\ UNCHANGED <<local, returned>>
          ELSE Give(t, c)
  BY DEF AnswerSent
<1>1. UNCHANGED <<helperVars, scopeVars, callVars, streamVars, birthVars>>
  BY DEF AnswerSent
<1>2. reply' \in [Calls -> Seq(ReplyStates)]
  <2>1. c \in Calls /\ "answered" \in ReplyStates
    BY DEF TypeInv, TypeOK, Locals, ReplyStates
  <2>2. QED
    BY <2>1, ReplyType DEF TypeInv
<1>3. CASE local[t].wait
  <2>1. pc' \in [ToolCalls -> PcStates]
    BY <1>3 DEF TypeInv, TypeOK, PcStates
  <2>2. QED
    BY <1>1, <1>2, <1>3, <2>1, TypeToolOnly DEF TypeInv, TypeOK, KnownCalls, scopeVars
<1>4. CASE ~local[t].wait
  BY <1>1, <1>2, <1>4, TypeGive
<1>5. QED
  BY <1>3, <1>4

LEMMA TypeAnswerFails ==
  ASSUME TypeInv, NEW t \in ToolCalls, AnswerFails(t)
  PROVE  TypeInv'
<1> PICK c \in local[t].on :
       /\ reply' = [reply EXCEPT ![c][local[t].asking] = "failed"]
       /\ IF c \in OpenCalls
          THEN /\ queue' = [queue EXCEPT ![c] = <<local[t].asking>> \o @]
               /\ SetState(c, "input_required")
               /\ pc' = [Woken({c}) EXCEPT ![t] = "refused"]
          ELSE /\ pc' = [pc EXCEPT ![t] = "refused"]
               /\ UNCHANGED <<queue, state, clock, seq>>
  BY DEF AnswerFails
<1>1. UNCHANGED <<helperVars, scopeVars, arriving, settled, streamVars, birthVars,
                  returned>> /\ Ends(t)
  BY DEF AnswerFails
<1>2. c \in Calls /\ "failed" \in ReplyStates /\ local[t].asking \in Nat
  BY DEF TypeInv, TypeOK, Locals, ReplyStates
<1>3. reply' \in [Calls -> Seq(ReplyStates)]
  BY <1>2, ReplyType DEF TypeInv
<1>4. /\ local' \in [ToolCalls -> Locals]
      /\ \A u \in ToolCalls : local'[u].on \subseteq local[u].on
  BY <1>1, LocalsType DEF TypeInv
<1>5. CASE c \in OpenCalls
  <2>1. /\ queue' = [queue EXCEPT ![c] = <<local[t].asking>> \o @]
        /\ SetState(c, "input_required")
        /\ pc' = [Woken({c}) EXCEPT ![t] = "refused"]
    BY <1>5
  <2>2. pc' \in [ToolCalls -> PcStates]
    BY <2>1, WokenType DEF TypeInv, PcStates
  <2>3. /\ state' \in [Calls -> CallStates \cup {"none"}]
        /\ seq' \in [Calls -> Nat]
        /\ clock' \in Nat
    BY <1>2, <2>1, SetStateType DEF TypeInv
  <2>4. <<local[t].asking>> \o queue[c] \in Seq(Nat) /\ <<local[t].asking>> \o queue[c] # <<>>
    <3>1. queue[c] \in Seq(Nat)
      BY <1>2 DEF TypeInv, TypeOK
    <3>2. <<local[t].asking>> \in Seq(Nat)
      BY <1>2
    <3>3. \A p, q \in Seq(Nat) : p # <<>> => p \o q \in Seq(Nat) /\ p \o q # <<>>
      <4> SUFFICES ASSUME NEW p \in Seq(Nat), NEW q \in Seq(Nat), p # <<>>
                   PROVE  p \o q \in Seq(Nat) /\ p \o q # <<>>
        OBVIOUS
      <4>1. p \o q \in Seq(Nat) /\ Len(p \o q) = Len(p) + Len(q)
        OBVIOUS
      <4>2. Len(p) # 0 /\ Len(q) \in Nat /\ Len(p) \in Nat
        OBVIOUS
      <4>3. QED
        BY <4>1, <4>2
    <3>4. QED
      BY <3>1, <3>2, <3>3
  <2>5. queue' \in [Calls -> Seq(Nat)]
    BY <2>1, <2>4 DEF TypeInv, TypeOK
  <2>6. TypeOK'
    BY <1>1, <1>3, <1>4, <2>2, <2>3, <2>5
       DEF TypeInv, TypeOK, helperVars, scopeVars, streamVars, birthVars
  <2>7. state' = [state EXCEPT ![c] = "input_required"]
    BY <2>1 DEF SetState
  <2>8. \A d \in Calls : state'[d] = "none" <=> state[d] = "none"
    BY <1>2, <1>5, <2>7 DEF TypeInv, TypeOK, OpenCalls
  <2>9. KnownCalls'
    BY <1>1, <1>4, <2>8, KnownKept DEF scopeVars, birthVars
  <2>10. Shown'
    BY <1>2, <2>1, <2>4, <2>7 DEF TypeInv, TypeOK, Shown
  <2>11. QED
    BY <2>6, <2>9, <2>10 DEF TypeInv
<1>6. CASE c \notin OpenCalls
  <2>1. pc' \in [ToolCalls -> PcStates] /\ UNCHANGED callVars
    BY <1>1, <1>6 DEF TypeInv, TypeOK, PcStates, callVars
  <2>2. \A u \in ToolCalls : \A d \in local'[u].on : state[d] # "none"
    BY <1>4 DEF TypeInv, KnownCalls
  <2>3. QED
    BY <1>1, <1>3, <1>4, <2>1, <2>2, TypeToolOnly DEF TypeInv, TypeOK, scopeVars
<1>7. QED
  BY <1>5, <1>6

LEMMA TypeCancelAgent ==
  ASSUME TypeInv, NEW t \in ToolCalls, NEW s \in Scopes, NEW c \in Calls, CancelAgent(t, s, c)
  PROVE  TypeInv'
<1>1. UNCHANGED <<helperVars, scopeVars, streamVars, birthVars, returned>>
  BY DEF CancelAgent
<1>2. CASE c \in tracked[s]
  <2>1. /\ Cancel({c})
        /\ pc' = [Woken({c} \cap OpenCalls) EXCEPT ![t] = "collecting"]
        /\ local' = [local EXCEPT ![t] = Begin(t, s, {c})]
    BY <1>2 DEF CancelAgent
  <2>2. {c} \in SUBSET Calls
    OBVIOUS
  <2>3. Begin(t, s, {c}) \in Locals /\ Begin(t, s, {c}).on = {c}
    BY <2>2, LocalsType DEF TypeInv
  <2>4. pc' \in [ToolCalls -> PcStates]
    BY <2>1, WokenType DEF TypeInv, PcStates
  <2>5. local' \in [ToolCalls -> Locals]
    BY <2>1, <2>3 DEF TypeInv, TypeOK
  <2>6. TypeOK'
    BY <1>1, <2>1, <2>2, <2>4, <2>5, CancelType
       DEF TypeInv, TypeOK, helperVars, scopeVars, streamVars, birthVars
  <2>7. \A d \in Calls : state'[d] = "none" <=> state[d] = "none"
    BY <2>1, <2>2, CancelType
  <2>8. ASSUME NEW u \in ToolCalls, NEW d \in local'[u].on
        PROVE  state'[d] # "none"
    <3>1. CASE u = t
      <4>1. d = c
        BY <3>1, <2>1, <2>3 DEF TypeInv, TypeOK
      <4>2. QED
        BY <4>1, <1>2, <2>7 DEF TypeInv, KnownCalls
    <3>2. CASE u # t
      <4>1. local'[u] = local[u]
        BY <3>2, <2>1 DEF TypeInv, TypeOK
      <4>2. QED
        BY <4>1, <2>7 DEF TypeInv, TypeOK, KnownCalls, Locals
    <3>3. QED
      BY <3>1, <3>2
  <2>9. /\ \A u \in Scopes : \A d \in tracked'[u] : state'[d] # "none"
        /\ \A d \in Calls : d > started' => state'[d] = "none"
    BY <1>1, <2>7 DEF TypeInv, TypeOK, KnownCalls, scopeVars, birthVars
  <2>10. KnownCalls'
    BY <2>8, <2>9 DEF KnownCalls
  <2>11. QED
    BY <2>1, <2>2, <2>6, <2>10, CancelType DEF TypeInv
<1>3. CASE c \notin tracked[s]
  <2>1. Refused(t) /\ UNCHANGED <<callVars, reply>>
    BY <1>3 DEF CancelAgent
  <2>2. QED
    BY <1>1, <2>1, RefusedType, TypeToolOnly DEF TypeInv, TypeOK, scopeVars
<1>4. QED
  BY <1>2, <1>3

(* The reader's steps at a message or a file.                              *)
LEMMA TypeReading ==
  ASSUME TypeInv, NEW c \in Calls,
         \/ \E attached \in BOOLEAN : ReadResponse(c, attached)
         \/ FilesSaved(c)
         \/ StreamEnds(c)
  PROVE  TypeInv'
<1>1. CASE \E attached \in BOOLEAN : ReadResponse(c, attached)
  <2>1. PICK attached \in BOOLEAN : ReadResponse(c, attached)
    BY <1>1
  <2>2. text' \in [Calls -> Nat] /\ reader' \in [Calls -> ReaderStates]
    <3>1. text' = [text EXCEPT ![c] = @ + 1]
      BY <2>1 DEF ReadResponse
    <3>2. text' \in [Calls -> Nat]
      <4>1. text \in [Calls -> Nat]
        BY DEF TypeInv, TypeOK
      <4>2. text[c] + 1 \in Nat
        BY <4>1
      <4>3. QED
        BY <3>1, <4>1, <4>2
    <3>3. reader' = [reader EXCEPT ![c] = IF attached THEN "saving" ELSE "reading"]
      BY <2>1 DEF ReadResponse
    <3>4. QED
      BY <3>2, <3>3 DEF TypeInv, TypeOK, ReaderStates
  <2>3. UNCHANGED <<helperVars, scopeVars, callVars, files, birthVars, reply, pc, toolVars>>
    BY <2>1 DEF ReadResponse
  <2>4. QED
    BY <2>2, <2>3, TypeQuiet DEF TypeInv, TypeOK, helperVars, scopeVars, toolVars
<1>2. CASE FilesSaved(c)
  <2>1. files' \in [Calls -> Nat] /\ reader' \in [Calls -> ReaderStates]
    <3>1. /\ files' = [files EXCEPT ![c] = @ + 1]
          /\ reader' = [reader EXCEPT ![c] = "reading"]
      BY <1>2 DEF FilesSaved
    <3>2. files' \in [Calls -> Nat]
      <4>1. files \in [Calls -> Nat]
        BY DEF TypeInv, TypeOK
      <4>2. files[c] + 1 \in Nat
        BY <4>1
      <4>3. QED
        BY <3>1, <4>1, <4>2
    <3>3. QED
      BY <3>1, <3>2 DEF TypeInv, TypeOK, ReaderStates
  <2>2. UNCHANGED <<helperVars, scopeVars, callVars, text, birthVars, reply, pc, toolVars>>
    BY <1>2 DEF FilesSaved
  <2>3. QED
    BY <2>1, <2>2, TypeQuiet DEF TypeInv, TypeOK, helperVars, scopeVars, toolVars
<1>3. CASE StreamEnds(c)
  <2>1. reader' \in [Calls -> ReaderStates]
    BY <1>3 DEF StreamEnds, TypeInv, TypeOK, ReaderStates
  <2>2. UNCHANGED <<helperVars, scopeVars, callVars, text, files, birthVars, reply, pc, toolVars>>
    BY <1>3 DEF StreamEnds
  <2>3. QED
    BY <2>1, <2>2, TypeQuiet DEF TypeInv, TypeOK, helperVars, scopeVars, toolVars
<1>4. QED
  BY <1>1, <1>2, <1>3

(* Steps of the reader that change calls: what all of them leave alone.    *)
LEMMA TypeReader ==
  ASSUME TypeInv,
         UNCHANGED <<helperVars, scopeVars, text, files, birthVars, toolVars>>,
         /\ state' \in [Calls -> CallStates \cup {"none"}]
         /\ seq' \in [Calls -> Nat]
         /\ clock' \in Nat
         /\ queue' \in [Calls -> Seq(Nat)]
         /\ arriving' \in [Calls -> Nat]
         /\ settled' \in [Calls -> {"no", "awaited", "unawaited"}]
         /\ reply' \in [Calls -> Seq(ReplyStates)]
         /\ reader' \in [Calls -> ReaderStates]
         /\ pc' \in [ToolCalls -> PcStates]
         /\ \A c \in Calls : state'[c] = "none" <=> state[c] = "none",
         Shown'
  PROVE  TypeInv'
<1>1. TypeOK'
  BY DEF TypeInv, TypeOK, helperVars, scopeVars, birthVars, toolVars
<1>2. KnownCalls'
  BY KnownKept DEF scopeVars, birthVars, toolVars
<1>3. QED
  BY <1>1, <1>2 DEF TypeInv

LEMMA TypeReadQuery ==
  ASSUME TypeInv, NEW c \in Calls, ReadQuery(c)
  PROVE  TypeInv'
<1>1. UNCHANGED <<helperVars, scopeVars, state, seq, clock, queue, settled, text, files,
                  birthVars, pc, toolVars>>
  BY DEF ReadQuery
<1>2. PICK r \in ReplyStates : reply' = [reply EXCEPT ![c] = Append(@, r)]
  BY DEF ReadQuery, ReplyStates
<1>3. reply' \in [Calls -> Seq(ReplyStates)]
  BY <1>2, ReplyType DEF TypeInv
<1>4. arriving' \in [Calls -> Nat] /\ reader' \in [Calls -> ReaderStates]
  <2>1. Len(reply[c]) + 1 \in Nat
    <3>1. reply[c] \in Seq(ReplyStates)
      BY DEF TypeInv, TypeOK
    <3>2. QED
      BY <3>1
  <2>2. arriving' \in [Calls -> Nat]
    <3>1. arriving' = [arriving EXCEPT ![c] = Len(reply[c]) + 1] \/ arriving' = arriving
      BY DEF ReadQuery
    <3>2. arriving \in [Calls -> Nat]
      BY DEF TypeInv, TypeOK
    <3>3. QED
      BY <2>1, <3>1, <3>2
  <2>3. reader' \in [Calls -> ReaderStates]
    BY DEF ReadQuery, TypeInv, TypeOK, ReaderStates
  <2>4. QED
    BY <2>2, <2>3
<1>5. Shown'
  BY <1>1 DEF TypeInv, Shown
<1>6. QED
  BY <1>1, <1>3, <1>4, <1>5, TypeReader DEF TypeInv, TypeOK

LEMMA TypeTakenIn ==
  ASSUME TypeInv, NEW c \in Calls, TakenIn(c)
  PROVE  TypeInv'
<1>1. /\ UNCHANGED <<helperVars, scopeVars, settled, text, files, birthVars, reply, toolVars>>
      /\ reader' = [reader EXCEPT ![c] = "reading"]
  BY DEF TakenIn
<1>2. reader' \in [Calls -> ReaderStates]
  BY <1>1 DEF TypeInv, TypeOK, ReaderStates
<1>3. CASE c \in OpenCalls
  <2>1. /\ arriving' = [arriving EXCEPT ![c] = 0]
        /\ queue' = [queue EXCEPT ![c] = Append(@, arriving[c])]
    BY <1>3 DEF TakenIn
  <2>2. Append(queue[c], arriving[c]) \in Seq(Nat) /\ Append(queue[c], arriving[c]) # <<>>
    <3>1. queue[c] \in Seq(Nat) /\ arriving[c] \in Nat
      BY DEF TypeInv, TypeOK
    <3>2. \A q \in Seq(Nat), a \in Nat : Append(q, a) \in Seq(Nat) /\ Append(q, a) # <<>>
      <4> SUFFICES ASSUME NEW q \in Seq(Nat), NEW a \in Nat
                   PROVE  Append(q, a) \in Seq(Nat) /\ Append(q, a) # <<>>
        OBVIOUS
      <4>1. Append(q, a) \in Seq(Nat) /\ Len(Append(q, a)) = Len(q) + 1
        OBVIOUS
      <4>2. Len(q) \in Nat
        OBVIOUS
      <4>3. QED
        BY <4>1, <4>2
    <3>3. QED
      BY <3>1, <3>2
  <2>3. queue' \in [Calls -> Seq(Nat)] /\ arriving' \in [Calls -> Nat]
    BY <2>1, <2>2 DEF TypeInv, TypeOK
  <2>4. CASE state[c] = "running"
    <3>1. SetState(c, "input_required") /\ pc' = Woken({c})
      BY <1>3, <2>4 DEF TakenIn
    <3>2. pc' \in [ToolCalls -> PcStates]
      BY <3>1, WokenType DEF TypeInv
    <3>3. /\ state' \in [Calls -> CallStates \cup {"none"}]
          /\ seq' \in [Calls -> Nat]
          /\ clock' \in Nat
      BY <3>1, SetStateType DEF TypeInv
    <3>4. state' = [state EXCEPT ![c] = "input_required"]
      BY <3>1 DEF SetState
    <3>5. \A d \in Calls : state'[d] = "none" <=> state[d] = "none"
      BY <2>4, <3>4 DEF TypeInv, TypeOK
    <3>6. Shown'
      BY <2>1, <2>2, <3>4 DEF TypeInv, TypeOK, Shown
    <3>7. QED
      BY <1>1, <1>2, <2>3, <3>2, <3>3, <3>5, <3>6, TypeReader DEF TypeInv, TypeOK
  <2>5. CASE state[c] # "running"
    <3>1. UNCHANGED <<state, clock, seq, pc>>
      BY <1>3, <2>5 DEF TakenIn
    <3>2. state[c] = "input_required"
      BY <1>3, <2>5 DEF OpenCalls
    <3>3. Shown'
      BY <2>1, <2>2, <3>1, <3>2 DEF TypeInv, TypeOK, Shown
    <3>4. QED
      BY <1>1, <1>2, <2>3, <3>1, <3>3, TypeReader DEF TypeInv, TypeOK
  <2>6. QED
    BY <2>4, <2>5
<1>4. CASE c \notin OpenCalls
  <2>1. UNCHANGED <<arriving, queue, state, clock, seq, pc>>
    BY <1>4 DEF TakenIn
  <2>2. Shown'
    BY <2>1 DEF TypeInv, Shown
  <2>3. QED
    BY <1>1, <1>2, <2>1, <2>2, TypeReader DEF TypeInv, TypeOK
<1>5. QED
  BY <1>3, <1>4

LEMMA TypeSettles ==
  ASSUME TypeInv, NEW c \in Calls,
         Complete(c) \/ \E end \in {"failed", "expired"} : ReaderFails(c, end)
  PROVE  TypeInv'
<1>1. /\ UNCHANGED <<helperVars, scopeVars, text, files, birthVars, toolVars>>
      /\ reader' = [reader EXCEPT ![c] = "done"]
      /\ pc' = Woken({c} \cap OpenCalls)
  BY DEF Complete, ReaderFails
<1>2. PICK end \in FinalStates : Finish({c} \cap OpenCalls, end)
  BY DEF Complete, ReaderFails
<1>3. {c} \cap OpenCalls \in SUBSET OpenCalls
  OBVIOUS
<1>4. reply' \in [Calls -> Seq(ReplyStates)]
  <2>1. CASE Complete(c)
    BY <2>1 DEF Complete, TypeInv, TypeOK
  <2>2. CASE \E e \in {"failed", "expired"} : ReaderFails(c, e)
    <3>1. PICK sent \in BOOLEAN : Refuse({c} \cap OpenCalls, sent)
      BY <2>2 DEF ReaderFails
    <3>2. QED
      BY <3>1, RefuseType DEF TypeInv
  <2>3. QED
    BY <2>1, <2>2
<1>5. reader' \in [Calls -> ReaderStates]
  BY <1>1 DEF TypeInv, TypeOK, ReaderStates
<1>6. pc' \in [ToolCalls -> PcStates]
  BY <1>1, WokenType DEF TypeInv
<1>7. /\ state' \in [Calls -> CallStates \cup {"none"}]
      /\ seq' \in [Calls -> Nat]
      /\ clock' \in Nat
      /\ queue' \in [Calls -> Seq(Nat)]
      /\ arriving' \in [Calls -> Nat]
      /\ settled' \in [Calls -> {"no", "awaited", "unawaited"}]
  BY <1>2, <1>3, FinishType DEF TypeInv
<1>8. /\ \A d \in Calls : state'[d] = "none" <=> state[d] = "none"
      /\ Shown'
  BY <1>2, <1>3, FinishShown
<1>9. QED
  BY <1>1, <1>4, <1>5, <1>6, <1>7, <1>8, TypeReader

-----------------------------------------------------------------------------
(* The scopes: the limit itself, the reservations, and that no open call   *)
(* outlives its scope.  One inductive invariant carries all of it with the *)
(* types: reserved stays a natural number only because each reservation is *)
(* held, and Reserve makes room only because the limit holds.              *)

(* Every open call is tracked by the scope it started in, so closing the   *)
(* scope finds it.                                                         *)
OpenCallsTracked == \A c \in Calls : c \in OpenCalls => c \in tracked[home[c]]

Inv == TypeInv /\ Reservations /\ Capacity /\ OpenCallsTracked /\ NoOpenCallInClosedScope

(* A set of natural numbers has a least element.                           *)
LEMMA Least ==
  ASSUME NEW T \in SUBSET Nat, T # {}
  PROVE  \E x \in T : \A y \in T : x <= y
<1> DEFINE R == {ss \in Nat \X Nat : ss[1] < ss[2]}
<1>1. IsWellFoundedOn(R, Nat)
  BY NatLessThanWellFounded, Zenon DEF OpToRel
<1>2. PICK x \in T : \A y \in T : ~(<<y, x>> \in R)
  BY <1>1, WFMin
<1>3. ASSUME NEW y \in T PROVE x <= y
  <2>1. <<y, x>> \notin R /\ x \in Nat /\ y \in Nat
    BY <1>2
  <2>2. ~(y < x)
    BY <2>1
  <2>3. QED
    BY <2>1, <2>2
<1>4. QED
  BY <1>3

(* A scope with a finished call has one that finished longest ago.         *)
LEMMA OldestExists ==
  ASSUME TypeInv, NEW s \in Scopes, Finished(s) # {}
  PROVE  Oldest(s) # {} /\ Oldest(s) \subseteq tracked[s]
<1> DEFINE T == {seq[c] : c \in Finished(s)}
<1>1. Finished(s) \subseteq Calls /\ Finished(s) \subseteq tracked[s]
  BY DEF TypeInv, TypeOK, Finished
<1>2. T \in SUBSET Nat /\ T # {}
  BY <1>1 DEF TypeInv, TypeOK
<1>3. PICK x \in T : \A y \in T : x <= y
  BY <1>2, Least
<1>4. QED
  BY <1>1, <1>3 DEF Oldest

(* Steps that admit nobody leave the reservations held.                    *)
LEMMA HoldersKept ==
  ASSUME TypeInv, Reservations, UNCHANGED reserved,
         \A t \in ToolCalls : /\ pc'[t] = "admitted" <=> pc[t] = "admitted"
                              /\ pc[t] = "admitted" => local'[t] = local[t]
  PROVE  Reservations'
<1>1. \A s \in Scopes : Holders(s)' = Holders(s)
  BY DEF Holders
<1>2. QED
  BY <1>1 DEF Reservations

(* Admitting, and leaving: the holder is one more, or one less.            *)
LEMMA HolderComes ==
  ASSUME TypeInv, Reservations, NEW t \in ToolCalls, pc[t] # "admitted",
         pc' = [pc EXCEPT ![t] = "admitted"], UNCHANGED local,
         reserved' = [reserved EXCEPT ![local[t].scope] = @ + 1]
  PROVE  Reservations'
<1> DEFINE s == local[t].scope
<1>1. s \in Scopes
  BY DEF TypeInv, TypeOK, Locals
<1>2. ASSUME NEW r \in Scopes
      PROVE  IsFiniteSet(Holders(r)') /\ reserved'[r] = Cardinality(Holders(r)')
  <2>1. IsFiniteSet(Holders(r)) /\ reserved[r] = Cardinality(Holders(r))
    BY DEF Reservations
  <2>2. CASE r = s
    <3>1. Holders(r)' = Holders(r) \cup {t} /\ t \notin Holders(r)
      BY <2>2 DEF Holders, TypeInv, TypeOK
    <3>2. /\ IsFiniteSet(Holders(r) \cup {t})
          /\ Cardinality(Holders(r) \cup {t}) = Cardinality(Holders(r)) + 1
      BY <2>1, <3>1, FS_AddElement
    <3>3. reserved'[r] = reserved[r] + 1
      BY <1>1, <2>2 DEF TypeInv, TypeOK
    <3>4. QED
      BY <2>1, <3>1, <3>2, <3>3
  <2>3. CASE r # s
    <3>1. Holders(r)' = Holders(r) /\ reserved'[r] = reserved[r]
      BY <1>1, <2>3 DEF Holders, TypeInv, TypeOK
    <3>2. QED
      BY <2>1, <3>1
  <2>4. QED
    BY <2>2, <2>3
<1>3. QED
  BY <1>2 DEF Reservations

LEMMA HolderGoes ==
  ASSUME TypeInv, Reservations, NEW t \in ToolCalls, pc[t] = "admitted",
         NEW p \in PcStates \ {"admitted"}, pc' = [pc EXCEPT ![t] = p],
         \A u \in ToolCalls \ {t} : local'[u] = local[u],
         reserved' = [reserved EXCEPT ![local[t].scope] = @ - 1]
  PROVE  Reservations'
<1> DEFINE s == local[t].scope
<1>1. s \in Scopes
  BY DEF TypeInv, TypeOK, Locals
<1>2. ASSUME NEW r \in Scopes
      PROVE  IsFiniteSet(Holders(r)') /\ reserved'[r] = Cardinality(Holders(r)')
  <2>1. IsFiniteSet(Holders(r)) /\ reserved[r] = Cardinality(Holders(r))
    BY DEF Reservations
  <2>2. CASE r = s
    <3>1. Holders(r)' = Holders(r) \ {t} /\ t \in Holders(r)
      BY <2>2 DEF Holders, TypeInv, TypeOK
    <3>2. /\ IsFiniteSet(Holders(r) \ {t})
          /\ Cardinality(Holders(r) \ {t}) = Cardinality(Holders(r)) - 1
      BY <2>1, <3>1, FS_RemoveElement
    <3>3. reserved'[r] = reserved[r] - 1
      BY <1>1, <2>2 DEF TypeInv, TypeOK
    <3>4. QED
      BY <2>1, <3>1, <3>2, <3>3
  <2>3. CASE r # s
    <3>1. Holders(r)' = Holders(r) /\ reserved'[r] = reserved[r]
      BY <1>1, <2>3 DEF Holders, TypeInv, TypeOK
    <3>2. QED
      BY <2>1, <3>1
  <2>4. QED
    BY <2>2, <2>3
<1>3. QED
  BY <1>2 DEF Reservations

-----------------------------------------------------------------------------
(* Most steps admit nobody, start no call and leave the scopes alone.      *)
Reopens == \E c \in Calls : state'[c] \in OpenStates /\ state[c] \notin OpenStates

Unadmitted(t) == /\ pc'[t] = "admitted" <=> pc[t] = "admitted"
                 /\ pc[t] = "admitted" => local'[t] = local[t]

Quiet == /\ UNCHANGED <<scopeVars, phase, home>>
         /\ ~Reopens
         /\ \A t \in ToolCalls : Unadmitted(t)

LEMMA QuietKeeps ==
  ASSUME Inv, Quiet, TypeInv'
  PROVE  Inv'
<1>1. Reservations'
  BY HoldersKept DEF Inv, Quiet, Unadmitted, scopeVars
<1>2. Capacity'
  BY DEF Inv, Quiet, Capacity, scopeVars
<1>3. OpenCallsTracked' /\ NoOpenCallInClosedScope'
  BY DEF Inv, Quiet, Reopens, OpenCallsTracked, NoOpenCallInClosedScope, OpenCalls, scopeVars
<1>4. QED
  BY <1>1, <1>2, <1>3 DEF Inv

LEMMA FinishReopensNothing ==
  ASSUME NEW cs, NEW end \in FinalStates, Finish(cs, end)
  PROVE  ~Reopens
<1>1. ASSUME NEW c \in Calls, state'[c] \in OpenStates
      PROVE  state[c] \in OpenStates
  <2>1. state'[c] = IF c \in cs THEN end ELSE state[c]
    BY DEF Finish
  <2>2. QED
    BY <1>1, <2>1
<1>2. QED
  BY <1>1 DEF Reopens

(* A tool call's own steps, and those that wake others.                    *)
LEMMA OwnStep ==
  ASSUME TypeInv, NEW t \in ToolCalls, pc[t] # "admitted",
         NEW p \in PcStates \ {"admitted"}, NEW cs,
         pc' \in {[pc EXCEPT ![t] = p], Woken(cs), [Woken(cs) EXCEPT ![t] = p]},
         \A u \in ToolCalls \ {t} : local'[u] = local[u]
  PROVE  \A u \in ToolCalls : Unadmitted(u)
<1>1. \A u \in ToolCalls : Woken(cs)[u] = "admitted" <=> pc[u] = "admitted"
  BY WokenType DEF TypeInv
<1>2. Woken(cs) \in [ToolCalls -> PcStates]
  BY WokenType DEF TypeInv
<1>3. \A u \in ToolCalls : pc'[u] = "admitted" <=> pc[u] = "admitted"
  BY <1>1, <1>2 DEF TypeInv, TypeOK
<1>4. QED
  BY <1>3 DEF Unadmitted

LEMMA QuietTool ==
  ASSUME Inv, NEW t \in ToolCalls,
         \/ \E s \in Scopes :
              \/ \E wait \in BOOLEAN : PromptAgent(t, s, wait)
              \/ \E cs \in (SUBSET Calls) \ {{}} : WaitAgent(t, s, cs)
              \/ \E c \in Calls, wait \in BOOLEAN : AnswerAgent(t, s, c, wait)
              \/ \E c \in Calls : CancelAgent(t, s, c)
         \/ ResolveFails(t) \/ UntilReady(t) \/ WaitTurn(t) \/ Collect(t)
         \/ AnswerSent(t) \/ AnswerFails(t) \/ Abort(t) \/ Deadline(t)
  PROVE  Quiet
<1> USE DEF Inv, helperVars, scopeVars, birthVars
<1>1. CASE \E s \in Scopes, wait \in BOOLEAN : PromptAgent(t, s, wait)
  <2>1. PICK s \in Scopes, wait \in BOOLEAN : PromptAgent(t, s, wait)
    BY <1>1
  <2>2. UNCHANGED <<scopeVars, phase, home, state>> /\ pc[t] # "admitted"
    BY <2>1 DEF PromptAgent, Execute, callVars
  <2>3. \A u \in ToolCalls \ {t} : local'[u] = local[u]
    BY <2>1 DEF PromptAgent, Refused, Ends, TypeInv, TypeOK
  <2>4. PICK p \in {"refused", "resolving"} : pc' = [pc EXCEPT ![t] = p]
    BY <2>1 DEF PromptAgent, Refused
  <2>5. QED
    BY <2>2, <2>3, <2>4, OwnStep DEF Quiet, Reopens, PcStates
<1>2. CASE \E s \in Scopes, cs \in SUBSET Calls : WaitAgent(t, s, cs)
  <2>1. PICK s \in Scopes, cs \in SUBSET Calls : WaitAgent(t, s, cs)
    BY <1>2
  <2>2. UNCHANGED <<scopeVars, phase, home, state>> /\ pc[t] # "admitted"
    BY <2>1 DEF WaitAgent, Execute, callVars
  <2>3. \A u \in ToolCalls \ {t} : local'[u] = local[u]
    BY <2>1 DEF WaitAgent, Refused, Ends, TypeInv, TypeOK
  <2>4. PICK p \in {"refused", "waitAgent"} : pc' = [pc EXCEPT ![t] = p]
    BY <2>1 DEF WaitAgent, Refused
  <2>5. QED
    BY <2>2, <2>3, <2>4, OwnStep DEF Quiet, Reopens, PcStates
<1>3. CASE \E s \in Scopes, c \in Calls, wait \in BOOLEAN : AnswerAgent(t, s, c, wait)
  <2>1. PICK s \in Scopes, c \in Calls, wait \in BOOLEAN : AnswerAgent(t, s, c, wait)
    BY <1>3
  <2>2. UNCHANGED <<scopeVars, phase, home>> /\ pc[t] # "admitted"
    BY <2>1 DEF AnswerAgent, Execute
  <2>3. \A u \in ToolCalls \ {t} : local'[u] = local[u]
    BY <2>1 DEF AnswerAgent, Refused, Ends, TypeInv, TypeOK
  <2>4. \/ pc' = [pc EXCEPT ![t] = "refused"]
        \/ pc' = [Woken({c}) EXCEPT ![t] = "answering"]
    BY <2>1 DEF AnswerAgent, Refused
  <2>5. \A u \in ToolCalls : Unadmitted(u)
    BY <2>2, <2>3, <2>4, OwnStep DEF PcStates
  <2>6. ~Reopens
    <3>1. \/ state' = state
          \/ /\ state[c] = "input_required"
             /\ \E st \in OpenStates : state' = [state EXCEPT ![c] = st]
      BY <2>1 DEF AnswerAgent, SetState
    <3>2. QED
      BY <3>1 DEF Reopens, TypeInv, TypeOK
  <2>7. QED
    BY <2>2, <2>5, <2>6 DEF Quiet
<1>4. CASE \E s \in Scopes, c \in Calls : CancelAgent(t, s, c)
  <2>1. PICK s \in Scopes, c \in Calls : CancelAgent(t, s, c)
    BY <1>4
  <2>2. UNCHANGED <<scopeVars, phase, home>> /\ pc[t] # "admitted"
    BY <2>1 DEF CancelAgent, Execute
  <2>3. \A u \in ToolCalls \ {t} : local'[u] = local[u]
    BY <2>1 DEF CancelAgent, Refused, Ends, TypeInv, TypeOK
  <2>4. \/ pc' = [pc EXCEPT ![t] = "refused"]
        \/ pc' = [Woken({c} \cap OpenCalls) EXCEPT ![t] = "collecting"]
    BY <2>1 DEF CancelAgent, Refused
  <2>5. \A u \in ToolCalls : Unadmitted(u)
    BY <2>2, <2>3, <2>4, OwnStep DEF PcStates
  <2>6. CASE c \in tracked[s]
    <3>1. Finish({c} \cap OpenCalls, "cancelled")
      BY <2>1, <2>6 DEF CancelAgent, Cancel
    <3>2. ~Reopens
      BY <3>1, FinishReopensNothing
    <3>3. QED
      BY <2>2, <2>5, <3>2 DEF Quiet
  <2>7. CASE c \notin tracked[s]
    BY <2>1, <2>2, <2>5, <2>7 DEF CancelAgent, callVars, Quiet, Reopens
  <2>8. QED
    BY <2>6, <2>7
<1>5. CASE ResolveFails(t)
  <2>1. UNCHANGED <<scopeVars, phase, home, state>> /\ pc[t] # "admitted"
    BY <1>5 DEF ResolveFails, callVars
  <2>2. \A u \in ToolCalls \ {t} : local'[u] = local[u]
    BY <1>5 DEF ResolveFails, Refused, Ends, TypeInv, TypeOK
  <2>3. pc' = [pc EXCEPT ![t] = "refused"]
    BY <1>5 DEF ResolveFails, Refused
  <2>4. QED
    BY <2>1, <2>2, <2>3, OwnStep DEF Quiet, Reopens, PcStates
<1>6. CASE UntilReady(t)
  <2>1. UNCHANGED <<scopeVars, phase, home>> /\ pc[t] # "admitted"
    BY <1>6 DEF UntilReady
  <2>2. PICK c \in local[t].on :
          \/ Give(t, c) /\ UNCHANGED state
          \/ UNCHANGED local /\ Cancel({c}) /\ pc' = Woken({c})
          \/ UNCHANGED <<local, state>> /\ pc' = [pc EXCEPT ![t] = "awaitReady"]
    BY <1>6 DEF UntilReady, callVars
  <2>3. CASE Give(t, c) /\ UNCHANGED state
    BY <2>1, <2>3, OwnStep DEF Give, Ends, TypeInv, TypeOK, Quiet, Reopens, PcStates
  <2>4. CASE UNCHANGED local /\ Cancel({c}) /\ pc' = Woken({c})
    <3>1. Finish({c} \cap OpenCalls, "cancelled")
      BY <2>4 DEF Cancel
    <3>2. ~Reopens
      BY <3>1, FinishReopensNothing
    <3>3. \A u \in ToolCalls : Unadmitted(u)
      BY <2>4, WokenType DEF TypeInv, Unadmitted
    <3>4. QED
      BY <2>1, <3>2, <3>3 DEF Quiet
  <2>5. CASE UNCHANGED <<local, state>> /\ pc' = [pc EXCEPT ![t] = "awaitReady"]
    BY <2>1, <2>5, OwnStep DEF Quiet, Reopens, PcStates
  <2>6. QED
    BY <2>2, <2>3, <2>4, <2>5
<1>7. CASE WaitTurn(t) \/ Collect(t)
  <2>1. UNCHANGED <<scopeVars, phase, home, state>> /\ pc[t] # "admitted"
    BY <1>7 DEF WaitTurn, Collect, callVars
  <2>2. \A u \in ToolCalls \ {t} : local'[u] = local[u]
    BY <1>7 DEF WaitTurn, Collect, Give, Ends, TypeInv, TypeOK
  <2>3. PICK p \in {"done", "awaitAny"} : pc' = [pc EXCEPT ![t] = p]
    BY <1>7 DEF WaitTurn, Collect, Give
  <2>4. QED
    BY <2>1, <2>2, <2>3, OwnStep DEF Quiet, Reopens, PcStates
<1>8. CASE AnswerSent(t)
  <2>1. UNCHANGED <<scopeVars, phase, home, state>> /\ pc[t] # "admitted"
    BY <1>8 DEF AnswerSent, callVars
  <2>2. \A u \in ToolCalls \ {t} : local'[u] = local[u]
    BY <1>8 DEF AnswerSent, Give, Ends, TypeInv, TypeOK
  <2>3. PICK p \in {"done", "untilReady"} : pc' = [pc EXCEPT ![t] = p]
    BY <1>8 DEF AnswerSent, Give
  <2>4. QED
    BY <2>1, <2>2, <2>3, OwnStep DEF Quiet, Reopens, PcStates
<1>9. CASE AnswerFails(t)
  <2>1. UNCHANGED <<scopeVars, phase, home>> /\ pc[t] # "admitted"
    BY <1>9 DEF AnswerFails
  <2>2. \A u \in ToolCalls \ {t} : local'[u] = local[u]
    BY <1>9 DEF AnswerFails, Ends, TypeInv, TypeOK
  <2>3. PICK c \in Calls :
          \/ /\ c \in OpenCalls
             /\ SetState(c, "input_required")
             /\ pc' = [Woken({c}) EXCEPT ![t] = "refused"]
          \/ pc' = [pc EXCEPT ![t] = "refused"] /\ UNCHANGED state
    BY <1>9 DEF AnswerFails, TypeInv, TypeOK, Locals
  <2>4. \A u \in ToolCalls : Unadmitted(u)
    BY <2>1, <2>2, <2>3, OwnStep DEF PcStates
  <2>5. ~Reopens
    BY <2>3 DEF SetState, OpenCalls, Reopens, TypeInv, TypeOK
  <2>6. QED
    BY <2>1, <2>4, <2>5 DEF Quiet
<1>10. CASE Abort(t) \/ Deadline(t)
  <2>1. UNCHANGED <<scopeVars, phase, home, state>> /\ pc[t] # "admitted"
    BY <1>10 DEF Abort, Deadline, callVars
  <2>2. \A u \in ToolCalls \ {t} : local'[u] = local[u]
    BY <1>10 DEF Abort, Deadline, TypeInv, TypeOK
  <2>3. PICK p \in {"untilReady", "waitAgent"} : pc' = [pc EXCEPT ![t] = p]
    BY <1>10 DEF Abort, Deadline
  <2>4. QED
    BY <2>1, <2>2, <2>3, OwnStep DEF Quiet, Reopens, PcStates
<1>11. QED
  BY <1>1, <1>2, <1>3, <1>4, <1>5, <1>6, <1>7, <1>8, <1>9, <1>10

(* No step of a reader admits, starts or reopens anything.                 *)
LEMMA QuietReader ==
  ASSUME Inv, NEW c \in Calls, ReaderStep(c)
  PROVE  Quiet
<1>1. UNCHANGED <<scopeVars, phase, home, local>>
  BY DEF ReaderStep, ReadResponse, FilesSaved, ReadQuery, TakenIn, StreamEnds, Complete,
         ReaderFails, helperVars, birthVars, toolVars
<1>2. PICK cs \in SUBSET Calls : pc' \in {pc, Woken(cs)}
  BY DEF ReaderStep, ReadResponse, FilesSaved, ReadQuery, TakenIn, StreamEnds, Complete,
         ReaderFails
<1>3. \A t \in ToolCalls : Unadmitted(t)
  BY <1>1, <1>2, WokenType DEF Inv, TypeInv, Unadmitted
<1>4. CASE UNCHANGED state
  BY <1>1, <1>3, <1>4 DEF Quiet, Reopens
<1>5. CASE TakenIn(c)
  <2>1. \/ state' = state
        \/ c \in OpenCalls /\ state' = [state EXCEPT ![c] = "input_required"]
    BY <1>5 DEF TakenIn, SetState
  <2>2. ~Reopens
    BY <2>1 DEF OpenCalls, Reopens, Inv, TypeInv, TypeOK
  <2>3. QED
    BY <1>1, <1>3, <2>2 DEF Quiet
<1>6. CASE Complete(c) \/ \E end \in {"failed", "expired"} : ReaderFails(c, end)
  <2>1. PICK end \in FinalStates : Finish({c} \cap OpenCalls, end)
    BY <1>6 DEF Complete, ReaderFails
  <2>2. ~Reopens
    BY <2>1, FinishReopensNothing
  <2>3. QED
    BY <1>1, <1>3, <2>2 DEF Quiet
<1>7. QED
  BY <1>4, <1>5, <1>6
     DEF ReaderStep, ReadResponse, FilesSaved, ReadQuery, StreamEnds, callVars

-----------------------------------------------------------------------------
(* The steps that move reservations, calls or scopes.                      *)

LEMMA ReserveKeeps ==
  ASSUME Inv, NEW t \in ToolCalls, Reserve(t), TypeInv'
  PROVE  Inv'
<1> DEFINE s == local[t].scope
           drop == IF HasRoom(s) THEN {} ELSE Oldest(s)
<1>1. s \in Scopes /\ pc[t] = "resolving" /\ UNCHANGED <<phase, home, state>>
  BY DEF Inv, TypeInv, TypeOK, Locals, Reserve, helperVars, birthVars, callVars
<1>2. CASE HasRoom(s) \/ Finished(s) # {}
  <2>1. /\ tracked' = [tracked EXCEPT ![s] = @ \ drop]
        /\ reserved' = [reserved EXCEPT ![s] = @ + 1]
        /\ pc' = [pc EXCEPT ![t] = "admitted"]
        /\ UNCHANGED local
    BY <1>2 DEF Reserve
  <2>2. Reservations'
    BY <1>1, <2>1, HolderComes DEF Inv
  <2>3. tracked[s] \in SUBSET Calls /\ reserved[s] \in Nat
    BY <1>1 DEF Inv, TypeInv, TypeOK
  <2>4. IsFiniteSet(tracked[s]) /\ Cardinality(tracked[s]) \in Nat
    BY <2>3, CallsFinite
  <2>5. /\ Cardinality(tracked[s]) + reserved[s] <= MaxCalls
        /\ HasRoom(s) <=> Cardinality(tracked[s]) + reserved[s] < MaxCalls
    BY <1>1 DEF Inv, Capacity, HasRoom
  <2>6. Cardinality(tracked[s] \ drop) + reserved[s] + 1 <= MaxCalls
    <3>1. CASE HasRoom(s)
      <4>1. tracked[s] \ drop = tracked[s]
        BY <3>1
      <4>2. QED
        BY <2>3, <2>4, <2>5, <3>1, <4>1, LimitAssumption
    <3>2. CASE ~HasRoom(s)
      <4>1. drop # {} /\ drop \subseteq tracked[s]
        BY <1>1, <1>2, <3>2, OldestExists DEF Inv
      <4> HIDE DEF drop
      <4>2. PICK c \in drop : TRUE
        BY <4>1
      <4>3. /\ IsFiniteSet(tracked[s] \ drop)
            /\ tracked[s] \ drop \subseteq tracked[s] \ {c}
        BY <2>4, <4>2, FS_Subset
      <4>4. /\ IsFiniteSet(tracked[s] \ {c})
            /\ Cardinality(tracked[s] \ {c}) = Cardinality(tracked[s]) - 1
        BY <2>4, <4>1, <4>2, FS_RemoveElement
      <4>5. Cardinality(tracked[s] \ drop) <= Cardinality(tracked[s] \ {c})
        BY <4>3, <4>4, FS_Subset
      <4>6. Cardinality(tracked[s] \ drop) \in Nat
        BY <4>3, FS_CardinalityType
      <4>7. QED
        BY <2>3, <2>4, <2>5, <4>4, <4>5, <4>6, LimitAssumption
    <3>3. QED
      BY <3>1, <3>2
  <2>7. Capacity'
    <3>1. ASSUME NEW r \in Scopes
          PROVE  Cardinality(tracked'[r]) + reserved'[r] <= MaxCalls
      <4>1. CASE r = s
        <5>1. tracked'[r] = tracked[s] \ drop /\ reserved'[r] = reserved[s] + 1
          BY <2>1, <4>1 DEF Inv, TypeInv, TypeOK
        <5>2. IsFiniteSet(tracked[s] \ drop)
          BY <2>4, FS_Subset
        <5>3. Cardinality(tracked[s] \ drop) \in Nat
          BY <5>2, FS_CardinalityType
        <5>4. QED
          BY <2>3, <2>6, <5>1, <5>3, LimitAssumption
      <4>2. CASE r # s
        <5>1. tracked'[r] = tracked[r] /\ reserved'[r] = reserved[r]
          BY <2>1, <4>2 DEF Inv, TypeInv, TypeOK
        <5>2. QED
          BY <5>1 DEF Inv, Capacity
      <4>3. QED
        BY <4>1, <4>2
    <3>2. QED
      BY <3>1 DEF Capacity
  <2>8. OpenCallsTracked'
    <3>1. drop \subseteq {c \in Calls : state[c] \in FinalStates}
      BY <1>1 DEF Oldest, Finished, Inv, TypeInv, TypeOK
    <3> HIDE DEF drop
    <3>2. QED
      BY <1>1, <2>1, <3>1 DEF Inv, TypeInv, TypeOK, OpenCallsTracked, OpenCalls
  <2>9. NoOpenCallInClosedScope'
    BY <1>1 DEF Inv, NoOpenCallInClosedScope, OpenCalls
  <2>10. QED
    BY <2>2, <2>7, <2>8, <2>9 DEF Inv
<1>3. CASE ~(HasRoom(s) \/ Finished(s) # {})
  <2>1. Refused(t) /\ UNCHANGED scopeVars
    BY <1>3 DEF Reserve
  <2>2. pc' = [pc EXCEPT ![t] = "refused"] /\ \A u \in ToolCalls \ {t} : local'[u] = local[u]
    BY <2>1 DEF Refused, Ends, Inv, TypeInv, TypeOK
  <2>3. Quiet
    BY <1>1, <2>1, <2>2, OwnStep DEF Inv, Quiet, Reopens, PcStates
  <2>4. QED
    BY <2>3, QuietKeeps
<1>4. QED
  BY <1>2, <1>3

LEMMA GiveUpKeeps ==
  ASSUME Inv, NEW t \in ToolCalls, GiveUp(t), TypeInv'
  PROVE  Inv'
<1> DEFINE s == local[t].scope
<1>1. /\ s \in Scopes /\ pc[t] = "admitted"
      /\ pc' = [pc EXCEPT ![t] = "refused"]
      /\ reserved' = [reserved EXCEPT ![s] = @ - 1]
      /\ UNCHANGED <<tracked, phase, home, state>>
  BY DEF Inv, TypeInv, TypeOK, Locals, GiveUp, Refused, helperVars, birthVars, callVars
<1>2. \A u \in ToolCalls \ {t} : local'[u] = local[u]
  BY DEF GiveUp, Refused, Ends, Inv, TypeInv, TypeOK
<1>3. Reservations'
  BY <1>1, <1>2, HolderGoes DEF Inv, PcStates
<1>4. Capacity'
  <2>1. ASSUME NEW r \in Scopes
        PROVE  Cardinality(tracked'[r]) + reserved'[r] <= MaxCalls
    <3>1. tracked[r] \in SUBSET Calls /\ reserved[r] \in Nat
      BY DEF Inv, TypeInv, TypeOK
    <3>2. Cardinality(tracked[r]) \in Nat
      BY <3>1, CallsFinite
    <3>3. reserved'[r] = reserved[r] \/ reserved'[r] = reserved[r] - 1
      BY <1>1 DEF Inv, TypeInv, TypeOK
    <3>4. Cardinality(tracked[r]) + reserved[r] <= MaxCalls
      BY DEF Inv, Capacity
    <3>5. QED
      BY <1>1, <3>1, <3>2, <3>3, <3>4, LimitAssumption
  <2>2. QED
    BY <2>1 DEF Capacity
<1>5. OpenCallsTracked' /\ NoOpenCallInClosedScope'
  BY <1>1 DEF Inv, OpenCallsTracked, NoOpenCallInClosedScope, OpenCalls
<1>6. QED
  BY <1>3, <1>4, <1>5 DEF Inv

LEMMA StartCallKeeps ==
  ASSUME Inv, NEW t \in ToolCalls, StartCall(t), TypeInv'
  PROVE  Inv'
<1> DEFINE s == local[t].scope
           c == started + 1
<1>1. /\ s \in Scopes /\ c \in Calls /\ state[c] = "none"
      /\ pc[t] = "admitted" /\ phase[s] # "closed"
  BY BoundsAssumption DEF Inv, TypeInv, TypeOK, KnownCalls, Locals, StartCall
<1>2. /\ reserved' = [reserved EXCEPT ![s] = @ - 1]
      /\ tracked' = [tracked EXCEPT ![s] = @ \cup {c}]
      /\ home' = [home EXCEPT ![c] = s]
      /\ state' = [state EXCEPT ![c] = "running"]
      /\ UNCHANGED phase
  BY DEF StartCall, helperVars
<1>3. Reservations'
  <2>1. PICK p \in {"untilReady", "done"} : pc' = [pc EXCEPT ![t] = p]
    BY DEF StartCall
  <2>2. \A u \in ToolCalls \ {t} : local'[u] = local[u]
    BY DEF StartCall, Ends, Inv, TypeInv, TypeOK
  <2>3. QED
    BY <1>1, <1>2, <2>1, <2>2, HolderGoes DEF Inv, PcStates
<1> HIDE DEF s, c
<1>4. Capacity'
  <2>1. ASSUME NEW r \in Scopes
        PROVE  Cardinality(tracked'[r]) + reserved'[r] <= MaxCalls
    <3>1. tracked[r] \in SUBSET Calls /\ reserved[r] \in Nat
      BY DEF Inv, TypeInv, TypeOK
    <3>2. IsFiniteSet(tracked[r]) /\ Cardinality(tracked[r]) \in Nat
      BY <3>1, CallsFinite
    <3>3. Cardinality(tracked[r]) + reserved[r] <= MaxCalls
      BY DEF Inv, Capacity
    <3>4. CASE r = s
      <4>1. tracked'[r] = tracked[r] \cup {c} /\ reserved'[r] = reserved[r] - 1
        BY <1>1, <1>2, <3>4 DEF Inv, TypeInv, TypeOK
      <4>2. /\ Cardinality(tracked[r] \cup {c}) <= Cardinality(tracked[r]) + 1
            /\ Cardinality(tracked[r] \cup {c}) \in Nat
        BY <3>2, FS_AddElement
      <4>3. QED
        BY <3>1, <3>2, <3>3, <4>1, <4>2, LimitAssumption
    <3>5. CASE r # s
      BY <1>1, <1>2, <3>3, <3>5 DEF Inv, TypeInv, TypeOK
    <3>6. QED
      BY <3>4, <3>5
  <2>2. QED
    BY <2>1 DEF Capacity
<1>5. OpenCallsTracked'
  <2>1. ASSUME NEW d \in Calls, state'[d] \in OpenStates
        PROVE  d \in tracked'[home'[d]]
    <3>1. CASE d = c
      BY <1>1, <1>2, <3>1 DEF Inv, TypeInv, TypeOK
    <3>2. CASE d # c
      <4>1. state[d] \in OpenStates /\ home'[d] = home[d] /\ home[d] \in Scopes
        BY <1>2, <2>1, <3>2 DEF Inv, TypeInv, TypeOK
      <4>2. d \in tracked[home[d]]
        BY <4>1 DEF Inv, OpenCallsTracked, OpenCalls
      <4>3. tracked[home[d]] \subseteq tracked'[home[d]]
        BY <1>1, <1>2, <4>1 DEF Inv, TypeInv, TypeOK
      <4>4. QED
        BY <4>1, <4>2, <4>3
    <3>3. QED
      BY <3>1, <3>2
  <2>2. QED
    BY <2>1 DEF OpenCallsTracked, OpenCalls
<1>6. NoOpenCallInClosedScope'
  <2>1. ASSUME NEW d \in Calls, phase'[home'[d]] = "closed", state'[d] \in OpenStates
        PROVE  FALSE
    <3>1. d # c
      BY <1>1, <1>2, <2>1 DEF Inv, TypeInv, TypeOK
    <3>2. home'[d] = home[d] /\ state'[d] = state[d]
      BY <1>2, <3>1 DEF Inv, TypeInv, TypeOK
    <3>3. QED
      BY <1>2, <2>1, <3>2 DEF Inv, NoOpenCallInClosedScope, OpenCalls
  <2>2. QED
    BY <2>1 DEF NoOpenCallInClosedScope, OpenCalls
<1>7. QED
  BY <1>3, <1>4, <1>5, <1>6 DEF Inv

(* Scopes that close take every call they track with them.                 *)
LEMMA CloseScopesKeeps ==
  ASSUME Inv, NEW ss \in SUBSET Scopes, CloseScopes(ss), TypeInv'
  PROVE  Inv'
<1> DEFINE cs == UNION {tracked[s] : s \in ss}
<1>1. /\ phase' = [s \in Scopes |-> IF s \in ss THEN "closed" ELSE phase[s]]
      /\ Finish(cs \cap OpenCalls, "cancelled")
      /\ pc' = Woken(cs \cap OpenCalls)
      /\ UNCHANGED <<tracked, reserved, home, local>>
  BY DEF CloseScopes, Cancel, scopeVars, birthVars, toolVars
<1>2. ~Reopens
  BY <1>1, FinishReopensNothing
<1>3. Reservations'
  <2>1. \A t \in ToolCalls : Unadmitted(t)
    BY <1>1, WokenType DEF Inv, TypeInv, Unadmitted
  <2>2. QED
    BY <1>1, <2>1, HoldersKept DEF Inv, Unadmitted
<1>4. Capacity'
  BY <1>1 DEF Inv, Capacity
<1>5. OpenCallsTracked'
  BY <1>1, <1>2 DEF Inv, OpenCallsTracked, OpenCalls, Reopens
<1>6. NoOpenCallInClosedScope'
  <2>1. ASSUME NEW d \in Calls, phase'[home[d]] = "closed", state'[d] \in OpenStates
        PROVE  FALSE
    <3>1. state[d] \in OpenStates /\ home[d] \in Scopes
      BY <1>2, <2>1 DEF Reopens, Inv, TypeInv, TypeOK
    <3>2. d \in tracked[home[d]]
      BY <3>1 DEF Inv, OpenCallsTracked, OpenCalls
    <3>3. CASE home[d] \in ss
      <4>1. d \in cs \cap OpenCalls
        BY <3>1, <3>2, <3>3 DEF OpenCalls
      <4>2. state'[d] = "cancelled"
        BY <1>1, <4>1 DEF Finish
      <4>3. QED
        BY <2>1, <4>2
    <3>4. CASE home[d] \notin ss
      <4>1. phase[home[d]] = "closed"
        BY <1>1, <2>1, <3>1, <3>4
      <4>2. QED
        BY <3>1, <4>1 DEF Inv, NoOpenCallInClosedScope, OpenCalls
    <3>5. QED
      BY <3>3, <3>4
  <2>2. QED
    BY <1>1, <2>1 DEF NoOpenCallInClosedScope, OpenCalls
<1>7. QED
  BY <1>3, <1>4, <1>5, <1>6 DEF Inv

LEMMA OpenScopeKeeps ==
  ASSUME Inv, NEW s \in Scopes, OpenScope(s), TypeInv'
  PROVE  Inv'
<1>1. /\ phase' = [phase EXCEPT ![s] = "open"]
      /\ UNCHANGED <<tracked, reserved, home, state, pc, local>>
  BY DEF OpenScope, scopeVars, callVars, birthVars, toolVars
<1>2. Reservations' /\ Capacity' /\ OpenCallsTracked'
  BY <1>1 DEF Inv, Reservations, Holders, Capacity, OpenCallsTracked, OpenCalls
<1>3. NoOpenCallInClosedScope'
  BY <1>1 DEF Inv, TypeInv, TypeOK, NoOpenCallInClosedScope, OpenCalls
<1>4. QED
  BY <1>2, <1>3 DEF Inv

-----------------------------------------------------------------------------
(* Every step keeps the type invariant, and then the rest of Inv.          *)

LEMMA TypeNext ==
  ASSUME Inv, [Next]_vars
  PROVE  TypeInv'
<1> USE DEF Inv
<1>1. CASE \E s \in Scopes : OpenScope(s)
  <2>1. PICK s \in Scopes : OpenScope(s)
    BY <1>1
  <2>2. phase' \in [Scopes -> {"unopened", "open", "closed"}]
    BY <2>1 DEF OpenScope, TypeInv, TypeOK
  <2>3. QED
    BY <2>1, <2>2, TypeQuiet
       DEF OpenScope, TypeInv, TypeOK, scopeVars, streamVars, toolVars
<1>2. CASE \E s \in Scopes : EndPrompt(s)
  <2>1. PICK s \in Scopes : CloseScopes({s}) /\ UNCHANGED closed
    BY <1>2 DEF EndPrompt
  <2>2. {s} \in SUBSET Scopes /\ closed' \in BOOLEAN
    BY <2>1 DEF TypeInv, TypeOK
  <2>3. QED
    BY <2>1, <2>2, TypeScopes
<1>3. CASE Close
  BY <1>3, TypeScopes DEF Close
<1>4. CASE \E t \in ToolCalls : ToolStep(t)
  <2>1. PICK t \in ToolCalls : ToolStep(t)
    BY <1>4
  <2>2. CASE \E s \in Scopes :
               \/ \E wait \in BOOLEAN : PromptAgent(t, s, wait)
               \/ \E cs \in (SUBSET Calls) \ {{}} : WaitAgent(t, s, cs)
               \/ \E c \in Calls, wait \in BOOLEAN : AnswerAgent(t, s, c, wait)
               \/ \E c \in Calls : CancelAgent(t, s, c)
    <3>1. PICK s \in Scopes :
            \/ \E wait \in BOOLEAN : PromptAgent(t, s, wait)
            \/ \E cs \in (SUBSET Calls) \ {{}} : WaitAgent(t, s, cs)
            \/ \E c \in Calls, wait \in BOOLEAN : AnswerAgent(t, s, c, wait)
            \/ \E c \in Calls : CancelAgent(t, s, c)
      BY <2>2
    <3>2. CASE \E wait \in BOOLEAN : PromptAgent(t, s, wait)
      BY <3>2, TypePrompt
    <3>3. CASE \E cs \in (SUBSET Calls) \ {{}} : WaitAgent(t, s, cs)
      BY <3>3, TypeWaitAgent
    <3>4. CASE \E c \in Calls, wait \in BOOLEAN : AnswerAgent(t, s, c, wait)
      BY <3>4, TypeAnswerAgent
    <3>5. CASE \E c \in Calls : CancelAgent(t, s, c)
      BY <3>5, TypeCancelAgent
    <3>6. QED
      BY <3>1, <3>2, <3>3, <3>4, <3>5
  <2>3. CASE ResolveFails(t)
    BY <2>3, TypeResolveFails
  <2>4. CASE Reserve(t)
    BY <2>4, TypeReserve
  <2>5. CASE GiveUp(t)
    BY <2>5, TypeGiveUp
  <2>6. CASE StartCall(t)
    BY <2>6, TypeStartCall
  <2>7. CASE UntilReady(t)
    BY <2>7, TypeUntilReady
  <2>8. CASE WaitTurn(t)
    BY <2>8, TypeWaitTurn
  <2>9. CASE Collect(t)
    BY <2>9, TypeCollect
  <2>10. CASE AnswerSent(t)
    BY <2>10, TypeAnswerSent
  <2>11. CASE AnswerFails(t)
    BY <2>11, TypeAnswerFails
  <2>12. CASE Abort(t) \/ Deadline(t)
    BY <2>12, TypeFlag
  <2>13. QED
    BY <2>1, <2>2, <2>3, <2>4, <2>5, <2>6, <2>7, <2>8, <2>9, <2>10, <2>11, <2>12
       DEF ToolStep
<1>5. CASE \E c \in Calls : ReaderStep(c)
  <2>1. PICK c \in Calls : ReaderStep(c)
    BY <1>5
  <2>2. QED
    BY <2>1, TypeReading, TypeReadQuery, TypeTakenIn, TypeSettles DEF ReaderStep
<1>6. CASE UNCHANGED vars
  <2>1. UNCHANGED <<helperVars, scopeVars, callVars, streamVars, birthVars, reply, pc, toolVars>>
    BY <1>6 DEF vars
  <2>2. QED
    BY <2>1, TypeQuiet DEF TypeInv, TypeOK, helperVars, scopeVars, streamVars, toolVars
<1>7. QED
  BY <1>1, <1>2, <1>3, <1>4, <1>5, <1>6 DEF Next

LEMMA InvInit == Init => Inv
<1> SUFFICES ASSUME Init PROVE Inv
  OBVIOUS
<1>1. TypeInv
  BY TypeInit
<1>2. \A s \in Scopes : Holders(s) = {} /\ tracked[s] = {} /\ reserved[s] = 0
  BY DEF Init, Holders
<1>3. Reservations /\ Capacity
  BY <1>2, FS_EmptySet, LimitAssumption DEF Reservations, Capacity
<1>4. OpenCallsTracked /\ NoOpenCallInClosedScope
  BY DEF Init, OpenCallsTracked, NoOpenCallInClosedScope, OpenCalls
<1>5. QED
  BY <1>1, <1>3, <1>4 DEF Inv

LEMMA InvNext == Inv /\ [Next]_vars => Inv'
<1> SUFFICES ASSUME Inv, [Next]_vars PROVE Inv'
  OBVIOUS
<1>1. TypeInv'
  BY TypeNext
<1>2. CASE \E s \in Scopes : OpenScope(s)
  BY <1>1, <1>2, OpenScopeKeeps
<1>3. CASE (\E s \in Scopes : EndPrompt(s)) \/ Close
  <2>1. PICK ss \in SUBSET Scopes : CloseScopes(ss)
    <3>1. CASE \E s \in Scopes : EndPrompt(s)
      <4>1. PICK s \in Scopes : CloseScopes({s})
        BY <3>1 DEF EndPrompt
      <4>2. {s} \in SUBSET Scopes
        OBVIOUS
      <4>3. QED
        BY <4>1, <4>2
    <3>2. CASE Close
      <4>1. {s \in Scopes : phase[s] = "open"} \in SUBSET Scopes
        OBVIOUS
      <4>2. QED
        BY <3>2, <4>1 DEF Close
    <3>3. QED
      BY <1>3, <3>1, <3>2
  <2>2. QED
    BY <1>1, <2>1, CloseScopesKeeps
<1>4. CASE \E t \in ToolCalls : ToolStep(t)
  <2>1. PICK t \in ToolCalls : ToolStep(t)
    BY <1>4
  <2>2. CASE Reserve(t)
    BY <1>1, <2>2, ReserveKeeps
  <2>3. CASE GiveUp(t)
    BY <1>1, <2>3, GiveUpKeeps
  <2>4. CASE StartCall(t)
    BY <1>1, <2>4, StartCallKeeps
  <2>5. CASE ~(Reserve(t) \/ GiveUp(t) \/ StartCall(t))
    <3>1. Quiet
      BY <2>1, <2>5, QuietTool DEF ToolStep
    <3>2. QED
      BY <1>1, <3>1, QuietKeeps
  <2>6. QED
    BY <2>2, <2>3, <2>4, <2>5
<1>5. CASE \E c \in Calls : ReaderStep(c)
  BY <1>1, <1>5, QuietReader, QuietKeeps
<1>6. CASE UNCHANGED vars
  <2>1. UNCHANGED <<scopeVars, phase, home, state, pc, local>>
    BY <1>6 DEF vars, helperVars, callVars, birthVars, toolVars
  <2>2. Quiet
    BY <2>1 DEF Quiet, Reopens, Unadmitted
  <2>3. QED
    BY <1>1, <2>2, QuietKeeps
<1>7. QED
  BY <1>2, <1>3, <1>4, <1>5, <1>6 DEF Next

(* The invariant on which everything below rests.                          *)
THEOREM Invariant == Spec => []Inv
<1>1. QED
  BY InvInit, InvNext, PTL DEF Spec

(* The types of every variable, reserved a natural number included: no     *)
(* path out of prompt_agent releases a reservation twice.                  *)
THEOREM TypeCorrect == Spec => []TypeOK
<1>1. Inv => TypeOK
  BY DEF Inv, TypeInv
<1>2. QED
  BY <1>1, Invariant, PTL

(* No scope tracks and admits more than maxCalls calls (reserve).          *)
THEOREM CapacityHolds == Spec => []Capacity
<1>1. Inv => Capacity
  BY DEF Inv
<1>2. QED
  BY <1>1, Invariant, PTL

(* Every reservation is held by a tool call that will start a call or give *)
(* the reservation back (promptAgent's finally).                           *)
THEOREM ReservationsHeld == Spec => []NoLeakedReservation
<1>1. Inv => NoLeakedReservation
  BY DEF Inv, Reservations, NoLeakedReservation
<1>2. QED
  BY <1>1, Invariant, PTL

(* No call is open in a scope that has closed (closeScope and the second   *)
(* look at scope.closed in promptAgent).                                   *)
THEOREM ClosedScopesHaveNoOpenCall == Spec => []NoOpenCallInClosedScope
<1>1. Inv => NoOpenCallInClosedScope
  BY DEF Inv
<1>2. QED
  BY <1>1, Invariant, PTL

(* The three together: what the run of the calls checks.                   *)
THEOREM ScopesAreSound == Spec => []ScopeSound
<1>1. Inv => ScopeSound
  BY DEF Inv, Reservations, NoLeakedReservation, ScopeSound
<1>2. QED
  BY <1>1, Invariant, PTL

-----------------------------------------------------------------------------
(***************************************************************************)
(* The calls: no question is lost, doubled or left behind, the first final *)
(* state stays, no result is dropped because somebody seemed to wait for   *)
(* it, and the helper implements CallContract.                             *)
(***************************************************************************)

(* The questions of a call: the one being taken in is there while its      *)
(* reader looks at it, every place in the queue and the one arriving is    *)
(* another question that was asked, and an open call holds every question  *)
(* nobody has replied to; a call that ended otherwise has none.            *)
TakingIn(c) ==
  /\ arriving[c] # 0 <=> c \in OpenCalls /\ reader[c] = "takingIn"
  /\ arriving[c] \in 0..Len(reply[c])

Placed(c) ==
  /\ \A i \in DOMAIN queue[c] : queue[c][i] \in 1..Len(reply[c]) /\ queue[c][i] # arriving[c]
  /\ \A i, j \in DOMAIN queue[c] : queue[c][i] = queue[c][j] => i = j

Unreplied(c) == {i \in DOMAIN reply[c] : reply[c][i] = "open"}

Held(c) ==
  /\ c \in OpenCalls => Unreplied(c) \subseteq OpenQuestions(c)
  /\ c \notin OpenCalls /\ state[c] # "completed" => Unreplied(c) = {}

(* A question being answered has left the call, so it can be put back.     *)
Answers(t, c) == pc[t] = "answering" /\ c \in local[t].on

Away(t, c) ==
  /\ local[t].asking \in (1..Len(reply[c])) \ OpenQuestions(c)
  /\ reply[c][local[t].asking] # "open"

Answered(c) ==
  /\ \A t \in ToolCalls : Answers(t, c) => Away(t, c)
  /\ \A t, u \in ToolCalls :
       Answers(t, c) /\ Answers(u, c) /\ local[t].asking = local[u].asking => t = u

QuestionsOf(c) == TakingIn(c) /\ Placed(c) /\ Held(c) /\ Answered(c)

Questions == \A c \in Calls : QuestionsOf(c)

(* The order in which calls become ready: no two at the same count.        *)
Order ==
  /\ \A c \in Calls : seq[c] <= clock
  /\ \A c \in Calls : state[c] \notin {"none", "running"} => seq[c] > 0
  /\ \A c, d \in Calls : seq[c] = seq[d] /\ seq[c] > 0 => c = d
  /\ \A c \in Calls : settled[c] # "no" => state[c] \in FinalStates

(* The tool calls that wait.                                               *)
Watches(t) ==
  /\ Watching(t) => \A c \in local[t].on : state[c] = "running"
  /\ pc[t] \in {"untilReady", "awaitReady", "answering"} => \E c \in Calls : local[t].on = {c}
  /\ returned[t] # {} => pc[t] = "done"

Waits == \A t \in ToolCalls : Watches(t)

CallInv == Inv /\ Questions /\ Order /\ Waits /\ AwaitedMeansDelivered

-----------------------------------------------------------------------------
(* What a step does to the calls: cs, open calls, move.  One that becomes  *)
(* ready gets a count of its own; one that ends is awaited only when a     *)
(* tool call watches it and no other of cs comes before it.                *)

Watched(c, cs) ==
  \E t \in ToolCalls : /\ Watching(t) /\ c \in local[t].on
                       /\ \A d \in local[t].on \cap cs : seq'[c] <= seq'[d]

Rests(c) ==
  /\ state'[c] = state[c] \/ (state[c] = "none" /\ state'[c] = "running")
  /\ seq'[c] = seq[c]
  /\ settled'[c] = settled[c]

MovesOn(c, cs) ==
  /\ state'[c] \in CallStates
  /\ IF state'[c] = "running" THEN seq'[c] = seq[c] ELSE clock < seq'[c] /\ seq'[c] <= clock'
  /\ state'[c] \notin FinalStates => settled'[c] = settled[c]
  /\ settled'[c] = "awaited" => settled[c] = "awaited" \/ Watched(c, cs)

Moved(cs) ==
  /\ cs \subseteq OpenCalls
  /\ clock <= clock'
  /\ \A c \in Calls \ cs : Rests(c)
  /\ \A c \in cs : MovesOn(c, cs)
  /\ \A c, d \in cs : seq'[c] = seq'[d] /\ seq'[c] > clock => c = d

(* Counting the calls of cs up to c: the later the call, the higher.       *)
LEMMA RankGrows ==
  ASSUME NEW cs \in SUBSET Calls, NEW c \in cs, NEW d \in cs
  PROVE  /\ Rank(c, cs) \in 1..Cardinality(cs)
         /\ c < d => Rank(c, cs) < Rank(d, cs)
<1> DEFINE upto(x) == {y \in cs : y <= x}
<1>1. \A x \in cs : IsFiniteSet(upto(x)) /\ Cardinality(upto(x)) \in Nat
  BY CallsFinite
<1>2. c \in Nat /\ d \in Nat
  BY BoundsAssumption
<1>3. IsFiniteSet(cs) /\ Cardinality(upto(c)) <= Cardinality(cs)
  <2>1. IsFiniteSet(cs) /\ upto(c) \subseteq cs
    BY CallsFinite
  <2>2. QED
    BY <2>1, FS_Subset
<1>4. Cardinality(upto(c)) # 0
  <2>1. c \in upto(c)
    BY <1>2
  <2>2. QED
    BY <1>1, <2>1, FS_EmptySet
<1>5. ASSUME c < d PROVE Cardinality(upto(c)) < Cardinality(upto(d))
  <2>1. upto(c) \subseteq upto(d)
    <3>1. ASSUME NEW y \in cs, y <= c PROVE y <= d
      <4>1. y \in Nat
        BY BoundsAssumption
      <4>2. QED
        BY <1>2, <1>5, <3>1, <4>1
    <3>2. QED
      BY <3>1
  <2>2. d \in upto(d) /\ d \notin upto(c)
    BY <1>2, <1>5
  <2>3. Cardinality(upto(c)) <= Cardinality(upto(d))
    BY <1>1, <2>1, FS_Subset
  <2>4. Cardinality(upto(c)) # Cardinality(upto(d))
    BY <1>1, <2>1, <2>2, FS_Subset
  <2>5. QED
    BY <1>1, <2>3, <2>4
<1>6. Cardinality(cs) \in Nat
  BY CallsFinite
<1>7. QED
  BY <1>1, <1>3, <1>4, <1>5, <1>6 DEF Rank

(* Calls that end together, and one that turns to or from its questions.   *)
LEMMA FinishMoves ==
  ASSUME TypeInv, NEW cs \in SUBSET OpenCalls, NEW end \in FinalStates, Finish(cs, end)
  PROVE  Moved(cs)
<1>0. cs \in SUBSET Calls
  BY DEF OpenCalls
<1>1. clock \in Nat /\ Cardinality(cs) \in Nat /\ clock' = clock + Cardinality(cs)
  BY <1>0, CallsFinite DEF TypeInv, TypeOK, Finish
<1>2. \A c \in cs : seq'[c] = clock + Rank(c, cs)
  BY <1>0 DEF Finish
<1>3. ASSUME NEW c \in Calls \ cs PROVE Rests(c)
  BY DEF Finish, Rests
<1>4. ASSUME NEW c \in cs PROVE MovesOn(c, cs)
  <2>1. c \in Calls /\ state'[c] = end
    BY <1>0 DEF Finish
  <2>2. clock < seq'[c] /\ seq'[c] <= clock'
    BY <1>0, <1>1, <1>2, RankGrows
  <2>3. ASSUME settled'[c] = "awaited" PROVE settled[c] = "awaited" \/ Watched(c, cs)
    <3>1. CASE settled'[c] = settled[c]
      BY <2>3, <3>1
    <3>2. CASE settled'[c] # settled[c]
      <4>1. Awaited(c, cs)
        BY <2>1, <2>3, <3>2 DEF Finish
      <4>2. PICK t \in ToolCalls : /\ Watching(t) /\ c \in local[t].on
                                   /\ \A d \in local[t].on \cap cs : c <= d
        BY <4>1 DEF Awaited
      <4>3. ASSUME NEW d \in local[t].on \cap cs PROVE seq'[c] <= seq'[d]
        <5>1. c <= d /\ c \in Nat /\ d \in Nat
          BY <1>0, <4>2, BoundsAssumption
        <5>2. Rank(c, cs) \in Nat /\ Rank(d, cs) \in Nat /\ Rank(c, cs) <= Rank(d, cs)
          <6>1. Rank(c, cs) \in 1..Cardinality(cs) /\ Rank(d, cs) \in 1..Cardinality(cs)
            BY <1>0, RankGrows
          <6>2. c < d => Rank(c, cs) < Rank(d, cs)
            BY <1>0, RankGrows
          <6>3. QED
            BY <1>1, <5>1, <6>1, <6>2
        <5>3. QED
          BY <1>1, <1>2, <5>2
      <4>4. QED
        BY <4>2, <4>3 DEF Watched
    <3>3. QED
      BY <3>1, <3>2
  <2>4. QED
    BY <2>1, <2>2, <2>3 DEF MovesOn
<1>5. ASSUME NEW c \in cs, NEW d \in cs, seq'[c] = seq'[d] PROVE c = d
  <2>1. Rank(c, cs) \in 1..Cardinality(cs) /\ Rank(d, cs) \in 1..Cardinality(cs)
    BY <1>0, RankGrows
  <2>2. (c < d => Rank(c, cs) < Rank(d, cs)) /\ (d < c => Rank(d, cs) < Rank(c, cs))
    BY <1>0, RankGrows
  <2>3. c \in Nat /\ d \in Nat
    BY <1>0, BoundsAssumption
  <2>4. QED
    BY <1>1, <1>2, <1>5, <2>1, <2>2, <2>3
<1>6. QED
  BY <1>1, <1>3, <1>4, <1>5 DEF Moved

(* One call turns to its questions or from them; a step that touches no    *)
(* call moves none.                                                        *)
LEMMA SetStateMoves ==
  ASSUME TypeInv, NEW c \in OpenCalls, NEW st \in OpenStates, SetState(c, st), UNCHANGED settled
  PROVE  Moved({c})
<1>1. c \in Calls /\ clock \in Nat
  BY DEF OpenCalls, TypeInv, TypeOK
<1>2. state'[c] = st /\ \A d \in Calls \ {c} : state'[d] = state[d]
  BY <1>1 DEF SetState, TypeInv, TypeOK
<1>3. \A d \in Calls \ {c} : seq'[d] = seq[d]
  BY DEF SetState, TypeInv, TypeOK
<1>4. IF st = "running" THEN seq'[c] = seq[c] /\ clock' = clock
                        ELSE seq'[c] = clock + 1 /\ clock' = clock + 1
  BY <1>1 DEF SetState, TypeInv, TypeOK
<1>5. QED
  BY <1>1, <1>2, <1>3, <1>4 DEF Moved, Rests, MovesOn

LEMMA NothingMoves ==
  ASSUME TypeInv, UNCHANGED <<state, seq, clock, settled>>
  PROVE  Moved({})
BY DEF Moved, Rests, MovesOn, TypeInv, TypeOK

(* The order survives every move.                                          *)
LEMMA OrderKept ==
  ASSUME TypeInv, TypeInv', Order, NEW cs, Moved(cs)
  PROVE  Order'
<1>0. /\ \A c \in Calls : seq[c] \in Nat /\ seq'[c] \in Nat
      /\ clock \in Nat /\ clock' \in Nat /\ clock <= clock'
  BY DEF TypeInv, TypeOK, Moved
<1>1. ASSUME NEW c \in Calls
      PROVE  seq'[c] <= clock' /\ (seq'[c] = seq[c] \/ (c \in cs /\ clock < seq'[c]))
  BY <1>0 DEF Order, Moved, Rests, MovesOn
<1>2. ASSUME NEW c \in Calls, state'[c] \notin {"none", "running"} PROVE seq'[c] > 0
  BY <1>0, <1>2 DEF Order, Moved, Rests, MovesOn
<1>3. ASSUME NEW c \in Calls, NEW d \in Calls, seq'[c] = seq'[d], seq'[c] > 0 PROVE c = d
  <2>1. seq[c] <= clock /\ seq[d] <= clock
    BY DEF Order
  <2>2. CASE seq'[c] > clock
    BY <1>0, <1>1, <1>3, <2>1, <2>2 DEF Moved
  <2>3. CASE seq'[c] <= clock
    BY <1>0, <1>1, <1>3, <2>1, <2>3 DEF Order
  <2>4. QED
    BY <1>0, <2>2, <2>3
<1>4. ASSUME NEW c \in Calls, settled'[c] # "no" PROVE state'[c] \in FinalStates
  <2>1. CASE c \in cs
    <3>1. settled[c] = "no"
      BY <2>1 DEF Order, Moved, OpenCalls
    <3>2. QED
      BY <1>4, <2>1, <3>1 DEF Moved, MovesOn
  <2>2. CASE c \notin cs
    BY <1>4, <2>2 DEF Order, Moved, Rests
  <2>3. QED
    BY <2>1, <2>2
<1>5. QED
  BY <1>1, <1>2, <1>3, <1>4 DEF Order

-----------------------------------------------------------------------------
(* What a step does to the tool calls.  One with no part in it is woken if *)
(* it watches a call that moves; one that acts goes on in its loop, takes  *)
(* the call that became ready first, or finds none ready.                  *)
Kept(t, cs) ==
  /\ pc'[t] = Woken(cs)[t]
  /\ local'[t] = local[t]
  /\ returned'[t] = returned[t]

First(t, c) ==
  /\ c \in local[t].on
  /\ state[c] # "running"
  /\ \A d \in local[t].on : state[d] # "running" => seq[c] <= seq[d]

InItsLoop == {"untilReady", "waitAgent"}

Acts(t, cs) ==
  /\ pc[t] # "done"
  /\ Watches(t)'
  /\ Watching(t) => cs = {}
  /\ pc[t] \in InItsLoop =>
       \/ pc'[t] \in InItsLoop /\ local'[t].on = local[t].on
       \/ \E c \in Calls : First(t, c) /\ returned'[t] = {CallResult(c)}
       \/ \A c \in local[t].on : state[c] = "running"

ToolsGo(cs) == \A t \in ToolCalls : Kept(t, cs) \/ Acts(t, cs)

(* Waiting tool calls watch running calls, whatever moves.                 *)
LEMMA WaitsKept ==
  ASSUME TypeInv, Waits, NEW cs, Moved(cs), ToolsGo(cs)
  PROVE  Waits'
<1> SUFFICES ASSUME NEW t \in ToolCalls PROVE Watches(t)'
  BY DEF Waits
<1>1. CASE Acts(t, cs)
  BY <1>1 DEF Acts
<1>2. CASE Kept(t, cs)
  <2>1. /\ pc'[t] = Woken(cs)[t] /\ local'[t] = local[t] /\ returned'[t] = returned[t]
        /\ Watches(t)
    BY <1>2 DEF Kept, Waits
  <2>2. local[t].on \subseteq Calls
    BY DEF TypeInv, TypeOK, Locals
  <2>3. ASSUME Watching(t)', NEW c \in local[t].on PROVE state'[c] = "running"
    <3>1. Watching(t) /\ local[t].on \cap cs = {}
      BY <2>1, <2>3 DEF Woken, Watching
    <3>2. state[c] = "running"
      BY <2>1, <3>1 DEF Watches
    <3>3. QED
      BY <2>2, <3>1, <3>2 DEF Moved, Rests
  <2>4. ASSUME pc'[t] \in {"untilReady", "awaitReady", "answering"}
        PROVE  \E c \in Calls : local[t].on = {c}
    <3>1. pc[t] \in {"untilReady", "awaitReady", "answering"}
      BY <2>1, <2>4 DEF Woken, Watching
    <3>2. QED
      BY <2>1, <3>1 DEF Watches
  <2>5. ASSUME returned'[t] # {} PROVE pc'[t] = "done"
    BY <2>1, <2>5 DEF Watches, Woken, Watching
  <2>6. QED
    BY <2>1, <2>3, <2>4, <2>5 DEF Watches
<1>3. QED
  BY <1>1, <1>2 DEF ToolsGo

(* Who was to get an awaited call's result still is, or has taken it.      *)
Delivers(t, c) ==
  \/ pc[t] \in InItsLoop /\ First(t, c)
  \/ \E r \in returned[t] : r.call = c /\ r.state \in FinalStates

(* A final call that comes first stays first: what moves comes later.      *)
LEMMA FirstStays ==
  ASSUME TypeInv, TypeInv', Order, NEW cs, Moved(cs),
         NEW t \in ToolCalls, NEW c \in Calls, state[c] \in FinalStates, First(t, c),
         local'[t].on = local[t].on
  PROVE  First(t, c)' /\ state'[c] = state[c]
<1>1. c \notin cs /\ Rests(c)
  BY DEF Moved, OpenCalls
<1>2. state'[c] = state[c] /\ seq'[c] = seq[c]
  BY <1>1 DEF Rests
<1>3. local[t].on \subseteq Calls
  BY DEF TypeInv, TypeOK, Locals
<1>4. ASSUME NEW d \in local[t].on, state'[d] # "running" PROVE seq'[c] <= seq'[d]
  <2>1. seq[c] <= clock /\ seq[c] \in Nat /\ clock \in Nat /\ seq'[d] \in Nat
    BY <1>3 DEF Order, TypeInv, TypeOK
  <2>2. CASE d \in cs
    BY <1>2, <1>4, <2>1, <2>2 DEF Moved, MovesOn
  <2>3. CASE d \notin cs
    <3>1. state'[d] = state[d] \/ state'[d] = "running"
      BY <1>3, <2>3 DEF Moved, Rests
    <3>2. seq'[d] = seq[d]
      BY <1>3, <2>3 DEF Moved, Rests
    <3>3. QED
      BY <1>2, <1>4, <3>1, <3>2 DEF First
  <2>4. QED
    BY <2>2, <2>3
<1>5. QED
  BY <1>2, <1>4 DEF First

(* A result a tool call is about to take to the model stays the one it     *)
(* takes: calls that end later rank after it, so it is still the first its *)
(* tool call picks.                                                        *)
LEMMA DeliveryKept ==
  ASSUME TypeInv, TypeInv', Order, Waits, NEW cs, Moved(cs), ToolsGo(cs),
         NEW t \in ToolCalls, NEW c \in Calls, state[c] \in FinalStates, Delivers(t, c)
  PROVE  Delivers(t, c)'
<1>1. CASE \E r \in returned[t] : r.call = c /\ r.state \in FinalStates
  <2>1. pc[t] = "done"
    BY <1>1 DEF Waits, Watches
  <2>2. Kept(t, cs)
    BY <2>1 DEF ToolsGo, Acts
  <2>3. QED
    BY <1>1, <2>2 DEF Kept, Delivers
<1>2. CASE pc[t] \in InItsLoop /\ First(t, c)
  <2>1. CASE Kept(t, cs)
    <3>1. pc'[t] \in InItsLoop /\ local'[t].on = local[t].on
      BY <1>2, <2>1 DEF Kept, Woken, Watching, InItsLoop
    <3>2. QED
      BY <1>2, <3>1, FirstStays DEF Delivers
  <2>2. CASE Acts(t, cs)
    <3>1. CASE pc'[t] \in InItsLoop /\ local'[t].on = local[t].on
      BY <1>2, <3>1, FirstStays DEF Delivers
    <3>2. CASE \E d \in Calls : First(t, d) /\ returned'[t] = {CallResult(d)}
      <4>1. PICK d \in Calls : First(t, d) /\ returned'[t] = {CallResult(d)}
        BY <3>2
      <4>2. seq[c] <= seq[d] /\ seq[d] <= seq[c] /\ seq[c] \in Nat /\ seq[d] \in Nat
        BY <1>2, <4>1 DEF First, TypeInv, TypeOK
      <4>3. seq[c] = seq[d] /\ seq[c] > 0
        BY <4>2 DEF Order
      <4>4. c = d
        BY <4>3 DEF Order
      <4>5. CallResult(c).call = c /\ CallResult(c).state \in FinalStates
        BY DEF CallResult
      <4>6. QED
        BY <4>1, <4>4, <4>5 DEF Delivers
    <3>3. CASE \A d \in local[t].on : state[d] = "running"
      BY <1>2, <3>3 DEF First
    <3>4. QED
      BY <1>2, <2>2, <3>1, <3>2, <3>3 DEF Acts
  <2>3. QED
    BY <2>1, <2>2 DEF ToolsGo
<1>3. QED
  BY <1>1, <1>2 DEF Delivers

(* A call that ends awaited wakes who awaited it, before any other of its  *)
(* calls.                                                                  *)
LEMMA WatcherDelivers ==
  ASSUME TypeInv, TypeInv', Order, Waits, NEW cs, Moved(cs), ToolsGo(cs),
         NEW c \in cs, state'[c] \in FinalStates, Watched(c, cs)
  PROVE  \E t \in ToolCalls : Delivers(t, c)'
<1>1. PICK t \in ToolCalls : /\ Watching(t) /\ c \in local[t].on
                             /\ \A d \in local[t].on \cap cs : seq'[c] <= seq'[d]
  BY DEF Watched
<1>2. Kept(t, cs)
  BY <1>1 DEF ToolsGo, Acts
<1>3. pc'[t] \in InItsLoop /\ local'[t].on = local[t].on
  BY <1>1, <1>2 DEF Kept, Woken, InItsLoop
<1>4. ASSUME NEW d \in local[t].on, state'[d] # "running" PROVE seq'[c] <= seq'[d]
  <2>1. state[d] = "running" /\ d \in Calls
    BY <1>1 DEF Waits, Watches, TypeInv, TypeOK, Locals
  <2>2. d \in cs
    BY <1>4, <2>1 DEF Moved, Rests
  <2>3. QED
    BY <1>1, <2>2
<1>5. state'[c] # "running"
  OBVIOUS
<1>6. QED
  BY <1>1, <1>3, <1>4, <1>5 DEF Delivers, First

(* Hence awaited keeps meaning delivered: for a call that ended before by  *)
(* the last lemma, for one that ends now by the tool call that watches it. *)
LEMMA AwaitedKept ==
  ASSUME TypeInv, TypeInv', Order, Order', Waits, AwaitedMeansDelivered,
         NEW cs, Moved(cs), ToolsGo(cs)
  PROVE  AwaitedMeansDelivered'
<1>1. ASSUME NEW c \in Calls, settled[c] = "awaited" PROVE \E t \in ToolCalls : Delivers(t, c)
  <2>1. state[c] \in FinalStates
    BY <1>1 DEF Order
  <2>2. QED
    BY <1>1, <2>1 DEF AwaitedMeansDelivered, Delivers, First, InItsLoop
<1>2. ASSUME NEW c \in Calls, settled'[c] = "awaited"
      PROVE  \E t \in ToolCalls : Delivers(t, c)'
  <2>1. state'[c] \in FinalStates
    BY <1>2 DEF Order
  <2>2. CASE settled[c] = "awaited"
    <3>1. state[c] \in FinalStates
      BY <2>2 DEF Order
    <3>2. QED
      BY <1>1, <2>2, <3>1, DeliveryKept
  <2>3. CASE settled[c] # "awaited"
    <3>1. c \in cs /\ MovesOn(c, cs)
      BY <1>2, <2>3 DEF Moved, Rests
    <3>2. Watched(c, cs)
      BY <1>2, <2>3, <3>1 DEF MovesOn
    <3>3. QED
      BY <2>1, <3>1, <3>2, WatcherDelivers
  <2>4. QED
    BY <2>2, <2>3
<1>3. QED
  BY <1>2 DEF AwaitedMeansDelivered, Delivers, First, InItsLoop

-----------------------------------------------------------------------------
(* Every step is such a step, and leaves what a call that is not open says *)
(* alone.                                                                  *)
Goes == \E cs \in SUBSET Calls : Moved(cs) /\ ToolsGo(cs)

Sealed == \A c \in Calls : c \notin OpenCalls => queue'[c] = queue[c] /\ text'[c] = text[c]

(* Nobody is woken when nothing moves.                                     *)
LEMMA NobodyWoken ==
  ASSUME TypeInv
  PROVE  Woken({}) = pc
<1>1. \A t \in ToolCalls : Woken({})[t] = pc[t]
  BY DEF Woken
<1>2. QED
  BY <1>1 DEF Woken, TypeInv, TypeOK

(* The other tool calls have no part in the step of one.                   *)
LEMMA OthersKept ==
  ASSUME TypeInv, NEW cs, NEW t \in ToolCalls, NEW p,
         pc' = [Woken(cs) EXCEPT ![t] = p],
         \A u \in ToolCalls \ {t} : local'[u] = local[u] /\ returned'[u] = returned[u]
  PROVE  pc'[t] = p /\ \A u \in ToolCalls \ {t} : Kept(u, cs)
<1>1. Woken(cs) \in [ToolCalls -> PcStates]
  BY WokenType DEF TypeInv
<1>2. QED
  BY <1>1 DEF Kept

(* A tool call outside the two loops goes where it likes, except to wait.  *)
LEMMA ActsElsewhere ==
  ASSUME Waits, NEW cs, NEW t \in ToolCalls,
         pc[t] \notin InItsLoop \cup {"awaitReady", "awaitAny", "done"},
         pc'[t] \notin {"awaitReady", "awaitAny"},
         pc'[t] \in {"untilReady", "answering"} => \E c \in Calls : local'[t].on = {c},
         returned'[t] = returned[t] \/ pc'[t] = "done"
  PROVE  Acts(t, cs)
BY DEF Waits, Watches, Watching, Acts

(* The tool call of the step leaves its place and the others are only      *)
(* woken; a step that touches neither calls nor tool calls is the simplest *)
(* case.                                                                   *)
LEMMA ElsewhereGoes ==
  ASSUME TypeInv, Waits, NEW cs \in SUBSET Calls, Moved(cs), NEW t \in ToolCalls, NEW p,
         pc' = [Woken(cs) EXCEPT ![t] = p],
         \A u \in ToolCalls \ {t} : local'[u] = local[u] /\ returned'[u] = returned[u],
         pc[t] \notin InItsLoop \cup {"awaitReady", "awaitAny", "done"},
         p \notin {"awaitReady", "awaitAny"},
         p \in {"untilReady", "answering"} => \E c \in Calls : local'[t].on = {c},
         returned'[t] = returned[t] \/ p = "done"
  PROVE  Goes
<1>1. pc'[t] = p /\ \A u \in ToolCalls \ {t} : Kept(u, cs)
  BY OthersKept
<1>2. Acts(t, cs)
  BY <1>1, ActsElsewhere
<1>3. QED
  BY <1>1, <1>2 DEF Goes, ToolsGo

(* Steps that move no call.                                                *)
LEMMA StillGoes ==
  ASSUME TypeInv, Waits, UNCHANGED <<state, seq, clock, settled>>, NEW t \in ToolCalls, NEW p,
         pc' = [pc EXCEPT ![t] = p],
         \A u \in ToolCalls \ {t} : local'[u] = local[u] /\ returned'[u] = returned[u],
         pc[t] \notin InItsLoop \cup {"awaitReady", "awaitAny", "done"},
         p \notin {"awaitReady", "awaitAny"},
         p \in {"untilReady", "answering"} => \E c \in Calls : local'[t].on = {c},
         returned'[t] = returned[t] \/ p = "done"
  PROVE  Goes
<1>1. Moved({})
  BY NothingMoves
<1>2. pc' = [Woken({}) EXCEPT ![t] = p]
  BY NobodyWoken
<1>3. {} \in SUBSET Calls
  OBVIOUS
<1>4. QED
  BY <1>1, <1>2, <1>3, ElsewhereGoes

(* Steps that wake and do nothing else to the tool calls.                  *)
LEMMA WakingGoes ==
  ASSUME TypeInv, NEW cs \in SUBSET Calls, Moved(cs), pc' = Woken(cs),
         UNCHANGED <<local, returned>>
  PROVE  Goes
BY DEF Goes, ToolsGo, Kept

LEMMA RestGoes ==
  ASSUME TypeInv, UNCHANGED <<state, seq, clock, settled, pc, local, returned>>
  PROVE  Goes
<1>1. Moved({}) /\ pc' = Woken({}) /\ {} \in SUBSET Calls
  BY NothingMoves, NobodyWoken
<1>2. QED
  BY <1>1, WakingGoes

(* cancel() and finish leave the other calls' questions where they are.    *)
LEMMA CancelMoves ==
  ASSUME TypeInv, NEW cs \in SUBSET Calls, Cancel(cs)
  PROVE  /\ cs \cap OpenCalls \in SUBSET Calls
         /\ Moved(cs \cap OpenCalls)
         /\ \A c \in Calls : c \notin OpenCalls => queue'[c] = queue[c]
<1>1. Finish(cs \cap OpenCalls, "cancelled") /\ cs \cap OpenCalls \in SUBSET OpenCalls
  BY DEF Cancel
<1>2. Moved(cs \cap OpenCalls)
  BY <1>1, FinishMoves
<1>3. QED
  BY <1>1, <1>2 DEF Finish

-----------------------------------------------------------------------------
(* prompt_agent, up to the start of its call.                              *)
LEMMA PromptGoes ==
  ASSUME TypeInv, Waits, NEW t \in ToolCalls,
         \/ \E s \in Scopes, wait \in BOOLEAN : PromptAgent(t, s, wait)
         \/ ResolveFails(t) \/ Reserve(t) \/ GiveUp(t)
  PROVE  Goes /\ Sealed
<1>1. UNCHANGED <<state, seq, clock, settled, queue, text, returned>>
  BY DEF PromptAgent, ResolveFails, Reserve, GiveUp, callVars, streamVars, scopeVars
<1>2. pc[t] \in {"idle", "resolving", "admitted"}
  BY DEF PromptAgent, Execute, ResolveFails, Reserve, GiveUp
<1>3. PICK p \in {"refused", "resolving", "admitted"} : pc' = [pc EXCEPT ![t] = p]
  BY DEF PromptAgent, ResolveFails, Reserve, GiveUp, Refused
<1>4. \A u \in ToolCalls \ {t} : local'[u] = local[u]
  BY DEF PromptAgent, ResolveFails, Reserve, GiveUp, Refused, Ends, TypeInv, TypeOK
<1>5. Goes
  BY <1>1, <1>2, <1>3, <1>4, StillGoes DEF InItsLoop
<1>6. QED
  BY <1>1, <1>5 DEF Sealed

(* A call that starts moves nothing: it was not there.                     *)
LEMMA StartCallGoes ==
  ASSUME TypeInv, Waits, NEW t \in ToolCalls, StartCall(t)
  PROVE  Goes /\ Sealed
<1> DEFINE c == started + 1
<1>1. /\ UNCHANGED <<seq, clock, settled, queue, text, returned>>
      /\ state' = [state EXCEPT ![c] = "running"]
      /\ pc[t] = "admitted"
      /\ started < MaxStarted
  BY DEF StartCall
<1>2. c \in Calls /\ state[c] = "none"
  BY <1>1, BoundsAssumption DEF TypeInv, TypeOK, KnownCalls
<1>3. Moved({})
  BY <1>1, <1>2 DEF Moved, Rests, TypeInv, TypeOK
<1>4. \A u \in ToolCalls \ {t} : local'[u] = local[u]
  BY DEF StartCall, Ends, TypeInv, TypeOK
<1>5. PICK p \in {"untilReady", "done"} : pc' = [pc EXCEPT ![t] = p]
  BY DEF StartCall
<1>6. pc'[t] = p
  BY <1>5 DEF TypeInv, TypeOK
<1>7. p = "untilReady" => \E d \in Calls : local'[t].on = {d}
  <2>1. SUFFICES ASSUME p = "untilReady" PROVE local'[t].on = {c}
    BY <1>2
  <2>2. local' = [local EXCEPT ![t].on = {c}]
    BY <2>1, <1>6 DEF StartCall, TypeInv, TypeOK
  <2>3. QED
    BY <2>2 DEF TypeInv, TypeOK, Locals
<1>8. pc' = [Woken({}) EXCEPT ![t] = p] /\ {} \in SUBSET Calls
  BY <1>5, NobodyWoken
<1>9. Goes
  BY <1>1, <1>3, <1>4, <1>7, <1>8, ElsewhereGoes DEF InItsLoop
<1>10. QED
  BY <1>1, <1>9 DEF Sealed

-----------------------------------------------------------------------------
(* The two loops.                                                          *)
LEMMA UntilReadyGoes ==
  ASSUME TypeInv, Waits, NEW t \in ToolCalls, UntilReady(t)
  PROVE  Goes /\ Sealed
<1>1. PICK c \in Calls : local[t].on = {c}
  BY DEF UntilReady, Waits, Watches
<1>2. pc[t] = "untilReady" /\ UNCHANGED text
  BY DEF UntilReady, streamVars
<1>3. CASE state[c] # "running"
  <2>1. Give(t, c) /\ UNCHANGED callVars
    BY <1>1, <1>3 DEF UntilReady
  <2>2. Moved({}) /\ {} \in SUBSET Calls
    BY <2>1, NothingMoves DEF callVars
  <2>3. pc' = [Woken({}) EXCEPT ![t] = "done"]
    BY <2>1, NobodyWoken DEF Give
  <2>4. /\ \A u \in ToolCalls \ {t} : local'[u] = local[u] /\ returned'[u] = returned[u]
        /\ returned'[t] = {CallResult(c)}
    BY <2>1 DEF Give, Ends, TypeInv, TypeOK
  <2>5. pc'[t] = "done" /\ \A u \in ToolCalls \ {t} : Kept(u, {})
    BY <2>3, <2>4, OthersKept
  <2>6. First(t, c)
    BY <1>1, <1>3 DEF First, TypeInv, TypeOK
  <2>7. Acts(t, {})
    BY <1>2, <2>4, <2>5, <2>6 DEF Acts, Watches, Watching
  <2>8. QED
    BY <1>2, <2>1, <2>2, <2>5, <2>7 DEF Goes, ToolsGo, Sealed, callVars
<1>4. CASE state[c] = "running" /\ local[t].aborted
  <2>1. Cancel({c}) /\ pc' = Woken({c}) /\ UNCHANGED <<local, returned>>
    BY <1>1, <1>4 DEF UntilReady
  <2>2. {c} \cap OpenCalls = {c}
    BY <1>4 DEF OpenCalls
  <2>3. QED
    BY <1>2, <2>1, <2>2, CancelMoves, WakingGoes DEF Sealed
<1>5. CASE state[c] = "running" /\ ~local[t].aborted
  <2>1. /\ UNCHANGED <<local, returned>> /\ pc' = [pc EXCEPT ![t] = "awaitReady"]
        /\ UNCHANGED callVars
    BY <1>1, <1>5 DEF UntilReady
  <2>2. Moved({}) /\ {} \in SUBSET Calls
    BY <2>1, NothingMoves DEF callVars
  <2>3. pc' = [Woken({}) EXCEPT ![t] = "awaitReady"]
    BY <2>1, NobodyWoken
  <2>4. pc'[t] = "awaitReady" /\ \A u \in ToolCalls \ {t} : Kept(u, {})
    BY <2>1, <2>3, OthersKept
  <2>5. Watches(t)'
    <3>1. state'[c] = "running" /\ local'[t].on = {c} /\ returned'[t] = {}
      BY <1>1, <1>2, <1>5, <2>1 DEF Waits, Watches, callVars
    <3>2. QED
      BY <2>4, <3>1 DEF Watches, Watching
  <2>6. Acts(t, {})
    BY <1>1, <1>2, <1>5, <2>5 DEF Acts, Watching
  <2>7. QED
    BY <1>2, <2>1, <2>2, <2>4, <2>6 DEF Goes, ToolsGo, Sealed, callVars
<1>6. QED
  BY <1>3, <1>4, <1>5

(* The tool calls, action by action.                                       *)
LEMMA WaitTurnGoes ==
  ASSUME TypeInv, Waits, NEW t \in ToolCalls, WaitTurn(t)
  PROVE  Goes /\ Sealed
<1> DEFINE ready == {c \in local[t].on : state[c] # "running"}
<1>1. pc[t] = "waitAgent" /\ UNCHANGED <<callVars, text>>
  BY DEF WaitTurn, streamVars
<1>2. Moved({}) /\ {} \in SUBSET Calls
  BY <1>1, NothingMoves DEF callVars
<1>3. CASE \E c \in ready : (\A d \in ready : seq[c] <= seq[d]) /\ Give(t, c)
  <2>1. PICK c \in ready : (\A d \in ready : seq[c] <= seq[d]) /\ Give(t, c)
    BY <1>3
  <2>2. c \in Calls /\ First(t, c)
    BY <2>1 DEF First, TypeInv, TypeOK, Locals
  <2>3. pc' = [Woken({}) EXCEPT ![t] = "done"]
    BY <2>1, NobodyWoken DEF Give
  <2>4. /\ \A u \in ToolCalls \ {t} : local'[u] = local[u] /\ returned'[u] = returned[u]
        /\ returned'[t] = {CallResult(c)}
    BY <2>1 DEF Give, Ends, TypeInv, TypeOK
  <2>5. pc'[t] = "done" /\ \A u \in ToolCalls \ {t} : Kept(u, {})
    BY <2>3, <2>4, OthersKept
  <2>6. Acts(t, {})
    BY <1>1, <2>2, <2>4, <2>5 DEF Acts, Watches, Watching
  <2>7. QED
    BY <1>1, <1>2, <2>5, <2>6 DEF Goes, ToolsGo, Sealed, callVars
<1>4. CASE ready = {} /\ UNCHANGED returned
            /\ IF local[t].late \/ local[t].aborted
               THEN pc' = [pc EXCEPT ![t] = "done"] /\ Ends(t)
               ELSE pc' = [pc EXCEPT ![t] = "awaitAny"] /\ UNCHANGED local
  <2>1. PICK p \in {"done", "awaitAny"} : pc' = [pc EXCEPT ![t] = p]
    BY <1>4
  <2>2. p = "awaitAny" => UNCHANGED local
    <3>1. pc'[t] = p
      BY <2>1 DEF TypeInv, TypeOK
    <3>2. QED
      BY <1>4, <2>1, <3>1 DEF TypeInv, TypeOK
  <2>3. \A u \in ToolCalls \ {t} : local'[u] = local[u] /\ returned'[u] = returned[u]
    BY <1>4 DEF Ends, TypeInv, TypeOK
  <2>4. pc'[t] = p /\ \A u \in ToolCalls \ {t} : Kept(u, {})
    BY <2>1, <2>3, NobodyWoken, OthersKept
  <2>5. \A c \in local[t].on : state[c] = "running"
    BY <1>4
  <2>6. returned'[t] = {}
    BY <1>1, <1>4 DEF Waits, Watches
  <2>7. Watches(t)'
    BY <1>1, <2>2, <2>4, <2>5, <2>6 DEF Watches, Watching, callVars
  <2>8. Acts(t, {})
    BY <1>1, <2>5, <2>7 DEF Acts, Watching
  <2>9. QED
    BY <1>1, <1>2, <2>4, <2>8 DEF Goes, ToolsGo, Sealed, callVars
<1>5. QED
  BY <1>3, <1>4 DEF WaitTurn

(* An abort and a deadline send a tool call round its loop once more.      *)
LEMMA FlagGoes ==
  ASSUME TypeInv, Waits, NEW t \in ToolCalls, Abort(t) \/ Deadline(t)
  PROVE  Goes /\ Sealed
<1>1. UNCHANGED <<callVars, text, returned>>
  BY DEF Abort, Deadline, streamVars
<1>2. Moved({}) /\ {} \in SUBSET Calls
  BY <1>1, NothingMoves DEF callVars
<1>3. pc[t] \in {"untilReady", "awaitReady", "waitAgent", "awaitAny"}
  BY DEF Abort, Deadline
<1>4. PICK p \in {"untilReady", "waitAgent"} :
        /\ pc' = [pc EXCEPT ![t] = p]
        /\ p = "untilReady" => pc[t] \in {"untilReady", "awaitReady"}
  BY <1>3 DEF Abort, Deadline
<1>5. local'[t].on = local[t].on /\ \A u \in ToolCalls \ {t} : local'[u] = local[u]
  BY DEF Abort, Deadline, TypeInv, TypeOK, Locals
<1>6. pc'[t] = p /\ \A u \in ToolCalls \ {t} : Kept(u, {})
  BY <1>1, <1>4, <1>5, NobodyWoken, OthersKept
<1>7. Watches(t)'
  BY <1>1, <1>3, <1>4, <1>5, <1>6 DEF Waits, Watches, Watching
<1>8. Acts(t, {})
  BY <1>3, <1>5, <1>6, <1>7 DEF Acts, InItsLoop
<1>9. QED
  BY <1>1, <1>2, <1>6, <1>8 DEF Goes, ToolsGo, Sealed, callVars

-----------------------------------------------------------------------------
(* wait_agent's start, answers, cancels and results.                       *)
LEMMA WaitAgentGoes ==
  ASSUME TypeInv, Waits, NEW t \in ToolCalls, NEW s \in Scopes, NEW cs \in SUBSET Calls,
         WaitAgent(t, s, cs)
  PROVE  Goes /\ Sealed
<1>1. UNCHANGED <<callVars, text, returned>> /\ pc[t] = "idle"
  BY DEF WaitAgent, Execute, streamVars
<1>2. PICK p \in {"waitAgent", "refused"} : pc' = [pc EXCEPT ![t] = p]
  BY DEF WaitAgent, Refused
<1>3. \A u \in ToolCalls \ {t} : local'[u] = local[u]
  BY DEF WaitAgent, Refused, Ends, TypeInv, TypeOK
<1>4. Goes
  BY <1>1, <1>2, <1>3, StillGoes DEF InItsLoop, callVars
<1>5. QED
  BY <1>1, <1>4 DEF Sealed, callVars

LEMMA AnswerAgentGoes ==
  ASSUME TypeInv, Waits, NEW t \in ToolCalls, NEW s \in Scopes, NEW c \in Calls,
         NEW wait \in BOOLEAN, AnswerAgent(t, s, c, wait)
  PROVE  Goes /\ Sealed
<1>1. UNCHANGED <<settled, text, returned>> /\ pc[t] = "idle"
  BY DEF AnswerAgent, Execute, streamVars
<1>2. \A u \in ToolCalls \ {t} : local'[u] = local[u]
  BY DEF AnswerAgent, Refused, Ends, TypeInv, TypeOK
<1>3. CASE /\ wait \/ "wait_agent" \in Offered
           /\ c \in tracked[s] /\ state[c] = "input_required"
  <2>1. /\ queue' = [queue EXCEPT ![c] = Tail(@)]
        /\ SetState(c, IF Tail(queue[c]) # <<>> THEN "input_required" ELSE "running")
        /\ pc' = [Woken({c}) EXCEPT ![t] = "answering"]
        /\ local' = [local EXCEPT ![t] =
                       [Begin(t, s, {c}) EXCEPT !.wait = wait, !.asking = Head(queue[c])]]
    BY <1>3 DEF AnswerAgent
  <2>2. c \in OpenCalls
    BY <1>3 DEF OpenCalls
  <2>3. Moved({c})
    BY <1>1, <2>1, <2>2, SetStateMoves
  <2>4. local'[t].on = {c}
    BY <2>1 DEF Begin, NoLocals, TypeInv, TypeOK
  <2>5. Goes
    <3>1. {c} \in SUBSET Calls /\ \A u \in ToolCalls \ {t} : returned'[u] = returned[u]
      BY <1>1
    <3>2. pc[t] \notin InItsLoop \cup {"awaitReady", "awaitAny", "done"}
      BY <1>1 DEF InItsLoop
    <3>3. pc' = [Woken({c}) EXCEPT ![t] = "answering"] /\ returned'[t] = returned[t]
      BY <1>1, <2>1
    <3>4. QED
      BY <1>2, <2>3, <2>4, <3>1, <3>2, <3>3, ElsewhereGoes
  <2>6. Sealed
    BY <1>1, <2>1, <2>2 DEF Sealed, TypeInv, TypeOK
  <2>7. QED
    BY <2>5, <2>6
<1>4. CASE ~(/\ wait \/ "wait_agent" \in Offered
             /\ c \in tracked[s] /\ state[c] = "input_required")
  <2>1. Refused(t) /\ UNCHANGED <<queue, state, clock, seq>>
    BY <1>4 DEF AnswerAgent
  <2>2. Goes
    BY <1>1, <1>2, <2>1, StillGoes DEF InItsLoop, Refused
  <2>3. QED
    BY <1>1, <2>1, <2>2 DEF Sealed
<1>5. QED
  BY <1>3, <1>4

LEMMA AnswerSentGoes ==
  ASSUME TypeInv, Waits, NEW t \in ToolCalls, AnswerSent(t)
  PROVE  Goes /\ Sealed
<1>1. UNCHANGED <<callVars, text>> /\ pc[t] = "answering"
  BY DEF AnswerSent, streamVars
<1>2. PICK c \in Calls : local[t].on = {c}
  BY <1>1 DEF Waits, Watches
<1>3. PICK p \in {"untilReady", "done"} :
        /\ pc' = [pc EXCEPT ![t] = p]
        /\ p = "untilReady" => UNCHANGED <<local, returned>>
  BY DEF AnswerSent, Give
<1>4. \A u \in ToolCalls \ {t} : local'[u] = local[u] /\ returned'[u] = returned[u]
  BY DEF AnswerSent, Give, Ends, TypeInv, TypeOK
<1>5. p = "untilReady" => local'[t].on = {c}
  BY <1>2, <1>3
<1>6. Goes
  BY <1>1, <1>3, <1>4, <1>5, StillGoes DEF InItsLoop, callVars
<1>7. QED
  BY <1>1, <1>6 DEF Sealed, callVars

LEMMA AnswerFailsGoes ==
  ASSUME TypeInv, Waits, NEW t \in ToolCalls, AnswerFails(t)
  PROVE  Goes /\ Sealed
<1>1. UNCHANGED <<settled, text, returned>> /\ pc[t] = "answering"
  BY DEF AnswerFails, streamVars
<1>2. \A u \in ToolCalls \ {t} : local'[u] = local[u]
  BY DEF AnswerFails, Ends, TypeInv, TypeOK
<1>3. PICK c \in Calls :
        IF c \in OpenCalls
        THEN /\ queue' = [queue EXCEPT ![c] = <<local[t].asking>> \o @]
             /\ SetState(c, "input_required")
             /\ pc' = [Woken({c}) EXCEPT ![t] = "refused"]
        ELSE /\ pc' = [pc EXCEPT ![t] = "refused"]
             /\ UNCHANGED <<queue, state, clock, seq>>
  BY <1>1 DEF AnswerFails, Waits, Watches
<1>4. CASE c \in OpenCalls
  <2>1. Moved({c})
    BY <1>1, <1>3, <1>4, SetStateMoves
  <2>2. Goes
    BY <1>1, <1>2, <1>3, <1>4, <2>1, ElsewhereGoes DEF InItsLoop
  <2>3. QED
    BY <1>1, <1>3, <1>4, <2>2 DEF Sealed, TypeInv, TypeOK
<1>5. CASE c \notin OpenCalls
  <2>1. Goes
    BY <1>1, <1>2, <1>3, <1>5, StillGoes DEF InItsLoop
  <2>2. QED
    BY <1>1, <1>3, <1>5, <2>1 DEF Sealed
<1>6. QED
  BY <1>4, <1>5

LEMMA CancelAgentGoes ==
  ASSUME TypeInv, Waits, NEW t \in ToolCalls, NEW s \in Scopes, NEW c \in Calls,
         CancelAgent(t, s, c)
  PROVE  Goes /\ Sealed
<1>1. UNCHANGED <<text, returned>> /\ pc[t] = "idle"
  BY DEF CancelAgent, Execute, streamVars
<1>2. \A u \in ToolCalls \ {t} : local'[u] = local[u]
  BY DEF CancelAgent, Refused, Ends, TypeInv, TypeOK
<1>3. CASE c \in tracked[s]
  <2>1. Cancel({c}) /\ pc' = [Woken({c} \cap OpenCalls) EXCEPT ![t] = "collecting"]
    BY <1>3 DEF CancelAgent
  <2>2. /\ {c} \cap OpenCalls \in SUBSET Calls
        /\ Moved({c} \cap OpenCalls)
        /\ \A d \in Calls : d \notin OpenCalls => queue'[d] = queue[d]
    BY <2>1, CancelMoves
  <2>3. Goes
    <3>1. PICK cs \in SUBSET Calls :
            Moved(cs) /\ pc' = [Woken(cs) EXCEPT ![t] = "collecting"]
      BY <2>1, <2>2
    <3>2. pc[t] \notin InItsLoop \cup {"awaitReady", "awaitAny", "done"}
      BY <1>1 DEF InItsLoop
    <3>3. \A u \in ToolCalls : returned'[u] = returned[u]
      BY <1>1
    <3>4. \A u \in ToolCalls \ {t} : local'[u] = local[u] /\ returned'[u] = returned[u]
      BY <1>2, <3>3
    <3>5. returned'[t] = returned[t]
      BY <3>3
    <3>6. QED
      BY <3>1, <3>2, <3>4, <3>5, ElsewhereGoes
  <2>4. QED
    BY <1>1, <2>2, <2>3 DEF Sealed
<1>4. CASE c \notin tracked[s]
  <2>1. Refused(t) /\ UNCHANGED callVars
    BY <1>4 DEF CancelAgent
  <2>2. Goes
    BY <1>1, <1>2, <2>1, StillGoes DEF InItsLoop, Refused, callVars
  <2>3. QED
    BY <1>1, <2>1, <2>2 DEF Sealed, callVars
<1>5. QED
  BY <1>3, <1>4

LEMMA CollectGoes ==
  ASSUME TypeInv, Waits, NEW t \in ToolCalls, Collect(t)
  PROVE  Goes /\ Sealed
<1>1. UNCHANGED <<callVars, text>> /\ pc[t] = "collecting"
  BY DEF Collect, streamVars
<1>2. pc' = [pc EXCEPT ![t] = "done"]
  BY DEF Collect, Give
<1>3. \A u \in ToolCalls \ {t} : local'[u] = local[u] /\ returned'[u] = returned[u]
  BY DEF Collect, Give, Ends, TypeInv, TypeOK
<1>4. pc[t] \notin InItsLoop \cup {"awaitReady", "awaitAny", "done"}
  BY <1>1 DEF InItsLoop
<1>5. UNCHANGED <<state, seq, clock, settled>>
  BY <1>1 DEF callVars
<1>6. Goes
  BY <1>2, <1>3, <1>4, <1>5, StillGoes
<1>7. QED
  BY <1>1, <1>6 DEF Sealed, callVars

-----------------------------------------------------------------------------
(* The readers and the scopes.                                             *)
LEMMA ReaderGoes ==
  ASSUME TypeInv, NEW c \in Calls, ReaderStep(c)
  PROVE  Goes /\ Sealed
<1>1. UNCHANGED <<local, returned>>
  BY DEF ReaderStep, ReadResponse, FilesSaved, ReadQuery, TakenIn, StreamEnds, Complete,
         ReaderFails, toolVars
<1>2. CASE \/ \E attached \in BOOLEAN : ReadResponse(c, attached)
           \/ FilesSaved(c) \/ ReadQuery(c) \/ StreamEnds(c)
  <2>1. UNCHANGED <<state, seq, clock, settled, queue, pc>>
    BY <1>2 DEF ReadResponse, FilesSaved, ReadQuery, StreamEnds, callVars
  <2>2. \A d \in Calls : d \notin OpenCalls => text'[d] = text[d]
    BY <1>2 DEF ReadResponse, FilesSaved, ReadQuery, StreamEnds, callVars, TypeInv, TypeOK
  <2>3. QED
    BY <1>1, <2>1, <2>2, RestGoes DEF Sealed
<1>3. CASE TakenIn(c)
  <2>1. UNCHANGED <<settled, text>>
    BY <1>3 DEF TakenIn
  <2>2. \A d \in Calls : d \notin OpenCalls => queue'[d] = queue[d]
    BY <1>3 DEF TakenIn, TypeInv, TypeOK
  <2>3. CASE c \in OpenCalls /\ state[c] = "running"
    <3>1. SetState(c, "input_required") /\ pc' = Woken({c})
      BY <1>3, <2>3 DEF TakenIn
    <3>2. Moved({c})
      BY <2>1, <2>3, <3>1, SetStateMoves
    <3>3. QED
      BY <1>1, <2>1, <2>2, <3>1, <3>2, WakingGoes DEF Sealed
  <2>4. CASE ~(c \in OpenCalls /\ state[c] = "running")
    <3>1. UNCHANGED <<state, clock, seq, pc>>
      BY <1>3, <2>4 DEF TakenIn
    <3>2. QED
      BY <1>1, <2>1, <2>2, <3>1, RestGoes DEF Sealed
  <2>5. QED
    BY <2>3, <2>4
<1>4. CASE Complete(c) \/ \E end \in {"failed", "expired"} : ReaderFails(c, end)
  <2>1. PICK end \in FinalStates : Finish({c} \cap OpenCalls, end)
    BY <1>4 DEF Complete, ReaderFails
  <2>2. pc' = Woken({c} \cap OpenCalls) /\ UNCHANGED text
    BY <1>4 DEF Complete, ReaderFails
  <2>3. {c} \cap OpenCalls \in SUBSET OpenCalls /\ {c} \cap OpenCalls \in SUBSET Calls
    OBVIOUS
  <2>4. Moved({c} \cap OpenCalls)
    BY <2>1, <2>3, FinishMoves
  <2>5. \A d \in Calls : d \notin OpenCalls => queue'[d] = queue[d]
    BY <2>1 DEF Finish
  <2>6. QED
    BY <1>1, <2>2, <2>3, <2>4, <2>5, WakingGoes DEF Sealed
<1>5. QED
  BY <1>2, <1>3, <1>4 DEF ReaderStep

(* Scopes that close, and then every step: the calls and the tool calls go *)
(* as Goes says, and what is final stays as it was (Sealed).               *)
LEMMA ScopesGo ==
  ASSUME TypeInv, NEW ss \in SUBSET Scopes, CloseScopes(ss)
  PROVE  Goes /\ Sealed
<1> DEFINE cs == UNION {tracked[s] : s \in ss}
<1>1. cs \in SUBSET Calls
  BY DEF TypeInv, TypeOK
<1>2. Cancel(cs) /\ pc' = Woken(cs \cap OpenCalls) /\ UNCHANGED <<text, local, returned>>
  BY DEF CloseScopes, streamVars, toolVars
<1> HIDE DEF cs
<1>3. QED
  BY <1>1, <1>2, CancelMoves, WakingGoes DEF Sealed

LEMMA StepGoes ==
  ASSUME TypeInv, Waits, [Next]_vars
  PROVE  Goes /\ Sealed
<1>1. CASE \E s \in Scopes : OpenScope(s)
  <2>1. UNCHANGED <<callVars, text, pc, local, returned>>
    BY <1>1 DEF OpenScope, streamVars, toolVars
  <2>2. QED
    BY <2>1, RestGoes DEF Sealed, callVars
<1>2. CASE \E s \in Scopes : EndPrompt(s)
  <2>1. PICK s \in Scopes : CloseScopes({s})
    BY <1>2 DEF EndPrompt
  <2>2. {s} \in SUBSET Scopes
    OBVIOUS
  <2>3. QED
    BY <2>1, <2>2, ScopesGo
<1>3. CASE Close
  <2>1. {s \in Scopes : phase[s] = "open"} \in SUBSET Scopes
    OBVIOUS
  <2>2. QED
    BY <1>3, <2>1, ScopesGo DEF Close
<1>4. CASE \E t \in ToolCalls : ToolStep(t)
  <2>1. PICK t \in ToolCalls : ToolStep(t)
    BY <1>4
  <2>2. CASE \E s \in Scopes, wait \in BOOLEAN : PromptAgent(t, s, wait)
    BY <2>2, PromptGoes
  <2>3. CASE \E s \in Scopes : \E cs \in (SUBSET Calls) \ {{}} : WaitAgent(t, s, cs)
    BY <2>3, WaitAgentGoes
  <2>4. CASE \E s \in Scopes : \E c \in Calls, wait \in BOOLEAN : AnswerAgent(t, s, c, wait)
    BY <2>4, AnswerAgentGoes
  <2>5. CASE \E s \in Scopes : \E c \in Calls : CancelAgent(t, s, c)
    BY <2>5, CancelAgentGoes
  <2>6. CASE ResolveFails(t) \/ Reserve(t) \/ GiveUp(t)
    BY <2>6, PromptGoes
  <2>7. QED
    BY <2>1, <2>2, <2>3, <2>4, <2>5, <2>6, StartCallGoes, UntilReadyGoes, WaitTurnGoes,
       CollectGoes, AnswerSentGoes, AnswerFailsGoes, FlagGoes
       DEF ToolStep
<1>5. CASE \E c \in Calls : ReaderStep(c)
  BY <1>5, ReaderGoes
<1>6. CASE UNCHANGED vars
  <2>1. UNCHANGED <<callVars, text, pc, local, returned>>
    BY <1>6 DEF vars, streamVars, toolVars
  <2>2. QED
    BY <2>1, RestGoes DEF Sealed, callVars
<1>7. QED
  BY <1>1, <1>2, <1>3, <1>4, <1>5, <1>6 DEF Next

-----------------------------------------------------------------------------
(* Questions.  A call nobody touches keeps what holds of its questions.    *)
Aside(c) ==
  \A t \in ToolCalls : Answers(t, c)' => Answers(t, c) /\ local'[t] = local[t]

Untouched(c) ==
  /\ queue'[c] = queue[c] /\ arriving'[c] = arriving[c] /\ reply'[c] = reply[c]
  /\ (c \in OpenCalls)' <=> c \in OpenCalls
  /\ state'[c] = "completed" <=> state[c] = "completed"
  /\ c \in OpenCalls => (reader'[c] = "takingIn" <=> reader[c] = "takingIn")

(* A call that a step leaves alone, with the answers under way for it,     *)
(* keeps what holds of its questions.                                      *)
LEMMA QuestionsKept ==
  ASSUME NEW c \in Calls, QuestionsOf(c), Untouched(c), Aside(c)
  PROVE  QuestionsOf(c)'
<1>1. OpenQuestions(c)' = OpenQuestions(c) /\ Unreplied(c)' = Unreplied(c)
  BY DEF Untouched, OpenQuestions, Unreplied
<1>2. TakingIn(c)'
  BY DEF Untouched, QuestionsOf, TakingIn
<1>3. Placed(c)'
  BY DEF Untouched, QuestionsOf, Placed
<1>4. Held(c)'
  BY <1>1 DEF Untouched, QuestionsOf, Held
<1>5. Answered(c)'
  BY <1>1 DEF Untouched, Aside, QuestionsOf, Answered, Away
<1>6. QED
  BY <1>2, <1>3, <1>4, <1>5 DEF QuestionsOf

(* Waking nobody makes answer.                                             *)
LEMMA WokenAside ==
  ASSUME TypeOK, NEW cs, NEW t \in ToolCalls
  PROVE  Woken(cs)[t] = "answering" <=> pc[t] = "answering"
BY DEF Woken, Watching

(* A tool call that moves without starting an answer leaves the answers    *)
(* under way alone.                                                        *)
LEMMA AllAside ==
  ASSUME TypeInv, NEW t \in ToolCalls, NEW p, p # "answering", NEW cs,
         \/ pc' = pc
         \/ pc' = Woken(cs)
         \/ pc' = [pc EXCEPT ![t] = p]
         \/ pc' = [Woken(cs) EXCEPT ![t] = p],
         \A u \in ToolCalls : pc'[u] = "answering" => local'[u] = local[u]
  PROVE  \A c : Aside(c)
<1>1. Woken(cs) \in [ToolCalls -> PcStates]
  BY WokenType DEF TypeInv
<1>2. \A u \in ToolCalls : Woken(cs)[u] = "answering" <=> pc[u] = "answering"
  BY WokenAside DEF TypeInv
<1>3. \A u \in ToolCalls : pc'[u] = "answering" => pc[u] = "answering"
  BY <1>1, <1>2 DEF TypeInv, TypeOK
<1>4. QED
  BY <1>3 DEF Aside, Answers

(* A call that ends: what it held is gone, and replied to unless its agent *)
(* has replied.                                                            *)
LEMMA FinishQuestions ==
  ASSUME TypeInv, Questions, NEW cs \in SUBSET OpenCalls, NEW end \in FinalStates,
         Finish(cs, end),
         \/ end = "completed" /\ UNCHANGED reply
         \/ \E sent \in BOOLEAN : Refuse(cs, sent),
         \A c \in OpenCalls \ cs : reader'[c] = reader[c],
         \A c : Aside(c)
  PROVE  Questions'
<1> SUFFICES ASSUME NEW c \in Calls PROVE QuestionsOf(c)'
  BY DEF Questions
<1>0. QuestionsOf(c) /\ Aside(c)
  BY DEF Questions
<1>1. CASE c \notin cs
  <2>1. reply'[c] = reply[c]
    BY <1>1 DEF Refuse
  <2>2. state'[c] = state[c] /\ queue'[c] = queue[c] /\ arriving'[c] = arriving[c]
    BY <1>1 DEF Finish
  <2>3. Untouched(c)
    BY <1>1, <2>1, <2>2 DEF Untouched, OpenCalls
  <2>4. QED
    BY <1>0, <2>3, QuestionsKept
<1>2. CASE c \in cs
  <2>1. /\ state'[c] = end /\ queue'[c] = <<>> /\ arriving'[c] = 0
        /\ c \in OpenCalls /\ ~(c \in OpenCalls)'
    BY <1>2 DEF Finish, OpenCalls
  <2>2. OpenQuestions(c)' = {}
    BY <2>1 DEF OpenQuestions
  <2>3. reply[c] \in Seq(ReplyStates) /\ reply'[c] \in Seq(ReplyStates)
    BY RefuseType DEF TypeInv, TypeOK
  <2>4. /\ Len(reply'[c]) = Len(reply[c])
        /\ \A i \in 1..Len(reply[c]) :
             /\ reply[c][i] # "open" => reply'[c][i] = reply[c][i]
             /\ end # "completed" /\ i \in OpenQuestions(c) => reply'[c][i] # "open"
    <3>1. CASE UNCHANGED reply /\ end = "completed"
      BY <3>1
    <3>2. CASE \E sent \in BOOLEAN : Refuse(cs, sent)
      <4>1. PICK sent \in BOOLEAN : Refuse(cs, sent)
        BY <3>2
      <4>2. reply'[c] = [i \in DOMAIN reply[c] |->
                           IF i \in OpenQuestions(c) /\ reply[c][i] = "open"
                           THEN IF sent THEN "refused" ELSE "failed"
                           ELSE reply[c][i]]
        BY <1>2, <4>1 DEF Refuse
      <4>3. DOMAIN reply'[c] = DOMAIN reply[c] /\ DOMAIN reply[c] = 1..Len(reply[c])
            /\ DOMAIN reply'[c] = 1..Len(reply'[c])
        BY <2>3, <4>2
      <4>4. Len(reply'[c]) = Len(reply[c])
        BY <2>3, <4>3
      <4>5. QED
        BY <4>2, <4>3, <4>4
    <3>3. QED
      BY <3>1, <3>2
  <2>5. TakingIn(c)'
    BY <2>1, <2>3 DEF TakingIn
  <2>6. Placed(c)'
    BY <2>1 DEF Placed
  <2>7. Held(c)'
    <3>1. ASSUME end # "completed", NEW i \in DOMAIN reply'[c] PROVE reply'[c][i] # "open"
      <4>1. i \in 1..Len(reply[c])
        BY <2>3, <2>4
      <4>2. CASE reply[c][i] # "open"
        BY <2>4, <4>1, <4>2
      <4>3. CASE reply[c][i] = "open"
        <5>1. i \in OpenQuestions(c)
          BY <1>0, <2>1, <2>3, <4>1, <4>3 DEF QuestionsOf, Held, Unreplied
        <5>2. QED
          BY <2>4, <3>1, <4>1, <5>1
      <4>4. QED
        BY <4>2, <4>3
    <3>2. QED
      BY <2>1, <3>1 DEF Held, Unreplied
  <2>8. Answered(c)'
    <3>1. ASSUME NEW t \in ToolCalls, Answers(t, c)'
          PROVE  Away(t, c)' /\ Answers(t, c) /\ local'[t] = local[t]
      <4>1. Answers(t, c) /\ local'[t] = local[t]
        BY <1>0, <3>1 DEF Aside
      <4>2. local[t].asking \in 1..Len(reply[c]) /\ reply[c][local[t].asking] # "open"
        BY <1>0, <4>1 DEF QuestionsOf, Answered, Away
      <4>3. QED
        BY <2>2, <2>4, <4>1, <4>2 DEF Away
    <3>2. \A t, u \in ToolCalls :
            Answers(t, c) /\ Answers(u, c) /\ local[t].asking = local[u].asking => t = u
      BY <1>0 DEF QuestionsOf, Answered
    <3>3. QED
      BY <3>1, <3>2 DEF Answered
  <2>9. QED
    BY <2>5, <2>6, <2>7, <2>8 DEF QuestionsOf
<1>3. QED
  BY <1>1, <1>2

(* A step that touches the questions of one call only.                     *)
LEMMA OneTouched ==
  ASSUME Questions, NEW c \in Calls, QuestionsOf(c)',
         \A d \in Calls \ {c} : Untouched(d) /\ Aside(d)
  PROVE  Questions'
<1>1. \A d \in Calls \ {c} : QuestionsOf(d)'
  BY QuestionsKept DEF Questions
<1>2. QED
  BY <1>1 DEF Questions

(* The open questions of a call, counted out.                              *)
LEMMA OpenQuestionsAre ==
  ASSUME TypeOK, NEW c \in Calls
  PROVE  /\ queue[c] \in Seq(Nat) /\ DOMAIN queue[c] = 1..Len(queue[c]) /\ Len(queue[c]) \in Nat
         /\ reply[c] \in Seq(ReplyStates) /\ DOMAIN reply[c] = 1..Len(reply[c])
         /\ Len(reply[c]) \in Nat /\ arriving[c] \in Nat
<1>1. queue[c] \in Seq(Nat) /\ reply[c] \in Seq(ReplyStates) /\ arriving[c] \in Nat
  BY DEF TypeOK
<1>2. DOMAIN queue[c] = 1..Len(queue[c]) /\ Len(queue[c]) \in Nat
  BY <1>1
<1>3. DOMAIN reply[c] = 1..Len(reply[c]) /\ Len(reply[c]) \in Nat
  BY <1>1
<1>4. QED
  BY <1>1, <1>2, <1>3

(* A question arrives: it is the newest, so it is nowhere yet; or it came  *)
(* too late and is replied to at once.                                     *)
LEMMA ReadQueryQuestions ==
  ASSUME TypeInv, Questions, NEW c \in Calls, ReadQuery(c)
  PROVE  Questions'
<1> DEFINE n == Len(reply[c])
<1>1. /\ reader[c] = "reading" /\ UNCHANGED <<state, queue, pc, local>>
      /\ QuestionsOf(c)
  BY DEF ReadQuery, AtMessage, toolVars, Questions
<1>2. \A d : Aside(d)
  BY <1>1 DEF Aside, Answers
<1>3. ASSUME NEW d \in Calls \ {c} PROVE Untouched(d)
  <2>1. reply'[d] = reply[d] /\ arriving'[d] = arriving[d] /\ reader'[d] = reader[d]
    <3>1. CASE c \in OpenCalls
      <4>1. /\ reply' = [reply EXCEPT ![c] = Append(@, "open")]
            /\ arriving' = [arriving EXCEPT ![c] = Len(reply[c]) + 1]
            /\ reader' = [reader EXCEPT ![c] = "takingIn"]
        BY <3>1 DEF ReadQuery
      <4>2. QED
        BY <4>1 DEF TypeInv, TypeOK
    <3>2. CASE c \notin OpenCalls
      <4>1. UNCHANGED <<arriving, reader>>
            /\ \E fate \in {"refused", "failed"} :
                 reply' = [reply EXCEPT ![c] = Append(@, fate)]
        BY <3>2 DEF ReadQuery
      <4>2. QED
        BY <4>1 DEF TypeInv, TypeOK
    <3>3. QED
      BY <3>1, <3>2
  <2>2. QED
    BY <1>1, <2>1 DEF Untouched, OpenCalls
<1>4. PICK r \in ReplyStates : reply' = [reply EXCEPT ![c] = Append(@, r)]
                               /\ (r = "open" <=> c \in OpenCalls)
  BY DEF ReadQuery, ReplyStates
<1>5. reply'[c] = Append(reply[c], r)
  BY <1>4 DEF TypeInv, TypeOK
<1>6. /\ n \in Nat /\ Len(reply'[c]) = n + 1 /\ DOMAIN reply'[c] = 1..(n + 1)
      /\ DOMAIN reply[c] = 1..n
      /\ \A i \in 1..n : reply'[c][i] = reply[c][i]
      /\ reply'[c][n + 1] = r
  BY <1>5, OpenQuestionsAre DEF TypeInv
<1>7. arriving[c] = 0
  BY <1>1 DEF QuestionsOf, TakingIn
<1>8. IF c \in OpenCalls THEN arriving'[c] = n + 1 /\ reader'[c] = "takingIn"
                         ELSE arriving'[c] = 0
  BY <1>7 DEF ReadQuery, TypeInv, TypeOK
<1>9. (c \in OpenCalls)' <=> c \in OpenCalls
  BY <1>1 DEF OpenCalls
<1>10. TakingIn(c)'
  BY <1>6, <1>8, <1>9 DEF TakingIn
<1>11. \A i \in DOMAIN queue[c] : queue[c][i] \in 1..n
  BY <1>1 DEF QuestionsOf, Placed
<1>12. Placed(c)'
  <2>1. ASSUME NEW i \in DOMAIN queue[c]
        PROVE  queue'[c][i] \in 1..Len(reply'[c]) /\ queue'[c][i] # arriving'[c]
    BY <1>1, <1>6, <1>8, <1>11
  <2>2. \A i, j \in DOMAIN queue[c] : queue'[c][i] = queue'[c][j] => i = j
    BY <1>1 DEF QuestionsOf, Placed
  <2>3. QED
    BY <1>1, <2>1, <2>2 DEF Placed
<1>13. Unreplied(c)' = Unreplied(c) \cup (IF c \in OpenCalls THEN {n + 1} ELSE {})
  BY <1>4, <1>6 DEF Unreplied
<1>14. OpenQuestions(c)' = OpenQuestions(c) \cup (IF c \in OpenCalls THEN {n + 1} ELSE {})
  <2>1. OpenQuestions(c) = {queue[c][i] : i \in DOMAIN queue[c]}
    BY <1>7 DEF OpenQuestions
  <2>2. OpenQuestions(c)' = {queue[c][i] : i \in DOMAIN queue[c]}
                             \cup (IF c \in OpenCalls THEN {n + 1} ELSE {})
    BY <1>1, <1>6, <1>8 DEF OpenQuestions
  <2>3. QED
    BY <2>1, <2>2
<1>15. Held(c)'
  BY <1>1, <1>9, <1>13, <1>14 DEF QuestionsOf, Held
<1>16. Answered(c)'
  <2>1. ASSUME NEW t \in ToolCalls, Answers(t, c)' PROVE Away(t, c)'
    <3>1. Away(t, c) /\ local'[t] = local[t]
      BY <1>1, <1>2, <2>1 DEF QuestionsOf, Answered, Aside
    <3>2. local[t].asking \in 1..n /\ local[t].asking \notin OpenQuestions(c)
      BY <3>1 DEF Away
    <3>3. local[t].asking \in 1..(n + 1) /\ local[t].asking # n + 1
      BY <1>6, <3>2
    <3>4. reply'[c][local[t].asking] # "open"
      BY <1>6, <3>1, <3>2 DEF Away
    <3>5. QED
      BY <1>6, <1>14, <3>1, <3>2, <3>3, <3>4 DEF Away
  <2>2. \A t, u \in ToolCalls :
          Answers(t, c)' /\ Answers(u, c)' /\ local'[t].asking = local'[u].asking => t = u
    BY <1>1, <1>2 DEF QuestionsOf, Answered, Aside
  <2>3. QED
    BY <2>1, <2>2 DEF Answered
<1>17. QED
  BY <1>2, <1>3, <1>10, <1>12, <1>15, <1>16, OneTouched DEF QuestionsOf

(* The question is taken in: it goes from arriving to the end of the       *)
(* queue.                                                                  *)
LEMMA TakenInQuestions ==
  ASSUME TypeInv, Questions, NEW c \in Calls, TakenIn(c)
  PROVE  Questions'
<1> DEFINE n == Len(queue[c])  a == arriving[c]
<1>1. reader[c] = "takingIn" /\ UNCHANGED <<reply, local>> /\ QuestionsOf(c)
  BY DEF TakenIn, toolVars, Questions
<1>2. pc' \in {pc, Woken({c})}
  BY DEF TakenIn
<1>3. \A d : Aside(d)
  BY <1>1, <1>2, WokenAside DEF Aside, Answers, TypeInv
<1>4. \A d \in Calls : (d \in OpenCalls)' <=> d \in OpenCalls
  BY DEF TakenIn, SetState, OpenCalls, TypeInv, TypeOK
<1>5. \A d \in Calls : state'[d] = "completed" <=> state[d] = "completed"
  BY DEF TakenIn, SetState, OpenCalls, TypeInv, TypeOK
<1>6. ASSUME NEW d \in Calls \ {c} PROVE Untouched(d)
  <2>1. queue'[d] = queue[d] /\ arriving'[d] = arriving[d] /\ reader'[d] = reader[d]
    BY DEF TakenIn, TypeInv, TypeOK
  <2>2. QED
    BY <1>1, <1>4, <1>5, <2>1 DEF Untouched
<1>7. CASE c \notin OpenCalls
  <2>1. UNCHANGED <<queue, arriving>>
    BY <1>7 DEF TakenIn
  <2>2. Untouched(c)
    BY <1>1, <1>4, <1>5, <1>7, <2>1 DEF Untouched
  <2>3. QED
    BY <1>1, <1>3, <1>6, <2>2, QuestionsKept, OneTouched
<1>8. CASE c \in OpenCalls
  <2>1. /\ arriving'[c] = 0 /\ queue'[c] = Append(queue[c], a) /\ reader'[c] = "reading"
    BY <1>8 DEF TakenIn, TypeInv, TypeOK
  <2>2. a # 0 /\ a \in 1..Len(reply[c])
    BY <1>1, <1>8, OpenQuestionsAre DEF QuestionsOf, TakingIn, TypeInv
  <2>3. /\ n \in Nat /\ DOMAIN queue[c] = 1..n /\ DOMAIN queue'[c] = 1..(n + 1)
        /\ \A i \in 1..n : queue'[c][i] = queue[c][i]
        /\ queue'[c][n + 1] = a
    BY <2>1, OpenQuestionsAre DEF TypeInv
  <2>4. TakingIn(c)'
    BY <1>1, <2>1, OpenQuestionsAre DEF TakingIn, TypeInv
  <2>5. \A i \in 1..n : queue[c][i] \in 1..Len(reply[c]) /\ queue[c][i] # a
    BY <1>1, <2>3 DEF QuestionsOf, Placed
  <2>6. \A i, j \in 1..n : queue[c][i] = queue[c][j] => i = j
    BY <1>1, <2>3 DEF QuestionsOf, Placed
  <2>7. Placed(c)'
    <3>1. \A i \in 1..(n + 1) : i \in 1..n \/ i = n + 1
      BY <2>3
    <3>2. ASSUME NEW i \in 1..(n + 1)
          PROVE  queue'[c][i] \in 1..Len(reply'[c]) /\ queue'[c][i] # arriving'[c]
      <4>1. queue'[c][i] \in 1..Len(reply[c])
        BY <2>2, <2>3, <2>5, <3>1
      <4>2. QED
        BY <1>1, <2>1, <4>1, OpenQuestionsAre DEF TypeInv
    <3>3. ASSUME NEW i \in 1..(n + 1), NEW j \in 1..(n + 1), queue'[c][i] = queue'[c][j]
          PROVE  i = j
      BY <2>3, <2>5, <2>6, <3>1, <3>3
    <3>4. QED
      BY <2>3, <3>2, <3>3 DEF Placed
  <2>8. OpenQuestions(c)' = OpenQuestions(c)
    <3>1. OpenQuestions(c) = {queue[c][i] : i \in 1..n} \cup {a}
      BY <2>2, <2>3 DEF OpenQuestions
    <3>2. OpenQuestions(c)' = {queue'[c][i] : i \in 1..(n + 1)}
      BY <2>1, <2>3 DEF OpenQuestions
    <3>3. {queue'[c][i] : i \in 1..(n + 1)} = {queue[c][i] : i \in 1..n} \cup {a}
      BY <2>3
    <3>4. QED
      BY <3>1, <3>2, <3>3
  <2>9. Held(c)'
    BY <1>1, <1>4, <1>8, <2>8 DEF QuestionsOf, Held, Unreplied
  <2>10. Answered(c)'
    BY <1>1, <1>3, <2>8 DEF QuestionsOf, Answered, Away, Aside
  <2>11. QED
    BY <1>3, <1>6, <2>4, <2>7, <2>9, <2>10, OneTouched DEF QuestionsOf
<1>9. QED
  BY <1>7, <1>8

(* answer_agent takes the question at the head of the queue away.          *)
LEMMA AnswerAgentQuestions ==
  ASSUME TypeInv, Questions, Waits, NEW t \in ToolCalls, NEW s \in Scopes, NEW c \in Calls,
         NEW wait \in BOOLEAN, AnswerAgent(t, s, c, wait)
  PROVE  Questions'
<1> DEFINE q == Head(queue[c])  n == Len(queue[c])  m == Len(reply[c])
           answers == /\ wait \/ "wait_agent" \in Offered
                      /\ c \in tracked[s] /\ state[c] = "input_required"
<1>1. /\ pc[t] = "idle" /\ UNCHANGED <<arriving, reader>> /\ QuestionsOf(c)
  BY DEF AnswerAgent, Execute, streamVars, Questions
<1>2. CASE ~answers
  <2>1. Refused(t) /\ UNCHANGED <<queue, state, reply>>
    BY <1>2 DEF AnswerAgent
  <2>2. \A u \in ToolCalls : pc'[u] = "answering" => local'[u] = local[u]
    BY <2>1 DEF Refused, Ends, TypeInv, TypeOK
  <2>3. \A d : Aside(d)
    BY <2>1, <2>2, AllAside DEF Refused
  <2>4. \A d \in Calls : Untouched(d)
    BY <1>1, <2>1 DEF Untouched, OpenCalls
  <2>5. QED
    BY <2>3, <2>4, QuestionsKept DEF Questions
<1>3. CASE answers
  <2>1. /\ queue' = [queue EXCEPT ![c] = Tail(@)]
        /\ SetState(c, IF Tail(queue[c]) # <<>> THEN "input_required" ELSE "running")
        /\ reply' = [reply EXCEPT ![c][q] = IF @ = "open" THEN "sending" ELSE @]
        /\ pc' = [Woken({c}) EXCEPT ![t] = "answering"]
        /\ local' = [local EXCEPT ![t] = [Begin(t, s, {c}) EXCEPT !.wait = wait, !.asking = q]]
    BY <1>3 DEF AnswerAgent
  <2>2. queue[c] # <<>>
    BY <1>3 DEF TypeInv, Shown
  <2>3. /\ n \in Nat /\ n >= 1 /\ q = queue[c][1]
        /\ queue'[c] = Tail(queue[c])
        /\ DOMAIN queue[c] = 1..n /\ DOMAIN queue'[c] = 1..(n - 1)
        /\ \A i \in 1..(n - 1) : queue'[c][i] = queue[c][i + 1]
    <3>1. queue[c] \in Seq(Nat) /\ n \in Nat /\ DOMAIN queue[c] = 1..n
      BY OpenQuestionsAre DEF TypeInv
    <3>2. n >= 1 /\ q = queue[c][1]
      BY <2>2, <3>1
    <3>3. queue'[c] = Tail(queue[c])
      BY <2>1 DEF TypeInv, TypeOK
    <3>4. DOMAIN Tail(queue[c]) = 1..(n - 1)
          /\ \A i \in 1..(n - 1) : Tail(queue[c])[i] = queue[c][i + 1]
      BY <2>2, <3>1
    <3>5. QED
      BY <3>1, <3>2, <3>3, <3>4
  <2>4. \A i \in 1..n : queue[c][i] \in 1..m /\ queue[c][i] # arriving[c]
    BY <1>1, <2>3 DEF QuestionsOf, Placed
  <2>5. \A i, j \in 1..n : queue[c][i] = queue[c][j] => i = j
    BY <1>1, <2>3 DEF QuestionsOf, Placed
  <2>6. 1 \in 1..n /\ \A i \in 1..(n - 1) : i + 1 \in 1..n /\ i + 1 # 1
    BY <2>3
  <2>7. q \in 1..m /\ q # arriving[c] /\ q \in OpenQuestions(c)
    BY <2>3, <2>4, <2>6 DEF OpenQuestions
  <2> HIDE DEF q
  <2>8. reply'[c] = [reply[c] EXCEPT ![q] = IF @ = "open" THEN "sending" ELSE @]
    BY <2>1 DEF TypeInv, TypeOK
  <2>9. /\ m \in Nat /\ DOMAIN reply[c] = 1..m /\ DOMAIN reply'[c] = 1..m /\ Len(reply'[c]) = m
        /\ \A i \in 1..m : i # q => reply'[c][i] = reply[c][i]
        /\ reply'[c][q] # "open"
    <3>1. reply[c] \in Seq(ReplyStates) /\ m \in Nat /\ DOMAIN reply[c] = 1..m
      BY OpenQuestionsAre DEF TypeInv
    <3>2. DOMAIN reply'[c] = 1..m
      BY <2>8, <3>1
    <3>3. reply'[c] \in [1..m -> ReplyStates]
      <4>1. reply[c] \in [1..m -> ReplyStates]
        BY <3>1
      <4> DEFINE r == IF reply[c][q] = "open" THEN "sending" ELSE reply[c][q]
      <4>2. r \in ReplyStates
        BY <2>7, <4>1 DEF ReplyStates
      <4>3. reply'[c] = [reply[c] EXCEPT ![q] = r]
        BY <2>8
      <4> HIDE DEF r
      <4>4. QED
        BY <4>1, <4>2, <4>3
    <3>4. Len(reply'[c]) = m
      BY <3>1, <3>3
    <3>5. reply'[c][q] # "open" /\ \A i \in 1..m : i # q => reply'[c][i] = reply[c][i]
      BY <2>7, <2>8, <3>1
    <3>6. QED
      BY <3>1, <3>2, <3>4, <3>5
  <2>10. /\ c \in OpenCalls /\ (c \in OpenCalls)'
         /\ \A d \in Calls \ {c} : state'[d] = state[d]
    BY <1>3, <2>1 DEF SetState, OpenCalls, TypeInv, TypeOK
  <2>11. local'[t].on = {c} /\ local'[t].asking = q /\ pc'[t] = "answering"
    BY <2>1, WokenType DEF Begin, NoLocals, TypeInv, TypeOK
  <2>12. \A u \in ToolCalls \ {t} :
           pc'[u] = "answering" => pc[u] = "answering" /\ local'[u] = local[u]
    <3>1. Woken({c}) \in [ToolCalls -> PcStates]
      BY WokenType DEF TypeInv
    <3>2. \A u \in ToolCalls : Woken({c})[u] = "answering" <=> pc[u] = "answering"
      BY WokenAside DEF TypeInv
    <3>3. QED
      BY <2>1, <3>1, <3>2 DEF TypeInv, TypeOK
  <2>13. ASSUME NEW d \in Calls \ {c} PROVE Untouched(d) /\ Aside(d)
    <3>1. queue'[d] = queue[d] /\ reply'[d] = reply[d]
      BY <2>1 DEF TypeInv, TypeOK
    <3>2. Untouched(d)
      BY <1>1, <2>10, <3>1 DEF Untouched, OpenCalls
    <3>3. Aside(d)
      BY <2>11, <2>12 DEF Aside, Answers
    <3>4. QED
      BY <3>2, <3>3
  <2>14. TakingIn(c)'
    BY <1>1, <2>9, <2>10 DEF QuestionsOf, TakingIn
  <2>15. Placed(c)'
    <3>1. ASSUME NEW i \in 1..(n - 1)
          PROVE  queue'[c][i] \in 1..Len(reply'[c]) /\ queue'[c][i] # arriving'[c]
      BY <1>1, <2>3, <2>4, <2>6, <2>9
    <3>2. ASSUME NEW i \in 1..(n - 1), NEW j \in 1..(n - 1), queue'[c][i] = queue'[c][j]
          PROVE  i = j
      <4>1. i + 1 = j + 1
        BY <2>3, <2>5, <2>6, <3>2
      <4>2. QED
        BY <2>3, <4>1
    <3>3. QED
      BY <2>3, <3>1, <3>2 DEF Placed
  <2>16. OpenQuestions(c)' = OpenQuestions(c) \ {q}
    <3>1. {queue'[c][i] : i \in 1..(n - 1)} = {queue[c][i] : i \in 1..n} \ {q}
      <4>1. ASSUME NEW i \in 1..(n - 1)
            PROVE  queue'[c][i] \in {queue[c][j] : j \in 1..n} \ {q}
        <5>1. queue'[c][i] = queue[c][i + 1] /\ i + 1 \in 1..n
          BY <2>3, <2>6
        <5>2. queue[c][i + 1] # queue[c][1]
          BY <2>5, <2>6, <5>1
        <5>3. QED
          BY <2>3, <5>1, <5>2
      <4>2. ASSUME NEW i \in 1..n, queue[c][i] # q
            PROVE  queue[c][i] \in {queue'[c][j] : j \in 1..(n - 1)}
        <5>1. i # 1
          BY <2>3, <4>2
        <5>2. i - 1 \in 1..(n - 1) /\ (i - 1) + 1 = i
          BY <2>3, <5>1
        <5>3. queue'[c][i - 1] = queue[c][i]
          BY <2>3, <5>2
        <5>4. QED
          BY <5>2, <5>3
      <4>3. QED
        BY <4>1, <4>2
    <3>2. QED
      BY <1>1, <2>3, <2>7, <3>1 DEF OpenQuestions
  <2>17. Held(c)'
    <3>1. Unreplied(c)' \subseteq Unreplied(c) \ {q}
      BY <2>9 DEF Unreplied
    <3>2. QED
      BY <1>1, <2>10, <2>16, <3>1 DEF QuestionsOf, Held
  <2>18. Answered(c)'
    <3>1. ASSUME NEW u \in ToolCalls \ {t}, Answers(u, c)'
          PROVE  Answers(u, c) /\ Away(u, c) /\ local'[u] = local[u] /\ local[u].asking # q
      <4>1. Answers(u, c) /\ local'[u] = local[u]
        BY <2>12, <3>1 DEF Answers
      <4>2. Away(u, c)
        BY <1>1, <4>1 DEF QuestionsOf, Answered
      <4>3. QED
        BY <2>7, <4>1, <4>2 DEF Away
    <3>2. ASSUME NEW u \in ToolCalls \ {t}, Answers(u, c)' PROVE Away(u, c)'
      <4>1. Away(u, c) /\ local'[u] = local[u] /\ local[u].asking # q
        BY <3>1, <3>2
      <4>2. QED
        BY <2>9, <2>16, <4>1 DEF Away
    <3>3. Away(t, c)'
      BY <2>7, <2>9, <2>11, <2>16 DEF Away
    <3>4. ASSUME NEW u \in ToolCalls, NEW v \in ToolCalls, Answers(u, c)', Answers(v, c)',
                 local'[u].asking = local'[v].asking
          PROVE  u = v
      <4>1. CASE u # t /\ v # t
        BY <1>1, <3>1, <3>4, <4>1 DEF QuestionsOf, Answered
      <4>2. CASE u = t \/ v = t
        BY <2>11, <3>1, <3>4, <4>2
      <4>3. QED
        BY <4>1, <4>2
    <3>5. QED
      BY <3>2, <3>3, <3>4 DEF Answered
  <2>19. QED
    BY <2>13, <2>14, <2>15, <2>17, <2>18, OneTouched DEF QuestionsOf
<1>4. QED
  BY <1>2, <1>3

(* A question that was not open is marked otherwise.                       *)
LEMMA ReplyMarked ==
  ASSUME TypeInv, NEW c \in Calls, NEW q \in 1..Len(reply[c]), reply[c][q] # "open",
         NEW r \in ReplyStates \ {"open"}, reply' = [reply EXCEPT ![c][q] = r]
  PROVE  /\ Len(reply'[c]) = Len(reply[c])
         /\ DOMAIN reply'[c] = 1..Len(reply[c])
         /\ Unreplied(c)' = Unreplied(c)
         /\ \A i \in 1..Len(reply[c]) : reply[c][i] # "open" => reply'[c][i] # "open"
         /\ \A d \in Calls \ {c} : reply'[d] = reply[d]
<1>1. /\ reply[c] \in [1..Len(reply[c]) -> ReplyStates]
      /\ Len(reply[c]) \in Nat /\ DOMAIN reply[c] = 1..Len(reply[c])
  BY OpenQuestionsAre DEF TypeInv
<1>2. reply'[c] = [reply[c] EXCEPT ![q] = r] /\ \A d \in Calls \ {c} : reply'[d] = reply[d]
  BY DEF TypeInv, TypeOK
<1>3. reply'[c] \in [1..Len(reply[c]) -> ReplyStates]
  BY <1>1, <1>2
<1>4. Len(reply'[c]) = Len(reply[c]) /\ DOMAIN reply'[c] = 1..Len(reply[c])
  BY <1>1, <1>3
<1>5. \A i \in 1..Len(reply[c]) : reply'[c][i] = IF i = q THEN r ELSE reply[c][i]
  BY <1>1, <1>2
<1>6. Unreplied(c)' = Unreplied(c)
  BY <1>1, <1>4, <1>5 DEF Unreplied
<1>7. QED
  BY <1>2, <1>4, <1>5, <1>6

(* An answer that went out, or did not: a question not open any more.      *)
LEMMA AnswerSentQuestions ==
  ASSUME TypeInv, Questions, NEW t \in ToolCalls, AnswerSent(t)
  PROVE  Questions'
<1> DEFINE a == local[t].asking
<1>1. /\ pc[t] = "answering" /\ UNCHANGED <<state, queue, arriving, reader>>
  BY DEF AnswerSent, callVars, streamVars
<1>2. PICK c \in local[t].on :
        reply[c][a] = "sending" /\ reply' = [reply EXCEPT ![c][a] = "answered"]
  BY DEF AnswerSent
<1>3. c \in Calls /\ QuestionsOf(c)
  BY DEF TypeInv, TypeOK, Locals, Questions
<1>4. a \in 1..Len(reply[c]) /\ reply[c][a] # "open"
  BY <1>1, <1>2, <1>3 DEF QuestionsOf, Answered, Answers, Away
<1> HIDE DEF a
<1>5. /\ Len(reply'[c]) = Len(reply[c])
      /\ Unreplied(c)' = Unreplied(c)
      /\ \A i \in 1..Len(reply[c]) : reply[c][i] # "open" => reply'[c][i] # "open"
      /\ \A d \in Calls \ {c} : reply'[d] = reply[d]
  <2>1. "answered" \in ReplyStates \ {"open"}
    BY DEF ReplyStates
  <2>2. QED
    BY <1>2, <1>3, <1>4, <2>1, ReplyMarked
<1>6. PICK p \in {"untilReady", "done"} : pc' = [pc EXCEPT ![t] = p]
  BY DEF AnswerSent, Give
<1>7. \A u \in ToolCalls \ {t} : local'[u] = local[u]
  BY DEF AnswerSent, Give, Ends, TypeInv, TypeOK
<1>8. \A d : Aside(d)
  <2>1. \A u \in ToolCalls : pc'[u] = "answering" => local'[u] = local[u]
    BY <1>6, <1>7 DEF TypeInv, TypeOK
  <2>2. QED
    BY <1>6, <2>1, AllAside
<1>9. \A d \in Calls \ {c} : Untouched(d)
  BY <1>1, <1>5 DEF Untouched, OpenCalls
<1>10. OpenQuestions(c)' = OpenQuestions(c)
  BY <1>1 DEF OpenQuestions
<1>11. TakingIn(c)' /\ Placed(c)'
  BY <1>1, <1>3, <1>5 DEF QuestionsOf, TakingIn, Placed, OpenCalls
<1>12. Held(c)'
  BY <1>1, <1>3, <1>5, <1>10 DEF QuestionsOf, Held, OpenCalls
<1>13. Answered(c)'
  BY <1>3, <1>5, <1>8, <1>10 DEF QuestionsOf, Answered, Away, Aside
<1>14. QED
  BY <1>3, <1>8, <1>9, <1>11, <1>12, <1>13, OneTouched DEF QuestionsOf

(* reply() threw: the question is back at the head of the queue, where it  *)
(* was nowhere before.                                                     *)
LEMMA AnswerFailsQuestions ==
  ASSUME TypeInv, Questions, NEW t \in ToolCalls, AnswerFails(t)
  PROVE  Questions'
<1> DEFINE a == local[t].asking
<1>1. /\ pc[t] = "answering" /\ UNCHANGED <<arriving, reader>>
      /\ \A u \in ToolCalls \ {t} : local'[u] = local[u]
  BY DEF AnswerFails, streamVars, Ends, TypeInv, TypeOK
<1>2. PICK c \in local[t].on :
        /\ reply' = [reply EXCEPT ![c][a] = "failed"]
        /\ IF c \in OpenCalls
           THEN /\ queue' = [queue EXCEPT ![c] = <<a>> \o @]
                /\ SetState(c, "input_required")
                /\ pc' = [Woken({c}) EXCEPT ![t] = "refused"]
           ELSE /\ pc' = [pc EXCEPT ![t] = "refused"]
                /\ UNCHANGED <<queue, state, clock, seq>>
  BY DEF AnswerFails
<1>3. c \in Calls /\ QuestionsOf(c)
  BY DEF TypeInv, TypeOK, Locals, Questions
<1>4. Away(t, c)
  BY <1>1, <1>2, <1>3 DEF QuestionsOf, Answered, Answers
<1>5. a \in 1..Len(reply[c]) /\ reply[c][a] # "open" /\ a \notin OpenQuestions(c)
  BY <1>4 DEF Away
<1>6. \A u \in ToolCalls \ {t} : Answers(u, c) => local[u].asking # a
  BY <1>1, <1>2, <1>3 DEF QuestionsOf, Answered, Answers
<1> HIDE DEF a
<1>7. /\ Len(reply'[c]) = Len(reply[c])
      /\ Unreplied(c)' = Unreplied(c)
      /\ \A i \in 1..Len(reply[c]) : reply[c][i] # "open" => reply'[c][i] # "open"
      /\ \A d \in Calls \ {c} : reply'[d] = reply[d]
  <2>1. "failed" \in ReplyStates \ {"open"}
    BY DEF ReplyStates
  <2>2. QED
    BY <1>2, <1>3, <1>5, <2>1, ReplyMarked
<1>8. \A d : Aside(d)
  <2>1. pc' \in {[pc EXCEPT ![t] = "refused"], [Woken({c}) EXCEPT ![t] = "refused"]}
    BY <1>2
  <2>2. pc'[t] # "answering"
    BY <2>1, WokenType DEF TypeInv, TypeOK
  <2>3. \A u \in ToolCalls : pc'[u] = "answering" => local'[u] = local[u]
    BY <1>1, <2>2
  <2>4. QED
    BY <2>1, <2>3, AllAside
<1>9. pc'[t] # "answering"
  BY <1>2, WokenType DEF TypeInv, TypeOK
<1>10. CASE c \notin OpenCalls
  <2>1. UNCHANGED <<queue, state>>
    BY <1>2, <1>10
  <2>2. \A d \in Calls \ {c} : Untouched(d)
    BY <1>1, <1>7, <2>1 DEF Untouched, OpenCalls
  <2>3. OpenQuestions(c)' = OpenQuestions(c)
    BY <1>1, <2>1 DEF OpenQuestions
  <2>4. TakingIn(c)' /\ Placed(c)'
    BY <1>1, <1>3, <1>7, <2>1 DEF QuestionsOf, TakingIn, Placed, OpenCalls
  <2>5. Held(c)'
    BY <1>3, <1>7, <2>1, <2>3 DEF QuestionsOf, Held, OpenCalls
  <2>6. Answered(c)'
    BY <1>3, <1>7, <1>8, <2>3 DEF QuestionsOf, Answered, Away, Aside
  <2>7. QED
    BY <1>3, <1>8, <2>2, <2>4, <2>5, <2>6, OneTouched DEF QuestionsOf
<1>11. CASE c \in OpenCalls
  <2> DEFINE n == Len(queue[c])  m == Len(reply[c])
  <2>1. queue' = [queue EXCEPT ![c] = <<a>> \o @] /\ SetState(c, "input_required")
    BY <1>2, <1>11
  <2>2. /\ \A d \in Calls \ {c} : state'[d] = state[d] /\ queue'[d] = queue[d]
        /\ (c \in OpenCalls)'
    BY <1>3, <2>1 DEF SetState, OpenCalls, TypeInv, TypeOK
  <2>3. \A d \in Calls \ {c} : Untouched(d)
    BY <1>1, <1>7, <2>2 DEF Untouched, OpenCalls
  <2>4. /\ n \in Nat /\ m \in Nat /\ DOMAIN queue[c] = 1..n /\ DOMAIN queue'[c] = 1..(n + 1)
        /\ queue'[c][1] = a /\ \A i \in 1..(n + 1) : i # 1 => queue'[c][i] = queue[c][i - 1]
    <3>1. queue[c] \in Seq(Nat) /\ n \in Nat /\ m \in Nat /\ DOMAIN queue[c] = 1..n
      BY <1>3, OpenQuestionsAre DEF TypeInv
    <3>2. queue'[c] = <<a>> \o queue[c]
      BY <1>3, <2>1 DEF TypeInv, TypeOK
    <3>3. a \in Nat
      BY <1>5, <3>1
    <3>4. <<a>> \in Seq(Nat) /\ Len(<<a>>) = 1 /\ <<a>>[1] = a
      BY <3>3
    <3>5. /\ Len(queue'[c]) = n + 1 /\ queue'[c] \in Seq(Nat) /\ queue'[c][1] = a
          /\ \A i \in 1..(n + 1) : i # 1 => queue'[c][i] = queue[c][i - 1]
      BY <3>1, <3>2, <3>4
    <3>6. DOMAIN queue'[c] = 1..(n + 1)
      BY <3>5
    <3>7. QED
      BY <3>1, <3>5, <3>6
  <2>5. /\ \A i \in 1..n : queue[c][i] \in 1..m /\ queue[c][i] # arriving[c] /\ queue[c][i] # a
        /\ a # arriving[c]
    <3>1. \A i \in 1..n : queue[c][i] \in 1..m /\ queue[c][i] # arriving[c]
      BY <1>3, <2>4 DEF QuestionsOf, Placed
    <3>2. \A i \in 1..n : queue[c][i] # a
      BY <1>5, <2>4 DEF OpenQuestions
    <3>3. a # arriving[c]
      BY <1>5, <2>4 DEF OpenQuestions
    <3>4. QED
      BY <3>1, <3>2, <3>3
  <2>6. \A i, j \in 1..n : queue[c][i] = queue[c][j] => i = j
    BY <1>3, <2>4 DEF QuestionsOf, Placed
  <2>7. \A i \in 1..(n + 1) : i # 1 => i - 1 \in 1..n
    BY <2>4
  <2>8. TakingIn(c)'
    BY <1>1, <1>3, <1>7, <1>11, <2>2 DEF QuestionsOf, TakingIn
  <2>9. Placed(c)'
    <3>1. ASSUME NEW i \in 1..(n + 1)
          PROVE  queue'[c][i] \in 1..m /\ queue'[c][i] # arriving[c]
      BY <1>5, <2>4, <2>5, <2>7
    <3>2. ASSUME NEW i \in 1..(n + 1), NEW j \in 1..(n + 1), queue'[c][i] = queue'[c][j]
          PROVE  i = j
      <4>1. CASE i = 1 \/ j = 1
        BY <2>4, <2>5, <2>7, <3>2, <4>1
      <4>2. CASE i # 1 /\ j # 1
        <5>1. i - 1 = j - 1
          BY <2>4, <2>6, <2>7, <3>2, <4>2
        <5>2. QED
          BY <2>4, <5>1
      <4>3. QED
        BY <4>1, <4>2
    <3>3. QED
      BY <1>1, <1>7, <2>4, <3>1, <3>2 DEF Placed
  <2>10. OpenQuestions(c)' = OpenQuestions(c) \cup {a}
    <3>1. {queue'[c][i] : i \in 1..(n + 1)} = {queue[c][i] : i \in 1..n} \cup {a}
      <4>1. ASSUME NEW i \in 1..n PROVE queue[c][i] \in {queue'[c][j] : j \in 1..(n + 1)}
        <5>1. i + 1 \in 1..(n + 1) /\ i + 1 # 1 /\ (i + 1) - 1 = i
          BY <2>4
        <5>2. queue'[c][i + 1] = queue[c][i]
          BY <2>4, <5>1
        <5>3. QED
          BY <5>1, <5>2
      <4>2. 1 \in 1..(n + 1) /\ queue'[c][1] = a
        BY <2>4
      <4>3. ASSUME NEW i \in 1..(n + 1)
            PROVE  queue'[c][i] \in {queue[c][j] : j \in 1..n} \cup {a}
        BY <2>4, <2>7
      <4>4. QED
        BY <4>1, <4>2, <4>3
    <3>2. QED
      BY <1>1, <2>4, <3>1 DEF OpenQuestions
  <2>11. Held(c)'
    BY <1>3, <1>7, <1>11, <2>2, <2>10 DEF QuestionsOf, Held
  <2>12. Answered(c)'
    <3>1. ASSUME NEW u \in ToolCalls, Answers(u, c)'
          PROVE  Answers(u, c) /\ Away(u, c) /\ local'[u] = local[u] /\ local[u].asking # a
      <4>1. Answers(u, c) /\ local'[u] = local[u] /\ u # t
        BY <1>8, <1>9, <3>1 DEF Aside, Answers
      <4>2. QED
        BY <1>3, <1>6, <4>1 DEF QuestionsOf, Answered
    <3>2. ASSUME NEW u \in ToolCalls, Answers(u, c)' PROVE Away(u, c)'
      <4>1. Away(u, c) /\ local'[u] = local[u] /\ local[u].asking # a
        BY <3>1, <3>2
      <4>2. QED
        BY <1>7, <2>10, <4>1 DEF Away
    <3>3. QED
      BY <1>3, <3>1, <3>2 DEF QuestionsOf, Answered
  <2>13. QED
    BY <1>3, <1>8, <2>3, <2>8, <2>9, <2>11, <2>12, OneTouched DEF QuestionsOf
<1>12. QED
  BY <1>10, <1>11

(* A call that starts has been asked nothing.                              *)
LEMMA StartCallQuestions ==
  ASSUME TypeInv, Questions, NEW t \in ToolCalls, StartCall(t)
  PROVE  Questions'
<1>1. started + 1 \in Calls /\ state[started + 1] = "none"
  BY BoundsAssumption DEF StartCall, TypeInv, TypeOK, KnownCalls
<1>2. PICK c \in Calls : c = started + 1 /\ state[c] = "none"
  BY <1>1
<1>3. /\ UNCHANGED <<queue, arriving, reply>>
      /\ state' = [state EXCEPT ![c] = "running"]
      /\ reader' = [reader EXCEPT ![c] = "reading"]
      /\ pc' \in {[pc EXCEPT ![t] = "untilReady"], [pc EXCEPT ![t] = "done"]}
      /\ \A u \in ToolCalls \ {t} : local'[u] = local[u]
  BY <1>2 DEF StartCall, Ends, TypeInv, TypeOK
<1>4. \A d : Aside(d)
  <2>1. pc'[t] # "answering"
    BY <1>3 DEF TypeInv, TypeOK
  <2>2. \A u \in ToolCalls : pc'[u] = "answering" => local'[u] = local[u]
    BY <1>3, <2>1
  <2>3. QED
    BY <1>3, <2>2, AllAside
<1>5. \A d \in Calls \ {c} : Untouched(d)
  BY <1>3 DEF Untouched, OpenCalls, TypeInv, TypeOK
<1>6. QuestionsOf(c)
  BY <1>2 DEF Questions
<1>7. arriving[c] = 0 /\ Unreplied(c) = {}
  BY <1>2, <1>6 DEF QuestionsOf, TakingIn, Held, OpenCalls
<1>8. reader'[c] = "reading"
  BY <1>3, <1>2 DEF TypeInv, TypeOK
<1>9. OpenQuestions(c)' = OpenQuestions(c) /\ Unreplied(c)' = Unreplied(c)
  BY <1>3 DEF OpenQuestions, Unreplied
<1>10. TakingIn(c)' /\ Placed(c)'
  BY <1>3, <1>6, <1>7, <1>8 DEF QuestionsOf, TakingIn, Placed
<1>11. Held(c)'
  BY <1>7, <1>9 DEF Held
<1>12. Answered(c)'
  BY <1>3, <1>4, <1>6, <1>9 DEF QuestionsOf, Answered, Away, Aside
<1>13. QED
  BY <1>2, <1>4, <1>5, <1>10, <1>11, <1>12, OneTouched DEF QuestionsOf

(* Calls that are cancelled, all those of cs that are open.                *)
LEMMA CancelQuestions ==
  ASSUME TypeInv, Questions, NEW cs \in SUBSET Calls, Cancel(cs), UNCHANGED reader,
         \A c : Aside(c)
  PROVE  Questions'
<1>1. /\ cs \cap OpenCalls \in SUBSET OpenCalls /\ Finish(cs \cap OpenCalls, "cancelled")
      /\ \E sent \in BOOLEAN : Refuse(cs \cap OpenCalls, sent)
  BY DEF Cancel
<1>2. QED
  BY <1>1, FinishQuestions

(* Scopes that close refuse what their calls were asked.                   *)
LEMMA ScopesQuestions ==
  ASSUME TypeInv, Questions, NEW ss \in SUBSET Scopes, CloseScopes(ss)
  PROVE  Questions'
<1> DEFINE cs == UNION {tracked[s] : s \in ss}
<1>1. cs \in SUBSET Calls
  BY DEF TypeInv, TypeOK
<1>2. Cancel(cs) /\ pc' = Woken(cs \cap OpenCalls) /\ UNCHANGED <<reader, local>>
  BY DEF CloseScopes, streamVars, toolVars
<1> HIDE DEF cs
<1>3. \A c : Aside(c)
  BY <1>2, WokenAside DEF Aside, Answers, TypeInv
<1>4. QED
  BY <1>1, <1>2, <1>3, CancelQuestions

(* Steps of tool calls that touch no question, and those that cancel.      *)
LEMMA ToolQuestions ==
  ASSUME TypeInv, Questions, Waits, NEW t \in ToolCalls, ToolStep(t)
  PROVE  Questions'
<1>1. CASE UNCHANGED <<state, queue, arriving, reply, reader>> /\ \A c : Aside(c)
  BY <1>1, QuestionsKept DEF Questions, Untouched, OpenCalls
<1>2. ASSUME NEW p, p # "answering", pc' = [pc EXCEPT ![t] = p],
             \A u \in ToolCalls \ {t} : local'[u] = local[u]
      PROVE  \A c : Aside(c)
  <2>1. \A u \in ToolCalls : pc'[u] = "answering" => local'[u] = local[u]
    BY <1>2 DEF TypeInv, TypeOK
  <2>2. QED
    BY <1>2, <2>1, AllAside
<1>3. CASE \/ \E s \in Scopes, wait \in BOOLEAN : PromptAgent(t, s, wait)
           \/ ResolveFails(t) \/ Reserve(t) \/ GiveUp(t)
  <2>1. UNCHANGED <<state, queue, arriving, reply, reader>>
    BY <1>3 DEF PromptAgent, ResolveFails, Reserve, GiveUp, callVars, streamVars, scopeVars
  <2>2. PICK p \in {"refused", "resolving", "admitted"} : pc' = [pc EXCEPT ![t] = p]
    BY <1>3 DEF PromptAgent, ResolveFails, Reserve, GiveUp, Refused
  <2>3. \A u \in ToolCalls \ {t} : local'[u] = local[u]
    BY <1>3 DEF PromptAgent, ResolveFails, Reserve, GiveUp, Refused, Ends, TypeInv, TypeOK
  <2>4. QED
    BY <1>1, <1>2, <2>1, <2>2, <2>3
<1>4. CASE \/ \E s \in Scopes : \E cs \in (SUBSET Calls) \ {{}} : WaitAgent(t, s, cs)
           \/ WaitTurn(t) \/ Collect(t) \/ Abort(t) \/ Deadline(t)
  <2>1. UNCHANGED <<state, queue, arriving, reply, reader>>
    BY <1>4 DEF WaitAgent, WaitTurn, Collect, Abort, Deadline, callVars, streamVars
  <2>2. PICK p \in {"refused", "waitAgent", "untilReady", "awaitAny", "done"} :
          pc' = [pc EXCEPT ![t] = p]
    <3>1. CASE WaitTurn(t) \/ Collect(t)
      BY <3>1 DEF WaitTurn, Collect, Give
    <3>2. CASE Abort(t)
      BY <3>2 DEF Abort
    <3>3. CASE Deadline(t)
      BY <3>3 DEF Deadline
    <3>4. CASE \E s \in Scopes : \E cs \in (SUBSET Calls) \ {{}} : WaitAgent(t, s, cs)
      BY <3>4 DEF WaitAgent, Refused
    <3>5. QED
      BY <1>4, <3>1, <3>2, <3>3, <3>4
  <2>3. \A u \in ToolCalls \ {t} : local'[u] = local[u]
    BY <1>4 DEF WaitAgent, WaitTurn, Collect, Abort, Deadline, Refused, Give, Ends,
                TypeInv, TypeOK
  <2>4. QED
    BY <1>1, <1>2, <2>1, <2>2, <2>3
<1>5. CASE UntilReady(t)
  <2>1. PICK c \in Calls : local[t].on = {c}
    BY <1>5 DEF UntilReady, Waits, Watches
  <2>2. UNCHANGED reader
    BY <1>5 DEF UntilReady, streamVars
  <2>3. CASE state[c] = "running" /\ local[t].aborted
    <3>1. Cancel({c}) /\ pc' = Woken({c}) /\ UNCHANGED local
      BY <1>5, <2>1, <2>3 DEF UntilReady
    <3>2. \A d : Aside(d)
      BY <3>1, WokenAside DEF Aside, Answers, TypeInv
    <3>3. QED
      BY <2>2, <3>1, <3>2, CancelQuestions
  <2>4. CASE ~(state[c] = "running" /\ local[t].aborted)
    <3>1. UNCHANGED <<callVars, reply>>
      BY <1>5, <2>1, <2>4 DEF UntilReady
    <3>2. PICK p \in {"done", "awaitReady"} : pc' = [pc EXCEPT ![t] = p]
      BY <1>5, <2>1, <2>4 DEF UntilReady, Give
    <3>3. \A u \in ToolCalls \ {t} : local'[u] = local[u]
      BY <1>5, <2>1, <2>4 DEF UntilReady, Give, Ends, TypeInv, TypeOK
    <3>4. QED
      BY <1>1, <1>2, <2>2, <3>1, <3>2, <3>3 DEF callVars
  <2>5. QED
    BY <2>3, <2>4
<1>6. CASE \E s \in Scopes : \E c \in Calls : CancelAgent(t, s, c)
  <2>1. PICK s \in Scopes, c \in Calls : CancelAgent(t, s, c)
    BY <1>6
  <2>2. UNCHANGED reader /\ \A u \in ToolCalls \ {t} : local'[u] = local[u]
    BY <2>1 DEF CancelAgent, Refused, Ends, streamVars, TypeInv, TypeOK
  <2>3. CASE c \in tracked[s]
    <3>1. Cancel({c}) /\ pc' = [Woken({c} \cap OpenCalls) EXCEPT ![t] = "collecting"]
      BY <2>1, <2>3 DEF CancelAgent
    <3>2. PICK cs : pc' = [Woken(cs) EXCEPT ![t] = "collecting"]
      BY <3>1
    <3>3. pc'[t] # "answering"
      BY <3>2, WokenType DEF TypeInv
    <3>4. \A d : Aside(d)
      BY <2>2, <3>2, <3>3, AllAside
    <3>5. QED
      BY <2>2, <3>1, <3>4, CancelQuestions
  <2>4. CASE c \notin tracked[s]
    <3>1. Refused(t) /\ UNCHANGED <<callVars, reply>>
      BY <2>1, <2>4 DEF CancelAgent
    <3>2. QED
      BY <1>1, <1>2, <2>2, <3>1 DEF Refused, callVars
  <2>5. QED
    BY <2>3, <2>4
<1>7. CASE \E s \in Scopes : \E c \in Calls, wait \in BOOLEAN : AnswerAgent(t, s, c, wait)
  BY <1>7, AnswerAgentQuestions
<1>8. QED
  BY <1>3, <1>4, <1>5, <1>6, <1>7, StartCallQuestions, AnswerSentQuestions,
     AnswerFailsQuestions
     DEF ToolStep

(* The reader's steps that touch no question, and those that end its call. *)
LEMMA ReaderQuestions ==
  ASSUME TypeInv, Questions, NEW c \in Calls, ReaderStep(c)
  PROVE  Questions'
<1>1. UNCHANGED local
  BY DEF ReaderStep, ReadResponse, FilesSaved, ReadQuery, TakenIn, StreamEnds, Complete,
         ReaderFails, toolVars
<1>2. CASE \/ \E attached \in BOOLEAN : ReadResponse(c, attached)
           \/ FilesSaved(c) \/ StreamEnds(c)
  <2>1. UNCHANGED <<state, queue, arriving, reply, pc>>
    BY <1>2 DEF ReadResponse, FilesSaved, StreamEnds, callVars
  <2>2. /\ reader[c] # "takingIn"
        /\ \E r \in {"saving", "reading", "looking", "done"} : reader' = [reader EXCEPT ![c] = r]
    BY <1>2 DEF ReadResponse, FilesSaved, StreamEnds, AtMessage
  <2>3. \A d \in Calls : reader'[d] = "takingIn" <=> reader[d] = "takingIn"
    BY <2>2 DEF TypeInv, TypeOK
  <2>4. \A d \in Calls : Untouched(d) /\ Aside(d)
    BY <1>1, <2>1, <2>3 DEF Untouched, Aside, Answers, OpenCalls
  <2>5. QED
    BY <2>4, QuestionsKept DEF Questions
<1>3. CASE Complete(c) \/ \E end \in {"failed", "expired"} : ReaderFails(c, end)
  <2> DEFINE cs == {c} \cap OpenCalls
  <2>1. PICK end \in FinalStates :
          /\ Finish(cs, end)
          /\ \/ end = "completed" /\ UNCHANGED reply
             \/ \E sent \in BOOLEAN : Refuse(cs, sent)
    BY <1>3 DEF Complete, ReaderFails
  <2>2. pc' = Woken(cs) /\ reader' = [reader EXCEPT ![c] = "done"]
    BY <1>3 DEF Complete, ReaderFails
  <2>3. \A d \in OpenCalls \ cs : reader'[d] = reader[d]
    BY <2>2 DEF OpenCalls, TypeInv, TypeOK
  <2>4. cs \in SUBSET OpenCalls
    OBVIOUS
  <2> HIDE DEF cs
  <2>5. \A d : Aside(d)
    BY <1>1, <2>2, WokenAside DEF Aside, Answers, TypeInv
  <2>6. QED
    BY <2>1, <2>3, <2>4, <2>5, FinishQuestions
<1>4. QED
  BY <1>2, <1>3, ReadQueryQuestions, TakenInQuestions DEF ReaderStep

-----------------------------------------------------------------------------
(* The invariant of the calls.                                             *)
LEMMA CallInvInit == Init => CallInv
<1> SUFFICES ASSUME Init PROVE CallInv
  OBVIOUS
<1>1. Inv
  BY InvInit
<1>2. Questions
  BY DEF Init, Questions, QuestionsOf, TakingIn, Placed, Held, Answered, Answers, Unreplied,
         OpenCalls
<1>3. Order /\ Waits /\ AwaitedMeansDelivered
  BY DEF Init, Order, Waits, Watches, Watching, AwaitedMeansDelivered
<1>4. QED
  BY <1>1, <1>2, <1>3 DEF CallInv

(* Every step keeps the invariant, and moves the calls as Goes and Sealed  *)
(* say.                                                                    *)
LEMMA CallInvNext == CallInv /\ [Next]_vars => CallInv' /\ Goes /\ Sealed
<1> SUFFICES ASSUME CallInv, [Next]_vars PROVE CallInv' /\ Goes /\ Sealed
  OBVIOUS
<1>1. Inv /\ TypeInv /\ Questions /\ Order /\ Waits /\ AwaitedMeansDelivered
  BY DEF CallInv, Inv
<1>2. Inv' /\ TypeInv'
  BY <1>1, InvNext DEF Inv
<1>3. Goes /\ Sealed
  BY <1>1, StepGoes
<1>4. PICK cs \in SUBSET Calls : Moved(cs) /\ ToolsGo(cs)
  BY <1>3 DEF Goes
<1>5. Order'
  BY <1>1, <1>2, <1>4, OrderKept
<1>6. Waits'
  BY <1>1, <1>4, WaitsKept
<1>7. AwaitedMeansDelivered'
  BY <1>1, <1>2, <1>4, <1>5, AwaitedKept
<1>8. Questions'
  <2>1. CASE \/ \E s \in Scopes : OpenScope(s)
             \/ UNCHANGED vars
    <3>1. UNCHANGED <<state, queue, arriving, reply, reader, pc, local>>
      BY <2>1 DEF OpenScope, vars, callVars, streamVars, toolVars
    <3>2. \A c \in Calls : Untouched(c) /\ Aside(c)
      BY <3>1 DEF Untouched, Aside, Answers, OpenCalls
    <3>3. QED
      BY <1>1, <3>2, QuestionsKept DEF Questions
  <2>2. CASE \E s \in Scopes : EndPrompt(s)
    <3>1. PICK s \in Scopes : CloseScopes({s})
      BY <2>2 DEF EndPrompt
    <3>2. {s} \in SUBSET Scopes
      OBVIOUS
    <3>3. QED
      BY <1>1, <3>1, <3>2, ScopesQuestions
  <2>3. CASE Close
    <3>1. {s \in Scopes : phase[s] = "open"} \in SUBSET Scopes
      OBVIOUS
    <3>2. QED
      BY <1>1, <2>3, <3>1, ScopesQuestions DEF Close
  <2>4. CASE \E t \in ToolCalls : ToolStep(t)
    BY <1>1, <2>4, ToolQuestions
  <2>5. CASE \E c \in Calls : ReaderStep(c)
    BY <1>1, <2>5, ReaderQuestions
  <2>6. QED
    BY <2>1, <2>2, <2>3, <2>4, <2>5 DEF Next
<1>9. QED
  BY <1>2, <1>3, <1>5, <1>6, <1>7, <1>8 DEF CallInv

(* The inductive invariant holds of every behaviour of the helper (all of  *)
(* agent-tools.ts from execute to read).                                   *)
THEOREM CallInvariant == Spec => []CallInv
<1>1. CallInv /\ [Next]_vars => CallInv'
  BY CallInvNext
<1>2. QED
  BY <1>1, CallInvInit, PTL DEF Spec

(* No question is lost, held twice or left behind by a call that ended,    *)
(* and a host that is told "awaited" has a tool call that takes the result *)
(* to the model (answerAgent, takeIn, finish, notify).                     *)
THEOREM CallsAreSound == Spec => []CallsSound
<1>1. CallInv => CallsSound
  <2> SUFFICES ASSUME CallInv PROVE CallsSound
    OBVIOUS
  <2>1. TypeOK /\ Shown /\ Questions
    BY DEF CallInv, Inv, TypeInv
  <2>2. QuestionShownIffOpen
    BY <2>1 DEF Shown, Questions, QuestionsOf, TakingIn, QuestionShownIffOpen
  <2>3. NoAbandonedQuestion
    BY <2>1 DEF Questions, QuestionsOf, Held, Unreplied, OpenCalls, NoAbandonedQuestion
  <2>4. EveryOpenQuestionHeld
    BY <2>1 DEF Questions, QuestionsOf, Held, Placed, Unreplied, OpenCalls,
                EveryOpenQuestionHeld
  <2>5. QED
    BY <2>2, <2>3, <2>4 DEF CallInv, CallsSound
<1>2. QED
  BY <1>1, CallInvariant, PTL

(* A final state is final, with the text, the place in line and what the   *)
(* host was told: cancel, end of stream, expiry and failure race, and the  *)
(* first one stands (finish).                                              *)
THEOREM FinalStays == Spec => FinalIsFinal
<1> DEFINE Stays == \A c \in Calls : state[c] \in FinalStates =>
                      /\ state'[c] = state[c] /\ seq'[c] = seq[c] /\ text'[c] = text[c]
                      /\ settled'[c] = settled[c] /\ queue'[c] = queue[c]
<1>1. CallInv /\ [Next]_vars => Stays
  <2> SUFFICES ASSUME CallInv, [Next]_vars, NEW c \in Calls, state[c] \in FinalStates
               PROVE  /\ state'[c] = state[c] /\ seq'[c] = seq[c] /\ text'[c] = text[c]
                      /\ settled'[c] = settled[c] /\ queue'[c] = queue[c]
    OBVIOUS
  <2>1. c \notin OpenCalls /\ state[c] # "none"
    BY DEF OpenCalls
  <2>2. Goes /\ Sealed
    BY CallInvNext
  <2>3. PICK cs \in SUBSET Calls : Moved(cs)
    BY <2>2 DEF Goes
  <2>4. Rests(c)
    BY <2>1, <2>3 DEF Moved
  <2>5. QED
    BY <2>1, <2>2, <2>4 DEF Rests, Sealed
<1>2. Spec => [][Stays]_vars
  BY <1>1, CallInvariant, PTL DEF Spec
<1>3. QED
  BY <1>2 DEF FinalIsFinal

-----------------------------------------------------------------------------
(* The contract.  A call is tracked by the scope it started in only, and a *)
(* prompt_agent under way works in a scope that has opened.                *)
AtHome ==
  /\ \A s \in Scopes : \A c \in tracked[s] : home[c] = s
  /\ \A t \in ToolCalls :
       pc[t] \in {"resolving", "admitted"} => phase[local[t].scope] # "unopened"

OnItsWay(t) == pc[t] \in {"resolving", "admitted"}

(* Only prompt_agent sets a tool call on its way to start a call.          *)
LEMMA OnlyPromptsGo ==
  ASSUME TypeInv, Waits, NEW t \in ToolCalls, ToolStep(t),
         NEW u \in ToolCalls, OnItsWay(u)'
  PROVE  \/ OnItsWay(u) /\ local'[u] = local[u]
         \/ u = t /\ \E s \in Scopes : phase[s] # "unopened" /\ local'[u].scope = s
<1>1. ASSUME NEW p, p \notin {"resolving", "admitted"}, NEW cs,
             \/ pc' = [pc EXCEPT ![t] = p]
             \/ pc' = [Woken(cs) EXCEPT ![t] = p]
             \/ pc' = Woken(cs),
             \A v \in ToolCalls \ {t} : local'[v] = local[v],
             ~OnItsWay(t)' \/ local'[t] = local[t]
      PROVE  OnItsWay(u) /\ local'[u] = local[u]
  <2>1. Woken(cs) \in [ToolCalls -> PcStates] /\ pc \in [ToolCalls -> PcStates]
    BY WokenType DEF TypeInv, TypeOK
  <2>2. \A v \in ToolCalls : Woken(cs)[v] \in {"resolving", "admitted"} => Woken(cs)[v] = pc[v]
    BY DEF Woken
  <2>3. \A v \in ToolCalls : OnItsWay(v)' => OnItsWay(v)
    BY <1>1, <2>1, <2>2 DEF OnItsWay
  <2>4. QED
    BY <1>1, <2>3
<1>2. ASSUME NEW p, p \notin {"resolving", "admitted"}, NEW cs,
             \/ pc' = [pc EXCEPT ![t] = p]
             \/ pc' = [Woken(cs) EXCEPT ![t] = p],
             \A v \in ToolCalls \ {t} : local'[v] = local[v]
      PROVE  OnItsWay(u) /\ local'[u] = local[u]
  <2>1. ~OnItsWay(t)'
    BY <1>2, WokenType DEF OnItsWay, TypeInv, TypeOK
  <2>2. QED
    BY <1>1, <1>2, <2>1
<1>3. CASE \E s \in Scopes, wait \in BOOLEAN : PromptAgent(t, s, wait)
  <2>1. PICK s \in Scopes, wait \in BOOLEAN : PromptAgent(t, s, wait)
    BY <1>3
  <2>2. CASE pc' = [pc EXCEPT ![t] = "resolving"]
    <3>1. /\ phase[s] # "unopened"
          /\ local' = [local EXCEPT ![t] = [Begin(t, s, {}) EXCEPT !.wait = wait]]
      BY <2>1, <2>2 DEF PromptAgent, Execute, Refused, TypeInv, TypeOK
    <3>2. local'[t].scope = s
      BY <3>1 DEF Begin, NoLocals, TypeInv, TypeOK
    <3>3. u # t => OnItsWay(u) /\ local'[u] = local[u]
      BY <2>2, <3>1 DEF OnItsWay, TypeInv, TypeOK
    <3>4. QED
      BY <3>1, <3>2, <3>3
  <2>3. CASE Refused(t)
    <3>1. pc' = [pc EXCEPT ![t] = "refused"] /\ \A v \in ToolCalls \ {t} : local'[v] = local[v]
      BY <2>3 DEF Refused, Ends, TypeInv, TypeOK
    <3>2. QED
      BY <1>2, <3>1
  <2>4. QED
    BY <2>1, <2>2, <2>3 DEF PromptAgent
<1>4. CASE Reserve(t)
  <2>1. CASE pc' = [pc EXCEPT ![t] = "admitted"] /\ UNCHANGED local
    BY <1>4, <2>1 DEF Reserve, OnItsWay, TypeInv, TypeOK
  <2>2. CASE Refused(t)
    <3>1. pc' = [pc EXCEPT ![t] = "refused"] /\ \A v \in ToolCalls \ {t} : local'[v] = local[v]
      BY <2>2 DEF Refused, Ends, TypeInv, TypeOK
    <3>2. QED
      BY <1>2, <3>1
  <2>3. QED
    BY <1>4, <2>1, <2>2 DEF Reserve
<1>5. CASE ResolveFails(t) \/ GiveUp(t) \/ StartCall(t) \/ Collect(t) \/ AnswerSent(t)
  <2>1. PICK p \in {"refused", "untilReady", "done"} : pc' = [pc EXCEPT ![t] = p]
    BY <1>5 DEF ResolveFails, GiveUp, StartCall, Collect, AnswerSent, Refused, Give
  <2>2. \A v \in ToolCalls \ {t} : local'[v] = local[v]
    BY <1>5 DEF ResolveFails, GiveUp, StartCall, Collect, AnswerSent, Refused, Give, Ends,
                TypeInv, TypeOK
  <2>3. QED
    BY <1>2, <2>1, <2>2
<1>6. CASE UntilReady(t)
  <2>1. CASE \E c : pc' = Woken({c}) /\ UNCHANGED local
    <3>1. PICK cs : pc' = Woken(cs) /\ UNCHANGED local
      BY <2>1
    <3>2. \A v \in ToolCalls : local'[v] = local[v]
      BY <3>1
    <3>3. "done" \notin {"resolving", "admitted"}
      OBVIOUS
    <3>4. QED
      BY <1>1, <3>1, <3>2, <3>3
  <2>2. CASE ~\E c : pc' = Woken({c}) /\ UNCHANGED local
    <3>1. PICK p \in {"done", "awaitReady"} : pc' = [pc EXCEPT ![t] = p]
      BY <1>6, <2>2 DEF UntilReady, Give
    <3>2. \A v \in ToolCalls \ {t} : local'[v] = local[v]
      BY <1>6 DEF UntilReady, Give, Ends, TypeInv, TypeOK
    <3>3. QED
      BY <1>2, <3>1, <3>2
  <2>3. QED
    BY <2>1, <2>2
<1>7. CASE \/ \E s \in Scopes : \E cs \in (SUBSET Calls) \ {{}} : WaitAgent(t, s, cs)
           \/ WaitTurn(t) \/ Abort(t) \/ Deadline(t)
  <2>1. PICK p \in {"refused", "waitAgent", "untilReady", "awaitAny", "done"} :
          pc' = [pc EXCEPT ![t] = p]
    <3>1. CASE WaitTurn(t)
      BY <3>1 DEF WaitTurn, Give
    <3>2. CASE Abort(t) \/ Deadline(t)
      BY <3>2 DEF Abort, Deadline
    <3>3. CASE \E s \in Scopes : \E cs \in (SUBSET Calls) \ {{}} : WaitAgent(t, s, cs)
      BY <3>3 DEF WaitAgent, Refused
    <3>4. QED
      BY <1>7, <3>1, <3>2, <3>3
  <2>2. \A v \in ToolCalls \ {t} : local'[v] = local[v]
    BY <1>7 DEF WaitAgent, WaitTurn, Abort, Deadline, Refused, Give, Ends, TypeInv, TypeOK
  <2>3. QED
    BY <1>2, <2>1, <2>2
<1>8. CASE AnswerFails(t)
           \/ \E s \in Scopes : \E c \in Calls :
                CancelAgent(t, s, c) \/ \E wait \in BOOLEAN : AnswerAgent(t, s, c, wait)
  <2>1. \E cs : \E p \in {"refused", "collecting", "answering"} :
          \/ pc' = [pc EXCEPT ![t] = p]
          \/ pc' = [Woken(cs) EXCEPT ![t] = p]
    <3>1. CASE AnswerFails(t)
      BY <3>1 DEF AnswerFails
    <3>2. CASE \E s \in Scopes : \E c \in Calls : CancelAgent(t, s, c)
      BY <3>2 DEF CancelAgent, Refused
    <3>3. CASE \E s \in Scopes : \E c \in Calls, wait \in BOOLEAN : AnswerAgent(t, s, c, wait)
      BY <3>3 DEF AnswerAgent, Refused
    <3>4. QED
      BY <1>8, <3>1, <3>2, <3>3
  <2>2. \A v \in ToolCalls \ {t} : local'[v] = local[v]
    BY <1>8 DEF AnswerFails, CancelAgent, AnswerAgent, Refused, Ends, TypeInv, TypeOK
  <2>3. QED
    BY <1>2, <2>1, <2>2
<1>9. QED
  BY <1>3, <1>4, <1>5, <1>6, <1>7, <1>8 DEF ToolStep

(* Every step keeps it: Reserve and StartCall are those that change what a *)
(* scope tracks, and opening and closing never leave a scope unopened.     *)
LEMMA AtHomeKept ==
  ASSUME CallInv, AtHome, [Next]_vars
  PROVE  AtHome'
<1>0. Inv /\ TypeInv /\ Waits
  BY DEF CallInv, Inv
<1>1. \A s \in Scopes : phase[s] # "unopened" => phase'[s] # "unopened"
  <2>1. CASE UNCHANGED phase
    BY <2>1
  <2>2. CASE \E s \in Scopes : OpenScope(s) \/ EndPrompt(s)
    BY <1>0, <2>2 DEF OpenScope, EndPrompt, CloseScopes, TypeInv, TypeOK
  <2>3. CASE Close
    BY <2>3 DEF Close, CloseScopes
  <2>4. ASSUME NEW t \in ToolCalls, ToolStep(t) PROVE UNCHANGED phase
    <3>1. CASE Reserve(t) \/ GiveUp(t) \/ StartCall(t)
      BY <3>1 DEF Reserve, GiveUp, StartCall, helperVars
    <3>2. CASE ~(Reserve(t) \/ GiveUp(t) \/ StartCall(t))
      BY <1>0, <2>4, <3>2, QuietTool DEF ToolStep, Quiet
    <3>3. QED
      BY <3>1, <3>2
  <2>5. CASE \E c \in Calls : ReaderStep(c)
    BY <1>0, <2>1, <2>5, QuietReader DEF Quiet
  <2>6. QED
    BY <2>1, <2>2, <2>3, <2>4, <2>5 DEF Next, vars, helperVars
<1>2. \A s \in Scopes : \A c \in tracked'[s] : home'[c] = s
  <2>1. CASE UNCHANGED <<tracked, home>>
    BY <2>1 DEF AtHome
  <2>2. ASSUME NEW t \in ToolCalls, Reserve(t)
        PROVE  \A s \in Scopes : \A c \in tracked'[s] : home'[c] = s
    <3>1. CASE UNCHANGED tracked
      BY <2>1, <2>2, <3>1 DEF Reserve, birthVars
    <3>2. CASE tracked' = [tracked EXCEPT ![local[t].scope] =
                             @ \ (IF HasRoom(local[t].scope) THEN {} ELSE Oldest(local[t].scope))]
      <4>1. \A s \in Scopes : tracked'[s] \subseteq tracked[s]
        BY <1>0, <3>2 DEF TypeInv, TypeOK
      <4>2. home' = home
        BY <2>2 DEF Reserve, birthVars
      <4>3. QED
        BY <4>1, <4>2 DEF AtHome
    <3>3. QED
      BY <2>2, <3>1, <3>2 DEF Reserve, scopeVars
  <2>3. ASSUME NEW t \in ToolCalls, StartCall(t)
        PROVE  \A s \in Scopes : \A c \in tracked'[s] : home'[c] = s
    <3>1. started + 1 \in Calls /\ state[started + 1] = "none"
      BY <1>0, <2>3, BoundsAssumption DEF StartCall, TypeInv, TypeOK, KnownCalls
    <3>2. PICK d \in Calls : d = started + 1 /\ state[d] = "none"
      BY <3>1
    <3>3. /\ tracked' = [tracked EXCEPT ![local[t].scope] = @ \cup {d}]
          /\ home' = [home EXCEPT ![d] = local[t].scope]
      BY <2>3, <3>2 DEF StartCall
    <3>4. \A s \in Scopes : d \notin tracked[s]
      BY <1>0, <3>2 DEF TypeInv, KnownCalls
    <3>5. ASSUME NEW s \in Scopes, NEW c \in tracked'[s] PROVE home'[c] = s
      <4>1. CASE c = d
        <5>1. s = local[t].scope
          BY <1>0, <3>3, <3>4, <4>1 DEF TypeInv, TypeOK
        <5>2. QED
          BY <1>0, <3>3, <4>1, <5>1 DEF TypeInv, TypeOK
      <4>2. CASE c # d
        <5>1. c \in tracked[s]
          BY <1>0, <3>3, <4>2 DEF TypeInv, TypeOK
        <5>2. c \in Calls
          BY <1>0, <5>1 DEF TypeInv, TypeOK
        <5>3. QED
          BY <1>0, <3>3, <4>2, <5>1, <5>2 DEF AtHome, TypeInv, TypeOK
      <4>3. QED
        BY <4>1, <4>2
    <3>6. QED
      BY <3>5
  <2>4. ASSUME NEW t \in ToolCalls, ToolStep(t)
        PROVE  \A s \in Scopes : \A c \in tracked'[s] : home'[c] = s
    <3>1. CASE Reserve(t) \/ StartCall(t)
      BY <2>2, <2>3, <3>1
    <3>2. CASE GiveUp(t)
      BY <2>1, <3>2 DEF GiveUp, birthVars
    <3>3. CASE ~(Reserve(t) \/ GiveUp(t) \/ StartCall(t))
      BY <1>0, <2>1, <2>4, <3>3, QuietTool DEF ToolStep, Quiet, scopeVars
    <3>4. QED
      BY <3>1, <3>2, <3>3
  <2>5. CASE \E c \in Calls : ReaderStep(c)
    BY <1>0, <2>1, <2>5, QuietReader DEF Quiet, scopeVars
  <2>6. CASE (\E s \in Scopes : OpenScope(s) \/ EndPrompt(s)) \/ Close \/ UNCHANGED vars
    BY <2>1, <2>6 DEF OpenScope, EndPrompt, Close, CloseScopes, scopeVars, birthVars, vars
  <2>7. QED
    BY <2>4, <2>5, <2>6 DEF Next
<1>3. \A u \in ToolCalls : OnItsWay(u)' => phase'[local'[u].scope] # "unopened"
  <2>1. CASE \A u \in ToolCalls : OnItsWay(u)' => OnItsWay(u) /\ local'[u] = local[u]
    BY <1>0, <1>1, <2>1 DEF AtHome, OnItsWay, TypeInv, TypeOK, Locals
  <2>2. CASE \E t \in ToolCalls : ToolStep(t)
    <3>1. PICK t \in ToolCalls : ToolStep(t)
      BY <2>2
    <3>2. ASSUME NEW u \in ToolCalls, OnItsWay(u)' PROVE phase'[local'[u].scope] # "unopened"
      <4>1. CASE OnItsWay(u) /\ local'[u] = local[u]
        BY <1>0, <1>1, <4>1 DEF AtHome, OnItsWay, TypeInv, TypeOK, Locals
      <4>2. CASE \E s \in Scopes : phase[s] # "unopened" /\ local'[u].scope = s
        BY <1>1, <4>2
      <4>3. QED
        BY <1>0, <3>1, <3>2, <4>1, <4>2, OnlyPromptsGo
    <3>3. QED
      BY <3>2
  <2>3. CASE (\E s \in Scopes : OpenScope(s)) \/ UNCHANGED vars
    BY <2>1, <2>3 DEF OpenScope, OnItsWay, vars, toolVars
  <2>4. ASSUME NEW cs, pc' \in {pc, Woken(cs)}, UNCHANGED local
        PROVE  \A u \in ToolCalls : OnItsWay(u)' => OnItsWay(u) /\ local'[u] = local[u]
    BY <2>4 DEF OnItsWay, Woken
  <2>5. CASE (\E s \in Scopes : EndPrompt(s)) \/ Close
    <3>1. PICK cs : pc' = Woken(cs)
      BY <2>5 DEF EndPrompt, Close, CloseScopes
    <3>2. UNCHANGED local
      BY <2>5 DEF EndPrompt, Close, CloseScopes, toolVars
    <3>3. QED
      BY <2>1, <2>4, <3>1, <3>2
  <2>6. CASE \E c \in Calls : ReaderStep(c)
    <3>1. PICK cs : pc' \in {pc, Woken(cs)}
      BY <2>6 DEF ReaderStep, ReadResponse, FilesSaved, ReadQuery, TakenIn, StreamEnds,
         Complete, ReaderFails
    <3>2. UNCHANGED local
      BY <2>6 DEF ReaderStep, ReadResponse, FilesSaved, ReadQuery, TakenIn, StreamEnds,
         Complete, ReaderFails, toolVars
    <3>3. QED
      BY <2>1, <2>4, <3>1, <3>2
  <2>7. QED
    BY <2>2, <2>3, <2>5, <2>6 DEF Next
<1>4. QED
  BY <1>2, <1>3 DEF AtHome, OnItsWay

(* The contract's view of the helper, and what a step looks like in it.    *)
Live == {s \in Scopes : phase[s] = "open"}
Due == [c \in Calls |-> Unreplied(c)]

ContractStep == Contract!Next \/ UNCHANGED <<Live, home, state, Due>>

(* The questions due are among those the contract knows.                   *)
AskedQuestions == UNION {1..MaxQuestions[c] : c \in Calls}
Asked == \A c \in Calls : Due[c] \subseteq AskedQuestions

(* What a change of one call's questions is in the contract's terms.       *)
LEMMA DueOf ==
  ASSUME NEW c \in Calls, \A d \in Calls \ {c} : Unreplied(d)' = Unreplied(d)
  PROVE  Due' = [Due EXCEPT ![c] = Unreplied(c)']
BY DEF Due

LEMMA DueSame ==
  ASSUME UNCHANGED reply
  PROVE  UNCHANGED Due
BY DEF Due, Unreplied

(* A step that changes nothing the contract sees.                          *)
LEMMA StillContract ==
  ASSUME UNCHANGED <<phase, home, state>>, \A c \in Calls : Unreplied(c)' = Unreplied(c)
  PROVE  ContractStep
<1>1. Due' = Due
  BY DEF Due
<1>2. Live' = Live
  BY DEF Live
<1>3. QED
  BY <1>1, <1>2 DEF ContractStep

(* Some of the calls of cs are open: they end, and what they were asked is *)
(* replied to.                                                             *)
LEMMA EndedDue ==
  ASSUME TypeInv, Questions, NEW cs \in SUBSET OpenCalls, NEW end \in FinalStates,
         Finish(cs, end), Questions', end # "completed",
         \E sent \in BOOLEAN : Refuse(cs, sent)
  PROVE  Due' = [c \in Calls |-> IF c \in cs THEN {} ELSE Due[c]]
<1>1. ASSUME NEW c \in cs PROVE Unreplied(c)' = {}
  <2>1. c \in Calls /\ state'[c] = end
    BY DEF Finish, OpenCalls
  <2>2. QED
    BY <2>1 DEF Questions, QuestionsOf, Held, OpenCalls
<1>2. ASSUME NEW c \in Calls \ cs PROVE Unreplied(c)' = Unreplied(c)
  <2>1. reply'[c] = reply[c]
    BY DEF Refuse
  <2>2. QED
    BY <2>1 DEF Unreplied
<1>3. QED
  BY <1>1, <1>2 DEF Due

(* One call ends without a reply: End; with one: Complete.                 *)
LEMMA EndContract ==
  ASSUME TypeInv, Questions, Questions', NEW c \in Calls,
         NEW end \in {"failed", "cancelled", "expired"},
         Finish({c} \cap OpenCalls, end),
         \E sent \in BOOLEAN : Refuse({c} \cap OpenCalls, sent),
         UNCHANGED <<phase, home>>
  PROVE  ContractStep
<1>1. UNCHANGED Live
  BY DEF Live
<1>2. Due' = [d \in Calls |-> IF d \in {c} \cap OpenCalls THEN {} ELSE Due[d]]
  <2>1. {c} \cap OpenCalls \in SUBSET OpenCalls /\ end \in FinalStates /\ end # "completed"
    OBVIOUS
  <2>2. QED
    BY <2>1, EndedDue
<1>3. state' = [d \in Calls |-> IF d \in {c} \cap OpenCalls THEN end ELSE state[d]]
  BY DEF Finish
<1>4. CASE c \in OpenCalls
  <2>1. Due' = [Due EXCEPT ![c] = {}] /\ state' = [state EXCEPT ![c] = end]
    BY <1>2, <1>3, <1>4 DEF Due, TypeInv, TypeOK
  <2>2. Contract!End(c, end)
    BY <1>1, <1>4, <2>1
       DEF Contract!End, Contract!Open, Contract!Ended, OpenCalls, Live, Due, Unreplied
  <2>3. Contract!Next
    BY <2>2 DEF Contract!Next, Contract!Ended
  <2>4. QED
    BY <2>3 DEF ContractStep
<1>5. CASE c \notin OpenCalls
  <2>1. Due' = Due /\ state' = state
    BY <1>2, <1>3, <1>5 DEF Due, TypeInv, TypeOK
  <2>2. QED
    BY <1>1, <2>1 DEF ContractStep
<1>6. QED
  BY <1>4, <1>5

LEMMA CompleteContract ==
  ASSUME TypeInv, NEW c \in Calls, Complete(c)
  PROVE  ContractStep
<1>1. UNCHANGED <<Live, home>>
  BY DEF Complete, helperVars, birthVars, Live
<1>2. UNCHANGED Due
  BY DueSame DEF Complete
<1>3. state' = [d \in Calls |-> IF d \in {c} \cap OpenCalls THEN "completed" ELSE state[d]]
  BY DEF Complete, Finish
<1>4. CASE c \in OpenCalls
  <2>1. state' = [state EXCEPT ![c] = "completed"]
    BY <1>3, <1>4 DEF TypeInv, TypeOK
  <2>2. Contract!Complete(c)
    BY <1>1, <1>2, <1>4, <2>1
       DEF Contract!Complete, Contract!Open, OpenCalls, Live, Due, Unreplied
  <2>3. QED
    BY <2>2 DEF ContractStep, Contract!Next
<1>5. CASE c \notin OpenCalls
  <2>1. state' = state
    BY <1>3, <1>5 DEF TypeInv, TypeOK
  <2>2. QED
    BY <1>1, <1>2, <2>1 DEF ContractStep
<1>6. QED
  BY <1>4, <1>5

(* An open call turns to its questions, or from them.                      *)
LEMMA TurnContract ==
  ASSUME TypeInv, NEW c \in OpenCalls, NEW st \in OpenStates, SetState(c, st),
         UNCHANGED <<phase, home>>, \A d \in Calls : Unreplied(d)' = Unreplied(d)
  PROVE  ContractStep
<1>1. UNCHANGED Live
  BY DEF Live
<1>2. UNCHANGED Due
  BY DEF Due
<1>3. c \in Calls /\ state' = [state EXCEPT ![c] = st] /\ state[c] \in OpenStates
  BY DEF SetState, OpenCalls
<1>4. Contract!Turn(c, st)
  BY <1>1, <1>2, <1>3 DEF Contract!Turn, Contract!Open, Live, Due, Unreplied
<1>5. Contract!Next
  BY <1>3, <1>4 DEF Contract!Next, Contract!Open
<1>6. QED
  BY <1>5 DEF ContractStep
(* A served prompt's scope opens; a prompt starts a call in a scope that   *)
(* has not closed.                                                         *)
LEMMA OpenScopeContract ==
  ASSUME TypeInv, NEW s \in Scopes, OpenScope(s)
  PROVE  ContractStep
<1>1. UNCHANGED <<home, state, reply>>
  BY DEF OpenScope, birthVars, callVars
<1>2. Due' = Due
  BY <1>1, DueSame
<1>3. Live' = Live \cup {s}
  BY DEF OpenScope, Live, TypeInv, TypeOK
<1>4. Contract!OpenScope(s)
  BY <1>1, <1>2, <1>3 DEF Contract!OpenScope, Live, Due, Unreplied
<1>5. QED
  BY <1>4 DEF ContractStep, Contract!Next

LEMMA StartContract ==
  ASSUME TypeInv, AtHome, NEW t \in ToolCalls, StartCall(t)
  PROVE  ContractStep
<1>1. started + 1 \in Calls /\ state[started + 1] = "none"
  BY BoundsAssumption DEF StartCall, TypeInv, TypeOK, KnownCalls
<1>2. PICK d \in Calls : d = started + 1 /\ state[d] = "none"
  BY <1>1
<1>3. PICK s \in Scopes : s = local[t].scope
  BY DEF TypeInv, TypeOK, Locals
<1>4. /\ home' = [home EXCEPT ![d] = s] /\ state' = [state EXCEPT ![d] = "running"]
      /\ phase[s] # "closed" /\ pc[t] = "admitted"
      /\ UNCHANGED <<phase, reply>>
  BY <1>2, <1>3 DEF StartCall, helperVars
<1>5. phase[s] = "open"
  BY <1>3, <1>4 DEF AtHome, TypeInv, TypeOK
<1>6. Due' = Due /\ Live' = Live /\ s \in Live
  BY <1>4, <1>5, DueSame DEF Live
<1>7. Contract!Start(d, s)
  BY <1>2, <1>4, <1>6 DEF Contract!Start, Live, Due, Unreplied
<1>8. QED
  BY <1>7 DEF ContractStep, Contract!Next

(* Scopes close: the calls they track and that are open are those the      *)
(* contract ends.                                                          *)
LEMMA CloseContract ==
  ASSUME CallInv, AtHome, Questions', NEW ss \in SUBSET Scopes, CloseScopes(ss)
  PROVE  ContractStep
<1>0. TypeInv /\ Questions /\ OpenCallsTracked
  BY DEF CallInv, Inv
<1> DEFINE tr == UNION {tracked[s] : s \in ss}
           cs == tr \cap OpenCalls
           ending == {c \in Calls : home[c] \in ss /\ state[c] \in OpenStates}
<1>1. /\ phase' = [s \in Scopes |-> IF s \in ss THEN "closed" ELSE phase[s]]
      /\ Finish(cs, "cancelled") /\ \E sent \in BOOLEAN : Refuse(cs, sent)
      /\ UNCHANGED home
  BY DEF CloseScopes, Cancel, birthVars
<1>2. cs = ending
  <2>1. ASSUME NEW c \in cs PROVE c \in ending
    <3>1. c \in Calls /\ state[c] \in OpenStates
      BY <2>1 DEF OpenCalls
    <3>2. PICK s \in ss : c \in tracked[s]
      BY <2>1
    <3>3. home[c] = s
      BY <3>2 DEF AtHome
    <3>4. QED
      BY <3>1, <3>2, <3>3
  <2>2. ASSUME NEW c \in ending PROVE c \in cs
    <3>1. c \in OpenCalls /\ home[c] \in ss
      BY <2>2 DEF OpenCalls
    <3>2. c \in tracked[home[c]]
      BY <1>0, <2>2, <3>1 DEF OpenCallsTracked
    <3>3. QED
      BY <3>1, <3>2
  <2>3. QED
    BY <2>1, <2>2
<1>3. cs \in SUBSET OpenCalls /\ "cancelled" \in FinalStates /\ "cancelled" # "completed"
  OBVIOUS
<1> HIDE DEF tr, cs
<1>4. Due' = [c \in Calls |-> IF c \in cs THEN {} ELSE Due[c]]
  BY <1>0, <1>1, <1>3, EndedDue
<1>5. state' = [c \in Calls |-> IF c \in cs THEN "cancelled" ELSE state[c]]
  BY <1>1 DEF Finish
<1>6. Live' = Live \ ss
  BY <1>1 DEF Live
<1>7. Contract!CloseScopes(ss)
  BY <1>1, <1>2, <1>4, <1>5, <1>6
     DEF Contract!CloseScopes, Contract!Open, Live, Due, Unreplied
<1>8. QED
  BY <1>7 DEF ContractStep, Contract!Next

(* A question is asked of an open call.                                    *)
LEMMA AskContract ==
  ASSUME TypeInv, NEW c \in Calls, ReadQuery(c)
  PROVE  ContractStep
<1>1. UNCHANGED <<phase, home, state>>
  BY DEF ReadQuery, helperVars, birthVars
<1>2. /\ reply[c] \in Seq(ReplyStates) /\ DOMAIN reply[c] = 1..Len(reply[c])
      /\ Len(reply[c]) \in Nat
  BY OpenQuestionsAre DEF TypeInv
<1>3. PICK r \in {"open", "refused", "failed"} :
        /\ reply' = [reply EXCEPT ![c] = Append(@, r)]
        /\ r = "open" <=> c \in OpenCalls
  BY DEF ReadQuery
<1>4. reply'[c] = Append(reply[c], r) /\ \A d \in Calls \ {c} : reply'[d] = reply[d]
  BY <1>3 DEF TypeInv, TypeOK
<1>5. /\ DOMAIN reply'[c] = 1..(Len(reply[c]) + 1)
      /\ reply'[c][Len(reply[c]) + 1] = r
      /\ \A i \in 1..Len(reply[c]) : reply'[c][i] = reply[c][i]
  BY <1>2, <1>4 DEF ReplyStates
<1>6. \A d \in Calls \ {c} : Unreplied(d)' = Unreplied(d)
  BY <1>4 DEF Unreplied
<1>7. CASE r # "open"
  <2>1. Unreplied(c)' = Unreplied(c)
    BY <1>2, <1>5, <1>7 DEF Unreplied
  <2>2. QED
    BY <1>1, <1>6, <2>1, StillContract
<1>8. CASE r = "open"
  <2>0. PICK q : q = Len(reply[c]) + 1
    OBVIOUS
  <2>1. Unreplied(c)' = Unreplied(c) \cup {q} /\ q \notin Unreplied(c)
    BY <1>2, <1>5, <1>8, <2>0 DEF Unreplied
  <2>2. Due' = [Due EXCEPT ![c] = Due[c] \cup {q}] /\ q \notin Due[c]
    BY <1>6, <2>1, DueOf DEF Due
  <2>3. q \in AskedQuestions
    <3>1. MaxQuestions[c] \in Nat /\ Len(reply[c]) < MaxQuestions[c]
      BY BoundsAssumption DEF ReadQuery
    <3>2. q \in 1..MaxQuestions[c]
      BY <1>2, <2>0, <3>1
    <3>3. QED
      BY <3>2 DEF AskedQuestions
  <2>4. UNCHANGED Live
    BY <1>1 DEF Live
  <2>5. Contract!Ask(c, q)
    BY <1>1, <1>3, <1>8, <2>2, <2>4
       DEF Contract!Ask, Contract!Open, OpenCalls, Live, Due, Unreplied
  <2>6. \E p \in AskedQuestions : Contract!Ask(c, p)
    BY <2>3, <2>5
  <2>7. Contract!Next
    BY <2>6 DEF Contract!Next, AskedQuestions
  <2>8. QED
    BY <2>7 DEF ContractStep
<1>9. QED
  BY <1>7, <1>8

(* It is shown once it has been taken in.                                  *)
LEMMA TakenInContract ==
  ASSUME TypeInv, NEW c \in Calls, TakenIn(c)
  PROVE  ContractStep
<1>1. UNCHANGED <<phase, home, reply>>
  BY DEF TakenIn, helperVars, birthVars
<1>2. \A d \in Calls : Unreplied(d)' = Unreplied(d)
  BY <1>1 DEF Unreplied
<1>3. CASE UNCHANGED state
  BY <1>1, <1>2, <1>3, StillContract
<1>4. CASE c \in OpenCalls /\ SetState(c, "input_required")
  BY <1>1, <1>2, <1>4, TurnContract
<1>5. QED
  BY <1>3, <1>4 DEF TakenIn

(* The answer of a question nobody has replied to is the reply it was due. *)
LEMMA AnswerContract ==
  ASSUME TypeInv, Questions, Asked, NEW t \in ToolCalls, NEW s \in Scopes,
         NEW c \in Calls, NEW wait \in BOOLEAN, AnswerAgent(t, s, c, wait)
  PROVE  ContractStep
<1>1. UNCHANGED <<phase, home>>
  BY DEF AnswerAgent, helperVars, birthVars
<1>2. CASE UNCHANGED <<state, reply>>
  BY <1>1, <1>2, StillContract DEF Unreplied
<1>3. CASE ~UNCHANGED <<state, reply>>
  <2>1. PICK q : q = Head(queue[c])
    OBVIOUS
  <2>2. PICK st \in OpenStates :
          st = IF Tail(queue[c]) # <<>> THEN "input_required" ELSE "running"
    OBVIOUS
  <2>3. /\ state[c] = "input_required" /\ SetState(c, st)
        /\ reply' = [reply EXCEPT ![c][q] = IF @ = "open" THEN "sending" ELSE @]
    BY <1>3, <2>1, <2>2 DEF AnswerAgent
  <2>4. /\ queue[c] \in Seq(Nat) /\ DOMAIN queue[c] = 1..Len(queue[c]) /\ Len(queue[c]) \in Nat
        /\ reply[c] \in Seq(ReplyStates) /\ DOMAIN reply[c] = 1..Len(reply[c])
        /\ Len(reply[c]) \in Nat
    BY OpenQuestionsAre DEF TypeInv
  <2>5. q \in 1..Len(reply[c])
    <3>1. queue[c] # <<>>
      BY <2>3 DEF TypeInv, Shown
    <3>2. 1 \in DOMAIN queue[c] /\ q = queue[c][1]
      BY <2>1, <2>4, <3>1
    <3>3. QED
      BY <3>2 DEF Questions, QuestionsOf, Placed
  <2>6. c \in OpenCalls
    BY <2>3 DEF OpenCalls
  <2>7. reply[c] \in [1..Len(reply[c]) -> ReplyStates]
    BY <2>4
  <2>8. /\ reply'[c] = [reply[c] EXCEPT ![q] = IF @ = "open" THEN "sending" ELSE @]
        /\ \A d \in Calls \ {c} : reply'[d] = reply[d]
    BY <2>3 DEF TypeInv, TypeOK
  <2>9. \A d \in Calls \ {c} : Unreplied(d)' = Unreplied(d)
    BY <2>8 DEF Unreplied
  <2>10. Unreplied(c)' = Unreplied(c) \ {q}
    BY <2>4, <2>5, <2>7, <2>8 DEF Unreplied
  <2>11. CASE reply[c][q] # "open"
    <3>1. Unreplied(c)' = Unreplied(c)
      BY <2>10, <2>11 DEF Unreplied
    <3>2. QED
      BY <1>1, <2>3, <2>6, <2>9, <3>1, TurnContract
  <2>12. CASE reply[c][q] = "open"
    <3>1. q \in Due[c]
      BY <2>4, <2>5, <2>12 DEF Due, Unreplied
    <3>2. Due' = [Due EXCEPT ![c] = Due[c] \ {q}]
      BY <2>9, <2>10, DueOf DEF Due
    <3>3. state' = [state EXCEPT ![c] = st] /\ UNCHANGED Live
      BY <1>1, <2>3 DEF SetState, Live
    <3>4. q \in AskedQuestions
      BY <3>1 DEF Asked
    <3>5. Contract!Answer(c, q, st)
      BY <1>1, <2>3, <3>1, <3>2, <3>3
         DEF Contract!Answer, Contract!Open, Live, Due, Unreplied
    <3>6. \E p \in AskedQuestions, so \in Contract!Open : Contract!Answer(c, p, so)
      BY <3>4, <3>5 DEF Contract!Open
    <3>7. Contract!Next
      BY <3>6 DEF Contract!Next, AskedQuestions
    <3>8. QED
      BY <3>7 DEF ContractStep
  <2>13. QED
    BY <2>11, <2>12
<1>4. QED
  BY <1>2, <1>3

(* An answer that went out leaves the call alone; one that failed turns an *)
(* open call to the question again, which has been replied to.             *)
LEMMA AnsweredContract ==
  ASSUME TypeInv, Questions, Waits, NEW t \in ToolCalls, AnswerSent(t) \/ AnswerFails(t)
  PROVE  ContractStep
<1>1. UNCHANGED <<phase, home>>
  BY DEF AnswerSent, AnswerFails, helperVars, birthVars
<1>2. PICK c \in Calls :
        /\ pc[t] = "answering" /\ c \in local[t].on
        /\ \E r \in {"answered", "failed"} : reply' = [reply EXCEPT ![c][local[t].asking] = r]
        /\ \/ UNCHANGED state
           \/ c \in OpenCalls /\ SetState(c, "input_required")
  <2>1. CASE AnswerSent(t)
    <3>1. PICK c \in local[t].on :
            reply' = [reply EXCEPT ![c][local[t].asking] = "answered"]
      BY <2>1 DEF AnswerSent
    <3>2. c \in Calls /\ UNCHANGED state /\ pc[t] = "answering"
      BY <2>1, <3>1 DEF AnswerSent, callVars, TypeInv, TypeOK, Locals
    <3>3. QED
      BY <3>1, <3>2
  <2>2. CASE AnswerFails(t)
    <3>1. PICK c \in local[t].on :
            /\ reply' = [reply EXCEPT ![c][local[t].asking] = "failed"]
            /\ \/ UNCHANGED state
               \/ c \in OpenCalls /\ SetState(c, "input_required")
      BY <2>2 DEF AnswerFails
    <3>2. c \in Calls /\ pc[t] = "answering"
      BY <2>2, <3>1 DEF AnswerFails, TypeInv, TypeOK, Locals
    <3>3. QED
      BY <3>1, <3>2
  <2>3. QED
    BY <2>1, <2>2
<1>3. Away(t, c)
  BY <1>2 DEF Questions, QuestionsOf, Answered, Answers
<1>4. PICK a : a = local[t].asking
  OBVIOUS
<1>5. a \in 1..Len(reply[c]) /\ reply[c][a] # "open"
  BY <1>3, <1>4 DEF Away
<1>6. PICK r \in ReplyStates \ {"open"} : reply' = [reply EXCEPT ![c][a] = r]
  BY <1>2, <1>4 DEF ReplyStates
<1>7. Unreplied(c)' = Unreplied(c) /\ \A d \in Calls \ {c} : reply'[d] = reply[d]
  BY <1>5, <1>6, ReplyMarked
<1>8. \A d \in Calls : Unreplied(d)' = Unreplied(d)
  BY <1>7 DEF Unreplied
<1>9. CASE UNCHANGED state
  BY <1>1, <1>8, <1>9, StillContract
<1>10. CASE c \in OpenCalls /\ SetState(c, "input_required")
  BY <1>1, <1>8, <1>10, TurnContract
<1>11. QED
  BY <1>2, <1>9, <1>10

(* Every step of a tool call, and of a reader, is a step of the contract   *)
(* or leaves what the contract sees alone.                                 *)
LEMMA ToolContract ==
  ASSUME CallInv, AtHome, Asked, Questions', NEW t \in ToolCalls, ToolStep(t)
  PROVE  ContractStep
<1>0. Inv /\ TypeInv /\ Questions /\ Waits
  BY DEF CallInv, Inv
<1>1. ASSUME UNCHANGED <<phase, home, state, reply>> PROVE ContractStep
  BY <1>1, StillContract DEF Unreplied
<1>2. CASE \E s \in Scopes, wait \in BOOLEAN : PromptAgent(t, s, wait)
  BY <1>1, <1>2 DEF PromptAgent, helperVars, callVars, birthVars
<1>3. CASE \E s \in Scopes : \E cs \in (SUBSET Calls) \ {{}} : WaitAgent(t, s, cs)
  BY <1>1, <1>3 DEF WaitAgent, helperVars, callVars, birthVars
<1>4. CASE \E s \in Scopes : \E c \in Calls, wait \in BOOLEAN : AnswerAgent(t, s, c, wait)
  BY <1>0, <1>4, AnswerContract
<1>5. CASE \E s \in Scopes : \E c \in Calls : CancelAgent(t, s, c)
  <2>1. PICK s \in Scopes, c \in Calls : CancelAgent(t, s, c)
    BY <1>5
  <2>2. UNCHANGED <<phase, home>>
    BY <2>1 DEF CancelAgent, helperVars, birthVars
  <2>3. CASE UNCHANGED <<callVars, reply>>
    BY <1>1, <2>2, <2>3 DEF callVars
  <2>4. CASE Cancel({c})
    BY <1>0, <2>2, <2>4, EndContract DEF Cancel
  <2>5. QED
    BY <2>1, <2>3, <2>4 DEF CancelAgent
<1>6. CASE ResolveFails(t) \/ GiveUp(t) \/ WaitTurn(t) \/ Collect(t) \/ Abort(t) \/ Deadline(t)
  BY <1>1, <1>6 DEF ResolveFails, GiveUp, WaitTurn, Collect, Abort, Deadline,
                    helperVars, callVars, birthVars
<1>7. CASE Reserve(t)
  BY <1>1, <1>7 DEF Reserve, helperVars, callVars, birthVars
<1>8. CASE StartCall(t)
  BY <1>0, <1>8, StartContract
<1>9. CASE UntilReady(t)
  <2>1. UNCHANGED <<phase, home>>
    BY <1>9 DEF UntilReady, helperVars, birthVars
  <2>2. CASE UNCHANGED <<callVars, reply>>
    BY <1>1, <2>1, <2>2 DEF callVars
  <2>3. CASE ~UNCHANGED <<callVars, reply>>
    <3>1. PICK c \in local[t].on : Cancel({c})
      BY <1>9, <2>3 DEF UntilReady
    <3>2. c \in Calls
      BY <1>0, <3>1 DEF TypeInv, TypeOK, Locals
    <3>3. QED
      BY <1>0, <2>1, <3>1, <3>2, EndContract DEF Cancel
  <2>4. QED
    BY <2>2, <2>3
<1>10. CASE AnswerSent(t) \/ AnswerFails(t)
  BY <1>0, <1>10, AnsweredContract
<1>11. QED
  BY <1>2, <1>3, <1>4, <1>5, <1>6, <1>7, <1>8, <1>9, <1>10 DEF ToolStep

LEMMA ReaderContract ==
  ASSUME CallInv, Questions', NEW c \in Calls, ReaderStep(c)
  PROVE  ContractStep
<1>0. TypeInv /\ Questions
  BY DEF CallInv, Inv
<1>1. CASE (\E attached \in BOOLEAN : ReadResponse(c, attached)) \/ FilesSaved(c) \/ StreamEnds(c)
  <2>1. UNCHANGED <<phase, home, state, reply>>
    BY <1>1 DEF ReadResponse, FilesSaved, StreamEnds, helperVars, callVars, birthVars
  <2>2. QED
    BY <2>1, StillContract DEF Unreplied
<1>2. CASE ReadQuery(c)
  BY <1>0, <1>2, AskContract
<1>3. CASE TakenIn(c)
  BY <1>0, <1>3, TakenInContract
<1>4. CASE Complete(c)
  BY <1>0, <1>4, CompleteContract
<1>5. CASE \E end \in {"failed", "expired"} : ReaderFails(c, end)
  <2>1. PICK end \in {"failed", "expired"} : ReaderFails(c, end)
    BY <1>5
  <2>2. UNCHANGED <<phase, home>>
    BY <2>1 DEF ReaderFails, helperVars, birthVars
  <2>3. /\ Finish({c} \cap OpenCalls, end)
        /\ \E sent \in BOOLEAN : Refuse({c} \cap OpenCalls, sent)
    BY <2>1 DEF ReaderFails
  <2>4. QED
    BY <1>0, <2>2, <2>3, EndContract
<1>6. QED
  BY <1>1, <1>2, <1>3, <1>4, <1>5 DEF ReaderStep

(* Every step of the helper is a step of the contract, or none.            *)
LEMMA StepContract ==
  ASSUME CallInv, AtHome, Asked, [Next]_vars
  PROVE  ContractStep
<1>0. TypeInv /\ Questions'
  BY CallInvNext DEF CallInv, Inv
<1>1. CASE \E s \in Scopes : OpenScope(s)
  BY <1>0, <1>1, OpenScopeContract
<1>2. CASE (\E s \in Scopes : EndPrompt(s)) \/ Close
  <2>1. PICK ss \in SUBSET Scopes : CloseScopes(ss)
    <3>1. CASE \E s \in Scopes : EndPrompt(s)
      <4>1. PICK s \in Scopes : CloseScopes({s})
        BY <3>1 DEF EndPrompt
      <4>2. {s} \in SUBSET Scopes
        OBVIOUS
      <4>3. QED
        BY <4>1, <4>2
    <3>2. CASE Close
      <4>1. CloseScopes(Live)
        BY <3>2 DEF Close, Live
      <4>2. Live \in SUBSET Scopes
        BY DEF Live
      <4>3. QED
        BY <4>1, <4>2
    <3>3. QED
      BY <1>2, <3>1, <3>2
  <2>2. QED
    BY <1>0, <2>1, CloseContract
<1>3. CASE \E t \in ToolCalls : ToolStep(t)
  BY <1>0, <1>3, ToolContract
<1>4. CASE \E c \in Calls : ReaderStep(c)
  BY <1>0, <1>4, ReaderContract
<1>5. CASE UNCHANGED vars
  <2>1. UNCHANGED <<phase, home, state, reply>>
    BY <1>5 DEF vars, helperVars, birthVars, callVars
  <2>2. QED
    BY <2>1, StillContract DEF Unreplied
<1>6. QED
  BY <1>1, <1>2, <1>3, <1>4, <1>5 DEF Next

(* Whatever is a step of the contract adds no questions but the ones it    *)
(* knows.                                                                  *)
LEMMA AskedKept ==
  ASSUME Asked, ContractStep
  PROVE  Asked'
<1>1. CASE UNCHANGED <<Live, home, state, Due>>
  BY <1>1 DEF Asked, AskedQuestions
<1>2. CASE Contract!Next
  <2>1. \A c \in Calls : Due'[c] \subseteq Due[c] \cup AskedQuestions
    <3> DEFINE Grows == \A c \in Calls : Due'[c] \subseteq Due[c] \cup AskedQuestions
    <3>0. Due = [c \in Calls |-> Due[c]]
      BY DEF Due
    <3>1. ASSUME UNCHANGED Due PROVE Grows
      BY <3>1
    <3>2. ASSUME NEW c \in Calls, NEW qs, qs \subseteq Due[c] \cup AskedQuestions,
                 Due' = [Due EXCEPT ![c] = qs]
          PROVE  Grows
      BY <3>0, <3>2
    <3>3. CASE \E s \in Scopes : Contract!OpenScope(s)
      BY <3>1, <3>3 DEF Contract!OpenScope, Due, Unreplied
    <3>4. CASE \E ss \in SUBSET Scopes : Contract!CloseScopes(ss)
      <4>1. PICK cs : Due' = [c \in Calls |-> IF c \in cs THEN {} ELSE Due[c]]
        BY <3>4 DEF Contract!CloseScopes, Due, Unreplied
      <4>2. QED
        BY <4>1
    <3>5. ASSUME NEW c \in Calls, \E s \in Scopes : Contract!Start(c, s) PROVE Grows
      BY <3>1, <3>5 DEF Contract!Start, Due, Unreplied
    <3>6. ASSUME NEW c \in Calls, NEW q \in AskedQuestions, Contract!Ask(c, q) PROVE Grows
      <4>1. Due' = [Due EXCEPT ![c] = @ \cup {q}]
        BY <3>6 DEF Contract!Ask, Due, Unreplied
      <4>2. Due' = [Due EXCEPT ![c] = Due[c] \cup {q}]
        BY <4>1, <3>0
      <4>3. QED
        BY <3>2, <3>6, <4>2
    <3>7. ASSUME NEW c \in Calls, NEW q, NEW st, Contract!Answer(c, q, st) PROVE Grows
      <4>1. Due' = [Due EXCEPT ![c] = @ \ {q}]
        BY <3>7 DEF Contract!Answer, Due, Unreplied
      <4>2. Due' = [Due EXCEPT ![c] = Due[c] \ {q}]
        BY <4>1, <3>0
      <4>3. QED
        BY <3>2, <4>2
    <3>8. ASSUME NEW c \in Calls, NEW st, Contract!Turn(c, st) \/ Contract!Complete(c)
          PROVE  Grows
      BY <3>1, <3>8 DEF Contract!Turn, Contract!Complete, Due, Unreplied
    <3>9. ASSUME NEW c \in Calls, NEW st, Contract!End(c, st) PROVE Grows
      <4>1. Due' = [Due EXCEPT ![c] = {}]
        BY <3>9 DEF Contract!End, Due, Unreplied
      <4>2. QED
        BY <3>2, <4>1
    <3>10. QED
      <4>1. CASE \E c \in Calls : \E q \in AskedQuestions :
                   Contract!Ask(c, q) \/ \E st \in Contract!Open : Contract!Answer(c, q, st)
        BY <3>6, <3>7, <4>1
      <4>2. CASE ~\E c \in Calls : \E q \in AskedQuestions :
                    Contract!Ask(c, q) \/ \E st \in Contract!Open : Contract!Answer(c, q, st)
        BY <1>2, <3>3, <3>4, <3>5, <3>8, <3>9, <4>2 DEF Contract!Next, AskedQuestions
      <4>3. QED
        BY <4>1, <4>2
  <2>2. QED
    BY <2>1 DEF Asked, AskedQuestions
<1>3. QED
  BY <1>1, <1>2 DEF ContractStep

(* The helper implements the contract: whatever it does, a call is open    *)
(* until its one final state, no call outlives its scope, and the questions*)
(* due are those nobody has replied to.                                    *)
THEOREM ImplementsContract == Spec => KeepsContract
<1>1. Init => AtHome /\ Asked /\ Contract!Init
  <2> SUFFICES ASSUME Init PROVE AtHome /\ Asked /\ Contract!Init
    OBVIOUS
  <2>1. AtHome
    BY DEF Init, AtHome
  <2>2. \A c \in Calls : Unreplied(c) = {}
    BY DEF Init, Unreplied
  <2>3. Asked
    BY <2>2 DEF Asked, Due
  <2>4. Due = [c \in Calls |-> {}]
    BY <2>2 DEF Due
  <2>5. /\ Live \in SUBSET Scopes
        /\ home \in [Calls -> Scopes]
        /\ state = [c \in Calls |-> "none"]
    BY ScopesAssumption DEF Init, Live
  <2>6. Contract!Init
    BY <2>4, <2>5 DEF Contract!Init, Live, Due, Unreplied
  <2>7. QED
    BY <2>1, <2>3, <2>6
<1>2. CallInv /\ AtHome /\ Asked /\ [Next]_vars => AtHome' /\ Asked' /\ ContractStep
  BY AtHomeKept, StepContract, AskedKept
<1>3. ContractStep => [Contract!Next]_(Contract!vars)
  BY DEF ContractStep, Contract!vars, Live, Due, Unreplied
<1>4. Spec => [](AtHome /\ Asked)
  BY <1>1, <1>2, CallInvariant, PTL DEF Spec
<1>5. Spec => Contract!Init /\ [][Contract!Next]_(Contract!vars)
  BY <1>1, <1>2, <1>3, <1>4, CallInvariant, PTL DEF Spec
<1>6. QED
  BY <1>5 DEF KeepsContract, Contract!Spec
=============================================================================
