------------------------------ MODULE SelfIdProofs ------------------------------
(***************************************************************************)
(* The identity a client uses is of the session it has heard of (SelfId.tla),*)
(* for any sources, prompts, reconnects and lookups in flight.  An entry of*)
(* the memo and the lookup that was started for it know each other; so a   *)
(* lookup that a reconnect has cut off settles into nothing.               *)
(***************************************************************************)
EXTENDS SelfId, WellFoundedInduction, TLAPS

(* The memo and the lookups agree: an entry's lookup in flight is the one  *)
(* that was started for it, of all that are in flight.                     *)
InFlightIsItsOwn ==
  \A s \in Sources : \A l \in Slots :
    memo[s].inflight = l
      <=> lookups[l] # None /\ lookups[l].source = s /\ lookups[l].entry = heard

\* An entry that has an ID has neither failed nor a lookup in flight.
KnownIsAtRest ==
  \A s \in Sources :
    memo[s].id # None => memo[s].failure = "no" /\ memo[s].inflight = None

\* No lookup is of a session the listener is still to hear of.
NoneIsAhead == \A l \in Slots : lookups[l] # None => lookups[l].entry <= heard

MemoTypeOK ==
  /\ session \in Sessions /\ heard \in 0..session
  /\ memo \in [Sources -> Entry]
  /\ lookups \in [Slots -> Lookup \cup {None}]

MemoInv ==
  /\ MemoTypeOK
  /\ InFlightIsItsOwn /\ KnownIsAtRest /\ NoneIsAhead
  /\ MemoIsOfThisSession /\ SingleFlight

\* What None is not.
LEMMA NoneIsNothing ==
  /\ None \notin Slots /\ None \notin Sessions /\ None \notin Lookup
  /\ Sessions \subseteq Nat /\ Slots \subseteq Nat /\ MaxReconnects \in Nat
<1>1. /\ None \notin Slots /\ None \notin Sessions /\ None \notin Lookup
      /\ Slots \subseteq Nat /\ MaxReconnects \in Nat
  BY SelfIdAssumption
<1> QED
  BY <1>1 DEF Sessions

\* startLookup takes a slot that is free.
LEMMA FirstFreeIsFree ==
  ASSUME FreeSlots # {}
  PROVE  FirstFree \in Slots /\ lookups[FirstFree] = None
<1> DEFINE R == {ss \in Nat \X Nat : ss[1] < ss[2]}
<1>1. IsWellFoundedOn(R, Nat)
  BY NatLessThanWellFounded, Zenon DEF OpToRel
<1>2. FreeSlots \subseteq Nat
  BY NoneIsNothing DEF FreeSlots
<1>3. PICK f \in FreeSlots : \A k \in FreeSlots : ~(<<k, f>> \in R)
  BY <1>1, <1>2, WFMin
<1>4. ASSUME NEW k \in FreeSlots PROVE f <= k
  <2>1. <<k, f>> \notin R /\ f \in Nat /\ k \in Nat
    BY <1>2, <1>3
  <2> QED
    BY <2>1
<1>5. FirstFree \in FreeSlots
  BY <1>3, <1>4 DEF FirstFree
<1> QED
  BY <1>5 DEF FreeSlots

\* A source that has no answer and no lookup gets one.
LEMMA StartedKeepsMemo ==
  ASSUME MemoInv, NEW s \in Sources, NEW l \in Slots, lookups[l] = None,
         memo[s].inflight = None, UNCHANGED <<session, heard>>,
         NEW e \in Entry, e.id = None, e.inflight = l,
         lookups' = [lookups EXCEPT ![l] = [source |-> s, entry |-> heard, session |-> session]],
         memo' = [memo EXCEPT ![s] = e]
  PROVE  MemoInv'
<1> DEFINE asked == [source |-> s, entry |-> heard, session |-> session]
<1>1. /\ asked \in Lookup /\ asked # None
      /\ asked.source = s /\ asked.entry = heard
  BY NoneIsNothing DEF MemoInv, MemoTypeOK, Lookup, Sessions
<1>2. /\ lookups[l] = None /\ lookups'[l] = asked
      /\ \A k \in Slots \ {l} : lookups'[k] = lookups[k]
      /\ memo'[s] = e
      /\ \A r \in Sources \ {s} : memo'[r] = memo[r]
  BY DEF MemoInv, MemoTypeOK
<1>3. MemoTypeOK'
  BY <1>1 DEF MemoInv, MemoTypeOK
<1> HIDE DEF asked
<1>4. \A k \in Slots : lookups[k] # None /\ lookups[k].source = s => lookups[k].entry # heard
  BY NoneIsNothing DEF MemoInv, InFlightIsItsOwn
<1>5. InFlightIsItsOwn'
  <2> SUFFICES ASSUME NEW r \in Sources, NEW k \in Slots
               PROVE  memo'[r].inflight = k
                        <=> /\ lookups'[k] # None /\ lookups'[k].source = r
                            /\ lookups'[k].entry = heard
    BY DEF InFlightIsItsOwn
  <2>1. memo[r].inflight = k
          <=> lookups[k] # None /\ lookups[k].source = r /\ lookups[k].entry = heard
    BY DEF MemoInv, InFlightIsItsOwn
  <2>2. CASE r = s /\ k = l
    BY <1>1, <1>2, <2>2
  <2>3. CASE r = s /\ k # l
    BY <1>2, <1>4, <2>3
  <2>4. CASE r # s /\ k = l
    BY <1>1, <1>2, <2>1, <2>4
  <2>5. CASE r # s /\ k # l
    BY <1>2, <2>1, <2>5
  <2> QED
    BY <2>2, <2>3, <2>4, <2>5
<1>6. KnownIsAtRest' /\ MemoIsOfThisSession'
  BY <1>2 DEF MemoInv, KnownIsAtRest, MemoIsOfThisSession
<1>7. NoneIsAhead'
  <2>1. heard <= heard
    BY NoneIsNothing DEF MemoInv, MemoTypeOK, Sessions
  <2> QED
    BY <1>1, <1>2, <2>1 DEF MemoInv, NoneIsAhead
<1>8. SingleFlight'
  <2> SUFFICES ASSUME NEW j \in Slots, NEW k \in Slots,
                      j # k, lookups'[j] # None, lookups'[k] # None,
                      lookups'[j].source = lookups'[k].source,
                      lookups'[j].entry = lookups'[k].entry
               PROVE  FALSE
    BY DEF SingleFlight
  <2>1. CASE j = l
    BY <1>1, <1>2, <1>4, <2>1
  <2>2. CASE k = l
    BY <1>1, <1>2, <1>4, <2>2
  <2>3. CASE j # l /\ k # l
    BY <1>2, <2>3 DEF MemoInv, SingleFlight
  <2> QED
    BY <2>1, <2>2, <2>3
<1> QED
  BY <1>3, <1>5, <1>6, <1>7, <1>8 DEF MemoInv

LEMMA StartLookupKeepsMemo ==
  ASSUME MemoInv, NEW s \in Sources, memo[s].id = None, StartLookup(s),
         UNCHANGED <<session, heard>>
  PROVE  MemoInv' /\ \A r \in Sources : memo'[r].id = memo[r].id
<1>1. CASE UNCHANGED <<memo, lookups>>
  BY <1>1 DEF MemoInv, MemoTypeOK, InFlightIsItsOwn, KnownIsAtRest, NoneIsAhead,
              MemoIsOfThisSession, SingleFlight
<1>2. CASE /\ memo[s].inflight = None /\ FreeSlots # {}
           /\ lookups' = [lookups EXCEPT
                ![FirstFree] = [source |-> s, entry |-> heard, session |-> session]]
           /\ memo' = [memo EXCEPT ![s].inflight = FirstFree]
  <2> DEFINE e == [memo[s] EXCEPT !.inflight = FirstFree]
  <2>1. FirstFree \in Slots /\ lookups[FirstFree] = None
    BY <1>2, FirstFreeIsFree
  <2>2. memo \in [Sources -> Entry] /\ memo[s] \in Entry
    BY DEF MemoInv, MemoTypeOK
  <2>3. e \in Entry /\ e.id = None /\ e.inflight = FirstFree
    BY <2>1, <2>2 DEF Entry
  <2>4. memo' = [memo EXCEPT ![s] = e]
    BY <1>2
  <2> HIDE DEF e
  <2>5. MemoInv'
    BY <1>2, <2>1, <2>3, <2>4, StartedKeepsMemo
  <2>6. \A r \in Sources : memo'[r].id = memo[r].id
    BY <2>2, <2>3, <2>4
  <2> QED
    BY <2>5, <2>6
<1> QED
  BY <1>1, <1>2 DEF StartLookup

(* A lookup that settles keeps the memo sound, and no failure replaces an  *)
(* ID.                                                                     *)
LEMMA SettleKeepsMemo ==
  ASSUME MemoInv, NEW l \in Slots, NEW outcome \in Sessions \cup {None},
         outcome # None => outcome >= heard, Settle(l, outcome)
  PROVE  MemoInv' /\ KnownUntilForgotten
<1> DEFINE s == lookups[l].source
<1>1. /\ lookups[l] # None /\ lookups[l] \in Lookup /\ s \in Sources
      /\ lookups \in [Slots -> Lookup \cup {None}] /\ memo \in [Sources -> Entry]
      /\ UNCHANGED <<session, heard>>
  BY NoneIsNothing DEF MemoInv, MemoTypeOK, Settle, Lookup
<1>2. lookups' = [lookups EXCEPT ![l] = None]
  BY DEF Settle
<1>3. memo' = IF lookups[l].entry = heard
              THEN [memo EXCEPT ![s] = Settled(outcome)] ELSE memo
  BY DEF Settle
<1>4. /\ Settled(outcome) \in Entry /\ Settled(outcome).id = outcome
      /\ Settled(outcome).inflight = None
      /\ outcome # None => Settled(outcome).failure = "no"
  BY DEF Settled, Entry
<1> HIDE DEF s
<1>5. /\ lookups'[l] = None
      /\ \A k \in Slots \ {l} : lookups'[k] = lookups[k]
  BY <1>1, <1>2
<1>6. \A r \in Sources : memo[r].inflight = l <=> r = s /\ lookups[l].entry = heard
  BY <1>1 DEF MemoInv, InFlightIsItsOwn, s
<1>7. \/ /\ lookups[l].entry = heard /\ memo'[s] = Settled(outcome)
         /\ memo[s].inflight = l
         /\ \A r \in Sources \ {s} : memo'[r] = memo[r]
      \/ lookups[l].entry # heard /\ memo' = memo
  BY <1>1, <1>3, <1>6
<1>8. MemoTypeOK'
  BY <1>1, <1>2, <1>3, <1>4 DEF MemoInv, MemoTypeOK
<1>9. InFlightIsItsOwn'
  <2> SUFFICES ASSUME NEW r \in Sources, NEW k \in Slots
               PROVE  memo'[r].inflight = k
                        <=> /\ lookups'[k] # None /\ lookups'[k].source = r
                            /\ lookups'[k].entry = heard
    BY <1>1 DEF InFlightIsItsOwn
  <2>1. memo[r].inflight = k
          <=> lookups[k] # None /\ lookups[k].source = r /\ lookups[k].entry = heard
    BY DEF MemoInv, InFlightIsItsOwn
  <2>2. k # None
    BY NoneIsNothing
  <2> QED
    BY <1>4, <1>5, <1>6, <1>7, <2>1, <2>2
<1>10. KnownIsAtRest' /\ MemoIsOfThisSession'
  BY <1>1, <1>4, <1>7 DEF MemoInv, KnownIsAtRest, MemoIsOfThisSession
<1>11. NoneIsAhead' /\ SingleFlight'
  BY <1>1, <1>5 DEF MemoInv, NoneIsAhead, SingleFlight
<1>12. KnownUntilForgotten
  BY <1>1, <1>4, <1>7, NoneIsNothing DEF MemoInv, KnownIsAtRest, KnownUntilForgotten
<1> QED
  BY <1>8, <1>9, <1>10, <1>11, <1>12 DEF MemoInv

LEMMA HearKeepsMemo ==
  ASSUME MemoInv, Hear
  PROVE  MemoInv' /\ KnownUntilForgotten
<1>1. /\ session \in Nat /\ heard \in Nat /\ heard' = heard + 1 /\ heard' \in 0..session'
      /\ session' = session /\ lookups' = lookups
      /\ \A s \in Sources : memo'[s] = Empty
  BY NoneIsNothing DEF MemoInv, MemoTypeOK, Hear
<1>2. memo' \in [Sources -> Entry]
  <2>1. Empty \in Entry
    BY DEF Empty, Entry
  <2> QED
    BY <2>1 DEF Hear
<1>3. MemoTypeOK'
  BY <1>1, <1>2 DEF MemoInv, MemoTypeOK
<1>4. \A l \in Slots :
        lookups[l] # None => lookups[l].entry # heard' /\ lookups[l].entry <= heard'
  <2> SUFFICES ASSUME NEW l \in Slots, lookups[l] # None
               PROVE  lookups[l].entry # heard' /\ lookups[l].entry <= heard'
    OBVIOUS
  <2>1. lookups[l].entry \in Nat /\ lookups[l].entry <= heard
    BY NoneIsNothing DEF MemoInv, MemoTypeOK, NoneIsAhead, Lookup
  <2> QED
    BY <1>1, <2>1
<1>5. InFlightIsItsOwn'
  BY <1>1, <1>4, NoneIsNothing DEF InFlightIsItsOwn, Empty
<1>6. KnownIsAtRest' /\ MemoIsOfThisSession'
  BY <1>1 DEF KnownIsAtRest, MemoIsOfThisSession, Empty
<1>7. NoneIsAhead' /\ SingleFlight'
  <2>1. NoneIsAhead'
    BY <1>1, <1>4 DEF NoneIsAhead
  <2> QED
    BY <1>1, <2>1 DEF MemoInv, SingleFlight
<1>8. KnownUntilForgotten
  BY <1>1 DEF KnownUntilForgotten
<1> QED
  BY <1>3, <1>5, <1>6, <1>7, <1>8 DEF MemoInv

LEMMA ReconnectKeepsMemo ==
  ASSUME MemoInv, Reconnect
  PROVE  MemoInv' /\ KnownUntilForgotten
<1>1. session \in Nat /\ session' \in Sessions /\ heard \in 0..session'
  BY NoneIsNothing DEF MemoInv, MemoTypeOK, Reconnect, Sessions
<1> QED
  BY <1>1 DEF Reconnect, MemoInv, MemoTypeOK, InFlightIsItsOwn, KnownIsAtRest, NoneIsAhead,
              MemoIsOfThisSession, SingleFlight, KnownUntilForgotten

LEMMA SourceKeepsMemo ==
  ASSUME MemoInv, NEW s \in Sources, Kickoff(s) \/ Refresh(s) \/ Expire(s)
  PROVE  MemoInv' /\ KnownUntilForgotten
<1>1. CASE Kickoff(s)
  BY <1>1, StartLookupKeepsMemo DEF Kickoff, KnownUntilForgotten
<1>2. CASE Refresh(s)
  <2> DEFINE e == [Empty EXCEPT !.inflight = FirstFree]
  <2>1. FirstFree \in Slots /\ lookups[FirstFree] = None
    BY <1>2, FirstFreeIsFree DEF Refresh
  <2>2. e \in Entry /\ e.id = None /\ e.inflight = FirstFree /\ e.failure = "no"
    BY <2>1 DEF Empty, Entry
  <2>3. /\ memo[s].inflight = None /\ memo' = [memo EXCEPT ![s] = e]
        /\ lookups' = [lookups EXCEPT
             ![FirstFree] = [source |-> s, entry |-> heard, session |-> session]]
        /\ UNCHANGED <<session, heard>>
    BY <1>2 DEF Refresh
  <2> HIDE DEF e
  <2>4. MemoInv'
    BY <2>1, <2>2, <2>3, StartedKeepsMemo
  <2>5. KnownUntilForgotten
    BY <2>2, <2>3 DEF MemoInv, MemoTypeOK, KnownUntilForgotten
  <2> QED
    BY <2>4, <2>5
<1>3. CASE Expire(s)
  <2> DEFINE e == [memo[s] EXCEPT !.failure = "expired"]
  <2>1. memo \in [Sources -> Entry] /\ memo[s] \in Entry /\ memo[s].failure = "remembered"
    BY <1>3 DEF MemoInv, MemoTypeOK, Expire
  <2>2. e \in Entry /\ e.id = memo[s].id /\ e.inflight = memo[s].inflight
    BY <2>1 DEF Entry
  <2>3. /\ memo' = [memo EXCEPT ![s] = e] /\ UNCHANGED <<session, heard, lookups>>
    BY <1>3 DEF Expire
  <2> HIDE DEF e
  <2>4. /\ memo'[s] = e /\ memo[s].id = None
        /\ \A r \in Sources \ {s} : memo'[r] = memo[r]
    BY <2>1, <2>3 DEF MemoInv, KnownIsAtRest
  <2>5. MemoTypeOK'
    BY <2>2, <2>3 DEF MemoInv, MemoTypeOK
  <2>6. InFlightIsItsOwn' /\ KnownIsAtRest' /\ MemoIsOfThisSession' /\ KnownUntilForgotten
    BY <2>2, <2>3, <2>4
    DEF MemoInv, InFlightIsItsOwn, KnownIsAtRest, MemoIsOfThisSession, KnownUntilForgotten
  <2> QED
    BY <2>3, <2>5, <2>6 DEF MemoInv, NoneIsAhead, SingleFlight
<1> QED
  BY <1>1, <1>2, <1>3

(***************************************************************************)
(* The prompts.                                                            *)
(***************************************************************************)

PromptTypeOK ==
  /\ pc \in [Prompts -> {"new", "sizing", "held", "planning", "planned",
                         "published", "refused"}]
  /\ source \in [Prompts -> Sources]
  /\ plan \in [Prompts -> Sessions \cup {None}]

IdentityInv == MemoInv /\ PromptTypeOK

StepIsSound == KnownUntilForgotten /\ PlannedForThisSession

\* A prompt that moves elsewhere plans nothing.
LEMMA PromptMoves ==
  ASSUME PromptTypeOK, NEW p \in Prompts, UNCHANGED <<source, plan>>,
         NEW at \in {"refused", "sizing", "planning"}, pc' = [pc EXCEPT ![p] = at]
  PROVE  PromptTypeOK' /\ PlannedForThisSession
  BY DEF PromptTypeOK, PlannedForThisSession

\* resolveForRequest plans an identity of the memo, none, or awaits a lookup.
LEMMA ResolveIsSound ==
  ASSUME IdentityInv, NEW p \in Prompts, NEW at \in {"sizing", "planning"},
         ResolveForRequest(p, at)
  PROVE  IdentityInv' /\ StepIsSound
<1> DEFINE s == source[p]
<1>1. /\ s \in Sources /\ memo[s] \in Entry /\ UNCHANGED <<session, heard, source>>
      /\ memo[s].id \in Sessions \cup {None}
  BY DEF IdentityInv, MemoInv, MemoTypeOK, PromptTypeOK, ResolveForRequest, Entry
<1>2. memo[s].id # None => memo[s].id >= heard'
  BY <1>1 DEF IdentityInv, MemoInv, MemoIsOfThisSession
<1>3. memo[s].failure # "no" => memo[s].id = None
  BY <1>1 DEF IdentityInv, MemoInv, KnownIsAtRest
<1>4. After(at) \in {"held", "planned"}
  BY DEF After
<1>5. PromptTypeOK' /\ PlannedForThisSession
  <2>0. ASSUME NEW header \in Sessions \cup {None}, header # None => header >= heard',
               pc' = [pc EXCEPT ![p] = After(at)], plan' = [plan EXCEPT ![p] = header]
        PROVE  PromptTypeOK' /\ PlannedForThisSession
    <3>1. PICK next \in {"held", "planned"} : next = After(at)
      BY <1>4
    <3>2. pc' = [pc EXCEPT ![p] = next] /\ PromptTypeOK /\ UNCHANGED source
      BY <1>1, <2>0, <3>1 DEF IdentityInv
    <3>3. plan'[p] = header /\ (next = "planned" => plan' = [plan EXCEPT ![p] = header])
      BY <2>0 DEF IdentityInv, PromptTypeOK
    <3> QED
      BY <2>0, <3>2, <3>3 DEF PromptTypeOK, PlannedForThisSession
  <2>1. CASE memo[s].id # None /\ PlanWith(p, memo[s].id, at)
    BY <1>1, <1>2, <2>0, <2>1 DEF PlanWith
  <2>2. CASE PlanWith(p, None, at)
    BY <2>0, <2>2 DEF PlanWith
  <2>3. CASE pc' = [pc EXCEPT ![p] = "refused"] /\ plan' = plan
    BY <1>1, <2>3, PromptMoves DEF IdentityInv
  <2>4. CASE plan' = [plan EXCEPT ![p] = None] /\ pc' = [pc EXCEPT ![p] = After(at)]
    BY <2>0, <2>4
  <2>5. CASE pc' = [pc EXCEPT ![p] = at] /\ plan' = plan
    BY <1>1, <2>5, PromptMoves DEF IdentityInv
  <2> QED
    BY <2>1, <2>2, <2>3, <2>4, <2>5 DEF ResolveForRequest
<1>6. MemoInv' /\ KnownUntilForgotten
  <2>1. CASE UNCHANGED <<memo, lookups>>
    BY <1>1, <2>1
    DEF IdentityInv, MemoInv, MemoTypeOK, InFlightIsItsOwn, KnownIsAtRest, NoneIsAhead,
        MemoIsOfThisSession, SingleFlight, KnownUntilForgotten
  <2>2. CASE memo[s].id = None /\ StartLookup(s)
    BY <1>1, <2>2, StartLookupKeepsMemo DEF IdentityInv, KnownUntilForgotten
  <2> QED
    BY <1>3, <2>1, <2>2 DEF ResolveForRequest, PlanWith
<1> QED
  BY <1>5, <1>6 DEF IdentityInv, StepIsSound

\* A lookup that settles gives those that await it what the session is known by.
LEMMA SettleIsSound ==
  ASSUME IdentityInv, NEW l \in Slots, NEW outcome \in Sessions \cup {None},
         outcome # None => outcome >= heard, Settle(l, outcome)
  PROVE  IdentityInv' /\ StepIsSound
<1>1. MemoInv' /\ KnownUntilForgotten
  BY SettleKeepsMemo DEF IdentityInv
<1>2. PromptTypeOK'
  <2>1. \A p \in Prompts : pc'[p] \in {pc[p], "refused", "held", "planned"}
    BY DEF Settle, After
  <2>2. \A p \in Prompts : plan'[p] \in {plan[p], outcome}
    BY DEF Settle
  <2>3. pc' = [p \in Prompts |-> pc'[p]] /\ plan' = [p \in Prompts |-> plan'[p]]
    BY DEF Settle
  <2> QED
    BY <2>1, <2>2, <2>3 DEF Settle, IdentityInv, PromptTypeOK
<1>3. PlannedForThisSession
  <2>1. \A p \in Prompts : (pc'[p] = pc[p] /\ plan'[p] = plan[p]) \/ plan'[p] = outcome
    BY DEF Settle
  <2>2. heard' = heard
    BY DEF Settle
  <2> QED
    BY <2>1, <2>2 DEF PlannedForThisSession
<1> QED
  BY <1>1, <1>2, <1>3 DEF IdentityInv, StepIsSound

LEMMA NextIsSound ==
  ASSUME IdentityInv, [Next]_vars
  PROVE  IdentityInv' /\ StepIsSound
<1>1. ASSUME NEW s \in Sources, Kickoff(s) \/ Refresh(s) \/ Expire(s)
      PROVE  IdentityInv' /\ StepIsSound
  <2>1. UNCHANGED <<pc, source, plan>>
    BY <1>1 DEF Kickoff, Refresh, Expire
  <2> QED
    BY <1>1, <2>1, SourceKeepsMemo DEF IdentityInv, PromptTypeOK, StepIsSound, PlannedForThisSession
<1>2. ASSUME NEW l \in Slots, Answered(l) PROVE IdentityInv' /\ StepIsSound
  <2>1. session \in Sessions /\ session >= heard
    BY NoneIsNothing DEF IdentityInv, MemoInv, MemoTypeOK
  <2> QED
    BY <1>2, <2>1, SettleIsSound DEF Answered
<1>3. ASSUME NEW l \in Slots, Fails(l) PROVE IdentityInv' /\ StepIsSound
  BY <1>3, SettleIsSound DEF Fails
<1>4. CASE Reconnect \/ Hear
  <2>1. UNCHANGED <<pc, source, plan>>
    BY <1>4 DEF Reconnect, Hear
  <2> QED
    BY <1>4, <2>1, ReconnectKeepsMemo, HearKeepsMemo
    DEF IdentityInv, PromptTypeOK, StepIsSound, PlannedForThisSession
<1>5. ASSUME NEW p \in Prompts, Prompt(p) \/ Iterate(p) PROVE IdentityInv' /\ StepIsSound
  BY <1>5, ResolveIsSound DEF Prompt, Iterate
<1>6. ASSUME pc' \in [Prompts -> {"new", "sizing", "held", "planning", "planned",
                                  "published", "refused"}],
             \A p \in Prompts : pc'[p] = "planned" => pc[p] = "planned",
             UNCHANGED <<session, heard, memo, lookups, source, plan>>
      PROVE  IdentityInv' /\ StepIsSound
  BY <1>6
  DEF IdentityInv, PromptTypeOK, StepIsSound, PlannedForThisSession, MemoInv, MemoTypeOK,
      InFlightIsItsOwn, KnownIsAtRest, NoneIsAhead, MemoIsOfThisSession, SingleFlight,
      KnownUntilForgotten
<1>7. ASSUME NEW p \in Prompts, Publish(p) PROVE IdentityInv' /\ StepIsSound
  BY <1>6, <1>7 DEF Publish, IdentityInv, PromptTypeOK
<1>8. CASE UNCHANGED vars
  BY <1>6, <1>8 DEF vars, IdentityInv, PromptTypeOK
<1> QED
  BY <1>1, <1>2, <1>3, <1>4, <1>5, <1>7, <1>8 DEF Next

(* The memo holds no ID of a session that ended before the last reconnect  *)
(* heard of, callers of one entry share a lookup, a late failure replaces  *)
(* no ID, and no prompt is published under an older identity than the one  *)
(* heard of when it was planned (self-id.ts, agent.ts).                    *)
THEOREM IdentitySound == Spec => IdentityIsSound
<1>1. Init => IdentityInv
  <2> SUFFICES ASSUME Init PROVE IdentityInv
    OBVIOUS
  <2>1. 0 \in Sessions /\ 0 \in 0..0
    BY NoneIsNothing DEF Sessions
  <2>2. Empty \in Entry
    BY DEF Empty, Entry
  <2>3. MemoTypeOK
    BY <2>1, <2>2 DEF Init, MemoTypeOK
  <2>4. /\ InFlightIsItsOwn /\ KnownIsAtRest /\ NoneIsAhead
        /\ MemoIsOfThisSession /\ SingleFlight
    BY NoneIsNothing DEF Init, Empty, InFlightIsItsOwn, KnownIsAtRest, NoneIsAhead,
                         MemoIsOfThisSession, SingleFlight
  <2>5. PromptTypeOK
    BY DEF Init, PromptTypeOK
  <2> QED
    BY <2>3, <2>4, <2>5 DEF IdentityInv, MemoInv
<1>2. IdentityInv /\ [Next]_vars => IdentityInv' /\ StepIsSound
  BY NextIsSound
<1>3. IdentityInv => MemoSound
  BY DEF IdentityInv, MemoInv, MemoSound
<1>4. Spec => [][MemoSound' /\ KnownUntilForgotten /\ PlannedForThisSession]_vars
  BY <1>1, <1>2, <1>3, PTL DEF Spec, StepIsSound
<1> QED
  BY <1>4 DEF IdentityIsSound
=================================================================================
