------------------------------ MODULE LivesProofs ------------------------------
(***************************************************************************)
(* Theorems about things that are started and stopped, for any number of   *)
(* them: the lives of an agent service (ServiceLifecycle.tla), the starts  *)
(* of the OpenClaw account (OpenClawGateway.tla), the extension point of   *)
(* the channels (ExtensionPoint.tla) and the sessions of the headless      *)
(* hosts (HeadlessSessions.tla).                                           *)
(***************************************************************************)
EXTENDS ServiceLifecycle, OpenClawGateway, ExtensionPoint, HeadlessSessions,
        WellFoundedInduction, FiniteSetTheorems, SequenceTheorems, TLAPS

(***************************************************************************)
(* The lives of a service are apart, with a signer or without, when        *)
(* start() and stop() are awaited before the next call, as the README of   *)
(* the SDK shows them: section 6 of this project's README says what        *)
(* overlapping calls do.                                                   *)
(*                                                                         *)
(* The fields of the class then agree: the service that is remembered is   *)
(* the one registered, an interval fires only for it, and a beat at the    *)
(* signer is either the one a start() awaits or the one noted as in        *)
(* flight.                                                                 *)
(***************************************************************************)
InProgress(s) == starting[s] \notin {"idle", "done", "failed"}

OneCallAtATime ==
  /\ \A r, s \in Starts : InProgress(r) /\ InProgress(s) => r = s
  /\ \A p, q \in Stops : stopping[p] = "draining" /\ stopping[q] = "draining" => p = q
  /\ \A s \in Starts, p \in Stops : ~(InProgress(s) /\ stopping[p] = "draining")

\* What is remembered is what is registered, and the interval is its own.
FieldsAgree ==
  /\ registered = {service} \ {0}
  /\ intervals = {timer} \ {0}
  /\ timer # 0 => service = timer /\ starting[timer] = "done"
  /\ \A s \in Starts :
       /\ starting[s] \in {"identifying", "adding"} => service = 0
       /\ starting[s] \in {"flushing", "firstBeat"} => service = s /\ timer = 0
  /\ \A p \in Stops : stopping[p] = "draining" => timer = 0

\* Once stop() was the last call, only the stop itself is left to do.
UnwantedEnds ==
  /\ \A s \in Starts : InProgress(s) => wanted
  /\ ~wanted => /\ timer = 0
                /\ service # 0 => \E p \in Stops : stopping[p] = "draining"
                /\ stopped \/ signing = {}

\* A beat at the signer is the first of a start() that awaits it, or the one of
\* the interval that is in flight.
BeatsAccountedFor ==
  /\ \A b \in signing :
       /\ b.awaitedBy # 0 => b.instance = b.awaitedBy /\ starting[b.awaitedBy] = "firstBeat"
       /\ b.awaitedBy = 0 => inFlight # 0 /\ starting[b.instance] = "done"
  /\ \A b, c \in signing : b.awaitedBy = 0 /\ c.awaitedBy = 0 => b = c

\* Beats are numbered as they are built, and one at the signer is newer than what
\* its service has published.
BeatsNumbered ==
  /\ \A b \in signing : b.ts <= built
  /\ \A i \in 1..Len(out) : out[i].ts <= built
  /\ \A b \in signing, i \in 1..Len(out) : out[i].instance = b.instance => out[i].ts < b.ts

LifeInv ==
  /\ TypeOK
  /\ OneCallAtATime
  /\ FieldsAgree
  /\ UnwantedEnds
  /\ BeatsAccountedFor
  /\ BeatsNumbered
  /\ BeatsInOrder
  /\ OneBeatAtATime

(***************************************************************************)
(* Beats.                                                                  *)
(***************************************************************************)

(* A beat that is published is the newest of its service.                  *)
LEMMA PublishKeepsOrder ==
  ASSUME out \in Seq(Beats), BeatsInOrder, NEW b \in Beats, out' = Append(out, b),
         \A i \in 1..Len(out) : out[i].instance = b.instance => out[i].ts < b.ts
  PROVE  BeatsInOrder'
<1>1. /\ Len(out') = Len(out) + 1 /\ Len(out) \in Nat /\ out'[Len(out) + 1] = b
      /\ \A i \in 1..Len(out) : out'[i] = out[i]
  OBVIOUS
<1>2. SUFFICES ASSUME NEW i \in 1..Len(out'), NEW j \in 1..Len(out'), i < j,
                      out'[i].instance = out'[j].instance
               PROVE  out'[i].ts < out'[j].ts
  BY DEF BeatsInOrder
<1>3. i \in 1..Len(out) /\ (j \in 1..Len(out) \/ j = Len(out) + 1)
  BY <1>1, <1>2
<1>4. CASE j \in 1..Len(out)
  BY <1>1, <1>2, <1>3, <1>4 DEF BeatsInOrder
<1>5. CASE j = Len(out) + 1
  BY <1>1, <1>2, <1>3, <1>5
<1> QED
  BY <1>3, <1>4, <1>5

(* A new beat of a service that has none at the signer keeps the beats in  *)
(* order and one at a time.                                                *)
LEMMA BuildBeatKeeps ==
  ASSUME TypeOK, BeatsNumbered, BeatsInOrder, OneBeatAtATime,
         NEW by \in 0..MaxStarts, BuildBeat(by), \A c \in signing : c.instance # service
  PROVE  /\ built' \in 0..MaxBeats /\ signing' \subseteq Beats /\ out' \in Seq(Beats)
         /\ BeatsNumbered' /\ BeatsInOrder' /\ OneBeatAtATime'
<1> DEFINE beat == [instance |-> service, ts |-> built + 1, awaitedBy |-> by]
<1>1. /\ beat \in Beats /\ beat.ts = built + 1 /\ beat.instance = service
      /\ built \in Nat /\ built' = built + 1 /\ built' \in 0..MaxBeats
  BY LifecycleBounds DEF BuildBeat, TypeOK, Beats, Starts
<1>2. /\ \A b \in signing : b \in Beats /\ b.ts \in Nat /\ b.ts < built'
      /\ \A i \in 1..Len(out) : out[i] \in Beats /\ out[i].ts \in Nat /\ out[i].ts < built'
  <2>1. \A b \in Beats : b.ts \in Nat
    BY LifecycleBounds DEF Beats
  <2>2. /\ \A b \in signing : b \in Beats
        /\ \A i \in 1..Len(out) : out[i] \in Beats
    BY DEF TypeOK
  <2>3. /\ \A b \in signing : b.ts <= built
        /\ \A i \in 1..Len(out) : out[i].ts <= built
    BY DEF BeatsNumbered
  <2> QED
    BY <1>1, <2>1, <2>2, <2>3
<1> HIDE DEF beat
<1>3. CASE Signed
  <2>1. signing' = signing \cup {beat} /\ out' = out
    BY <1>3 DEF BuildBeat, beat
  <2>2. signing' \subseteq Beats /\ out' \in Seq(Beats) /\ BeatsInOrder'
    BY <1>1, <2>1 DEF TypeOK, BeatsInOrder
  <2>3. OneBeatAtATime'
    BY <1>1, <2>1 DEF OneBeatAtATime
  <2>4. BeatsNumbered'
    BY <1>1, <1>2, <2>1 DEF BeatsNumbered
  <2> QED
    BY <1>1, <2>2, <2>3, <2>4
<1>4. CASE ~Signed
  <2>1. signing' = signing /\ out' = Append(out, beat) /\ out \in Seq(Beats)
    BY <1>4 DEF BuildBeat, beat, TypeOK
  <2>2. /\ out' \in Seq(Beats) /\ Len(out') = Len(out) + 1 /\ Len(out) \in Nat
        /\ out'[Len(out) + 1] = beat /\ \A i \in 1..Len(out) : out'[i] = out[i]
    BY <1>1, <2>1
  <2>3. BeatsInOrder'
    BY <1>1, <1>2, <2>1, PublishKeepsOrder
  <2>4. BeatsNumbered'
    <3>1. \A i \in 1..Len(out') : i \in 1..Len(out) \/ i = Len(out) + 1
      BY <2>2
    <3>2. \A i \in 1..Len(out') : out'[i].ts <= built'
      BY <1>1, <1>2, <2>2, <3>1
    <3>3. \A b \in signing', i \in 1..Len(out') :
             out'[i].instance = b.instance => out'[i].ts < b.ts
      BY <1>1, <2>1, <2>2, <3>1 DEF BeatsNumbered
    <3> QED
      BY <1>1, <1>2, <2>1, <3>2, <3>3 DEF BeatsNumbered
  <2>5. OneBeatAtATime'
    BY <2>1 DEF OneBeatAtATime
  <2> QED
    BY <1>1, <2>1, <2>2, <2>3, <2>4, <2>5 DEF TypeOK
<1> QED
  BY <1>3, <1>4

(* The signer's answer publishes its beat, or drops it once stopped.       *)
LEMMA SignerDoneKeeps ==
  ASSUME LifeInv, NEW b \in signing, SignerDone(b)
  PROVE  LifeInv'
<1> USE DEF SignerDone
<1>1. /\ b \in Beats /\ signing \subseteq Beats /\ out \in Seq(Beats)
      /\ signing' = signing \ {b} /\ (out' = out \/ out' = Append(out, b))
  BY DEF LifeInv, TypeOK
<1>2. BeatsInOrder'
  <2>1. \A i \in 1..Len(out) : out[i].instance = b.instance => out[i].ts < b.ts
    BY DEF LifeInv, BeatsNumbered
  <2>2. CASE out' = Append(out, b)
    BY <1>1, <2>1, <2>2, PublishKeepsOrder DEF LifeInv
  <2>3. CASE out' = out
    BY <2>3 DEF LifeInv, BeatsInOrder
  <2> QED
    BY <1>1, <2>2, <2>3
<1>3. BeatsNumbered'
  <2>1. CASE out' = out
    BY <1>1, <2>1 DEF LifeInv, BeatsNumbered
  <2>2. CASE out' = Append(out, b)
    <3>1. /\ Len(out') = Len(out) + 1 /\ Len(out) \in Nat /\ out'[Len(out) + 1] = b
          /\ \A i \in 1..Len(out) : out'[i] = out[i]
      BY <1>1, <2>2
    <3>2. \A i \in 1..Len(out') : i \in 1..Len(out) \/ i = Len(out) + 1
      BY <3>1
    <3>3. \A c \in signing' : c \in signing /\ c.instance # b.instance
      BY <1>1 DEF LifeInv, OneBeatAtATime
    <3> QED
      BY <1>1, <3>1, <3>2, <3>3 DEF LifeInv, BeatsNumbered
  <2> QED
    BY <1>1, <2>1, <2>2
<1>4. TypeOK'
  <2>1. signing' \subseteq Beats /\ out' \in Seq(Beats)
    BY <1>1
  <2>2. inFlight' \in 0..MaxBeats
    BY LifecycleBounds DEF LifeInv, TypeOK
  <2> QED
    BY <2>1, <2>2 DEF LifeInv, TypeOK
<1>5. BeatsAccountedFor' /\ OneBeatAtATime'
  BY <1>1 DEF LifeInv, BeatsAccountedFor, OneBeatAtATime
<1>6. OneCallAtATime' /\ FieldsAgree' /\ UnwantedEnds'
  BY <1>1 DEF LifeInv, OneCallAtATime, FieldsAgree, UnwantedEnds, InProgress
<1> QED
  BY <1>2, <1>3, <1>4, <1>5, <1>6 DEF LifeInv

(* What happens elsewhere leaves the beats as they are, as long as no      *)
(* start() changes its mind about its first beat.                          *)
LEMMA BeatsRest ==
  ASSUME LifeInv, UNCHANGED beatVars,
         \A s \in Starts : starting[s] \in {"firstBeat", "done"} => starting'[s] = starting[s]
  PROVE  BeatsAccountedFor' /\ BeatsNumbered' /\ BeatsInOrder' /\ OneBeatAtATime'
<1>1. \A b \in signing : b.instance \in Starts /\ b.awaitedBy \in 0..MaxStarts
  BY DEF LifeInv, TypeOK, Beats
<1>2. \A b \in signing : b.awaitedBy # 0 => b.awaitedBy \in Starts
  BY <1>1, LifecycleBounds DEF Starts
<1>3. BeatsAccountedFor'
  BY <1>1, <1>2 DEF LifeInv, BeatsAccountedFor, beatVars
<1>4. BeatsNumbered' /\ BeatsInOrder' /\ OneBeatAtATime'
  BY DEF LifeInv, BeatsNumbered, BeatsInOrder, OneBeatAtATime, beatVars
<1> QED
  BY <1>3, <1>4

(***************************************************************************)
(* start().                                                                *)
(***************************************************************************)

(* While nothing may overlap, a call finds every other one resolved.       *)
LEMMA CallsAreAlone ==
  ASSUME Overlap = FALSE, MayCall
  PROVE  /\ \A s \in Starts : ~InProgress(s)
         /\ \A p \in Stops : stopping[p] # "draining"
  BY DEF MayCall, Busy, InProgress

(* A start that finds a service fails; one that does not has nothing to    *)
(* trip over: no interval and no registration is left of the life before.  *)
LEMMA StartKeeps ==
  ASSUME Overlap = FALSE, LifeInv, NEW s \in Starts, Start(s)
  PROVE  LifeInv'
<1> USE DEF Start
<1>1. /\ \A r \in Starts : ~InProgress(r)
      /\ \A p \in Stops : stopping[p] # "draining"
  BY CallsAreAlone
<1>2. /\ starting \in [Starts -> {"idle", "identifying", "adding", "flushing",
                                  "firstBeat", "done", "failed"}]
      /\ starting[s] = "idle" /\ {stopped, wanted} \subseteq BOOLEAN
  BY DEF LifeInv, TypeOK
<1>3. PICK place \in {"failed", "identifying"} :
         /\ starting' = [starting EXCEPT ![s] = place]
         /\ place = "failed" => service # 0 /\ wanted' = wanted
         /\ place = "identifying" => service = 0 /\ wanted' = TRUE
  BY DEF Enter
<1>4. /\ starting'[s] = place
      /\ \A r \in Starts : r # s => starting'[r] = starting[r] /\ ~InProgress(r)'
      /\ place = "failed" => ~InProgress(s)'
  BY <1>1, <1>2, <1>3 DEF InProgress
<1>5. TypeOK'
  BY <1>2, <1>3 DEF LifeInv, TypeOK, beatVars
<1>6. OneCallAtATime'
  BY <1>1, <1>4 DEF OneCallAtATime
<1>7. FieldsAgree'
  BY <1>1, <1>2, <1>3, <1>4 DEF LifeInv, FieldsAgree, InProgress
<1>8. UnwantedEnds'
  BY <1>2, <1>3, <1>4 DEF LifeInv, UnwantedEnds, beatVars
<1>9. BeatsAccountedFor' /\ BeatsNumbered' /\ BeatsInOrder' /\ OneBeatAtATime'
  BY <1>2, <1>3, <1>4, BeatsRest
<1> QED
  BY <1>5, <1>6, <1>7, <1>8, <1>9 DEF LifeInv

(* The identity arrives, the service is added, or the start fails.         *)
LEMMA StartGoesOnKeeps ==
  ASSUME LifeInv, NEW s \in Starts, Identified(s) \/ StartFails(s) \/ Added(s)
  PROVE  LifeInv'
<1> USE DEF Identified, StartFails, Added, Enter
<1>1. /\ starting \in [Starts -> {"idle", "identifying", "adding", "flushing",
                                  "firstBeat", "done", "failed"}]
      /\ starting[s] \in {"identifying", "adding", "flushing"} /\ InProgress(s)
      /\ timer \in 0..MaxStarts
  BY DEF LifeInv, TypeOK, InProgress
<1>2. PICK place \in {"adding", "flushing", "failed"} :
         /\ starting' = [starting EXCEPT ![s] = place]
         /\ place = "adding" => starting[s] = "identifying"
         /\ place = "flushing" => starting[s] = "adding"
         /\ IF place = "flushing" THEN service' = s /\ registered' = registered \cup {s}
            ELSE UNCHANGED <<service, registered>>
         /\ UNCHANGED <<stopping, stopped, timer, intervals, beatVars, wanted>>
  BY <1>1
<1>3. /\ starting'[s] = place
      /\ \A r \in Starts : r # s => starting'[r] = starting[r] /\ ~InProgress(r)
      /\ \A p \in Stops : stopping[p] # "draining"
  BY <1>1, <1>2 DEF LifeInv, OneCallAtATime
<1>4. s \in 0..MaxStarts /\ s # 0
  BY LifecycleBounds DEF Starts
<1>5. TypeOK'
  BY <1>1, <1>2, <1>4 DEF LifeInv, TypeOK, beatVars
<1>6. OneCallAtATime'
  BY <1>2, <1>3 DEF OneCallAtATime, InProgress
<1>7. FieldsAgree'
  <2>1. place # "failed" => service = 0 /\ registered = {} /\ timer = 0 /\ intervals = {}
    BY <1>1, <1>2, <1>4 DEF LifeInv, FieldsAgree
  <2>2. CASE place = "flushing"
    BY <1>2, <1>3, <1>4, <2>1, <2>2 DEF FieldsAgree, InProgress
  <2>3. CASE place = "adding"
    BY <1>2, <1>3, <2>1, <2>3 DEF FieldsAgree, InProgress
  <2>4. CASE place = "failed"
    BY <1>1, <1>2, <1>3, <2>4 DEF LifeInv, FieldsAgree, InProgress
  <2> QED
    BY <2>2, <2>3, <2>4
<1>8. UnwantedEnds'
  BY <1>1, <1>2, <1>3 DEF LifeInv, UnwantedEnds, InProgress
<1>9. BeatsAccountedFor' /\ BeatsNumbered' /\ BeatsInOrder' /\ OneBeatAtATime'
  BY <1>1, <1>2, <1>3, BeatsRest
<1> QED
  BY <1>5, <1>6, <1>7, <1>8, <1>9 DEF LifeInv

(* The first beat of a life: its service has none at the signer yet.       *)
LEMMA StartHeartbeatsKeeps ==
  ASSUME LifeInv, NEW s \in Starts, StartHeartbeats(s)
  PROVE  LifeInv'
<1> USE DEF StartHeartbeats, Enter
<1>1. /\ starting \in [Starts -> {"idle", "identifying", "adding", "flushing",
                                  "firstBeat", "done", "failed"}]
      /\ starting[s] = "flushing" /\ InProgress(s)
      /\ s \in 0..MaxStarts /\ s # 0 /\ service = s /\ timer = 0
  BY LifecycleBounds DEF LifeInv, TypeOK, InProgress, FieldsAgree, Starts
<1>2. /\ starting' = [starting EXCEPT ![s] = "firstBeat"]
      /\ BuildBeat(s) /\ stopped' = FALSE
      /\ UNCHANGED <<stopping, service, registered, timer, intervals, wanted, inFlight>>
  BY <1>1
<1>3. /\ starting'[s] = "firstBeat" /\ wanted
      /\ \A r \in Starts : r # s => starting'[r] = starting[r] /\ ~InProgress(r)
      /\ \A p \in Stops : stopping[p] # "draining"
  BY <1>1, <1>2 DEF LifeInv, OneCallAtATime, UnwantedEnds
<1>4. \A c \in signing : /\ c.instance \in Starts /\ c.awaitedBy \in 0..MaxStarts
                         /\ c.instance # s /\ c.awaitedBy # s
  <2> SUFFICES ASSUME NEW c \in signing
               PROVE  /\ c.instance \in Starts /\ c.awaitedBy \in 0..MaxStarts
                      /\ c.instance # s /\ c.awaitedBy # s
    OBVIOUS
  <2>1. c.instance \in Starts /\ c.awaitedBy \in 0..MaxStarts
    BY DEF LifeInv, TypeOK, Beats
  <2>2. /\ c.awaitedBy # 0 => c.instance = c.awaitedBy /\ starting[c.awaitedBy] = "firstBeat"
        /\ c.awaitedBy = 0 => starting[c.instance] = "done"
    BY DEF LifeInv, BeatsAccountedFor
  <2> QED
    BY <1>1, <2>1, <2>2
<1>5. /\ built' \in 0..MaxBeats /\ signing' \subseteq Beats /\ out' \in Seq(Beats)
      /\ BeatsNumbered' /\ BeatsInOrder' /\ OneBeatAtATime'
  BY <1>1, <1>2, <1>4, BuildBeatKeeps DEF LifeInv
<1>6. TypeOK'
  BY <1>1, <1>2, <1>5 DEF LifeInv, TypeOK
<1>7. BeatsAccountedFor'
  <2>1. \A b \in signing' : b \in signing \/ (b.instance = s /\ b.awaitedBy = s)
    BY <1>1, <1>2 DEF BuildBeat
  <2>2. \A b \in signing : /\ b.awaitedBy # 0 => b.instance = b.awaitedBy
                           /\ starting'[b.instance] = starting[b.instance]
    BY <1>3, <1>4 DEF LifeInv, BeatsAccountedFor
  <2> QED
    BY <1>1, <1>2, <1>3, <2>1, <2>2 DEF LifeInv, BeatsAccountedFor
<1>8. OneCallAtATime' /\ FieldsAgree'
  BY <1>1, <1>2, <1>3 DEF LifeInv, OneCallAtATime, FieldsAgree, InProgress
<1>9. UnwantedEnds'
  BY <1>2, <1>3 DEF LifeInv, UnwantedEnds, InProgress
<1> QED
  BY <1>5, <1>6, <1>7, <1>8, <1>9 DEF LifeInv

(* The interval is armed once the first beat has left the signer.          *)
LEMMA ArmTimerKeeps ==
  ASSUME LifeInv, NEW s \in Starts, ArmTimer(s)
  PROVE  LifeInv'
<1> USE DEF ArmTimer, Enter
<1>1. /\ starting \in [Starts -> {"idle", "identifying", "adding", "flushing",
                                  "firstBeat", "done", "failed"}]
      /\ starting[s] = "firstBeat" /\ InProgress(s)
      /\ s \in 0..MaxStarts /\ s # 0 /\ service = s /\ timer = 0 /\ intervals = {}
  BY LifecycleBounds DEF LifeInv, TypeOK, InProgress, FieldsAgree, Starts
<1>2. /\ starting'[s] = "done" /\ wanted
      /\ \A r \in Starts : r # s => starting'[r] = starting[r] /\ ~InProgress(r)
      /\ \A p \in Stops : stopping[p] # "draining"
  BY <1>1 DEF LifeInv, OneCallAtATime, UnwantedEnds
<1>3. TypeOK'
  BY <1>1 DEF LifeInv, TypeOK, beatVars
<1>4. OneCallAtATime' /\ FieldsAgree'
  BY <1>1, <1>2 DEF LifeInv, OneCallAtATime, FieldsAgree, InProgress
<1>5. UnwantedEnds'
  BY <1>1, <1>2 DEF LifeInv, UnwantedEnds, InProgress, beatVars
<1>6. BeatsAccountedFor'
  <2>1. \A b \in signing : b.instance \in Starts /\ b.awaitedBy \in 0..MaxStarts /\ b.awaitedBy # s
    BY DEF LifeInv, TypeOK, Beats
  <2>2. \A b \in signing : b.awaitedBy # 0 => b.instance = b.awaitedBy
    BY DEF LifeInv, BeatsAccountedFor
  <2>3. \A b \in signing :
           /\ b.awaitedBy # 0 => starting'[b.instance] = starting[b.instance]
           /\ b.awaitedBy = 0 => starting[b.instance] = "done" /\ b.instance # s
    BY <1>1, <1>2, <2>1, <2>2 DEF LifeInv, BeatsAccountedFor
  <2> QED
    BY <1>2, <2>1, <2>2, <2>3 DEF LifeInv, BeatsAccountedFor, beatVars
<1>7. BeatsNumbered' /\ BeatsInOrder' /\ OneBeatAtATime'
  BY DEF LifeInv, BeatsNumbered, BeatsInOrder, OneBeatAtATime, beatVars
<1> QED
  BY <1>3, <1>4, <1>5, <1>6, <1>7 DEF LifeInv

(* A tick builds a beat only when none is in flight, and its interval was  *)
(* armed after the first beat had left: none of its service is pending.    *)
LEMMA TickKeeps ==
  ASSUME LifeInv, NEW s \in Starts, Tick(s)
  PROVE  LifeInv'
<1> USE DEF Tick
<1>1. service = s /\ starting[s] = "done" /\ timer = s /\ s # 0 /\ BuildBeat(0) /\ 0 \in 0..MaxStarts
  BY LifecycleBounds DEF LifeInv, FieldsAgree, TypeOK
<1>2. \A c \in signing : /\ c.instance \in Starts /\ c.awaitedBy \in 0..MaxStarts
                         /\ c.instance # s /\ c.awaitedBy # 0
  <2> SUFFICES ASSUME NEW c \in signing
               PROVE  /\ c.instance \in Starts /\ c.awaitedBy \in 0..MaxStarts
                      /\ c.instance # s /\ c.awaitedBy # 0
    OBVIOUS
  <2>1. c.instance \in Starts /\ c.awaitedBy \in 0..MaxStarts
    BY DEF LifeInv, TypeOK, Beats
  <2>2. c.awaitedBy # 0 /\ c.instance = c.awaitedBy /\ starting[c.awaitedBy] = "firstBeat"
    BY DEF LifeInv, BeatsAccountedFor
  <2> QED
    BY <1>1, <2>1, <2>2
<1>3. /\ built' \in 0..MaxBeats /\ signing' \subseteq Beats /\ out' \in Seq(Beats)
      /\ BeatsNumbered' /\ BeatsInOrder' /\ OneBeatAtATime'
  BY <1>1, <1>2, BuildBeatKeeps DEF LifeInv
<1>4. built \in Nat /\ built' = built + 1 /\ inFlight' \in 0..MaxBeats
  BY <1>1, <1>3, LifecycleBounds DEF LifeInv, TypeOK, BuildBeat
<1>5. TypeOK'
  BY <1>3, <1>4 DEF LifeInv, TypeOK
<1>6. BeatsAccountedFor'
  <2>1. CASE Signed
    <3> DEFINE beat == [instance |-> service, ts |-> built + 1, awaitedBy |-> 0]
    <3>1. /\ signing' = signing \cup {beat}
          /\ beat.instance = s /\ beat.awaitedBy = 0 /\ inFlight' # 0
      BY <1>1, <1>4, <2>1 DEF BuildBeat
    <3> HIDE DEF beat
    <3> QED
      BY <1>1, <1>2, <3>1 DEF LifeInv, BeatsAccountedFor
  <2>2. CASE ~Signed
    BY <1>1, <1>2, <2>2 DEF LifeInv, BeatsAccountedFor, BuildBeat
  <2> QED
    BY <2>1, <2>2
<1>7. OneCallAtATime' /\ FieldsAgree'
  BY DEF LifeInv, OneCallAtATime, FieldsAgree, InProgress
<1>8. UnwantedEnds'
  BY <1>1 DEF LifeInv, UnwantedEnds, InProgress
<1> QED
  BY <1>3, <1>5, <1>6, <1>7, <1>8 DEF LifeInv

(***************************************************************************)
(* stop().                                                                 *)
(***************************************************************************)

(* stop() holds the beats back and clears the interval; only the service   *)
(* itself is left to be stopped.                                           *)
LEMMA StopKeeps ==
  ASSUME Overlap = FALSE, LifeInv, NEW p \in Stops, Stop(p)
  PROVE  LifeInv'
<1> USE DEF Stop
<1>1. /\ \A r \in Starts : ~InProgress(r)
      /\ \A q \in Stops : stopping[q] # "draining"
  BY CallsAreAlone
<1>2. /\ stopping \in [Stops -> {"idle", "draining", "done"}]
      /\ stopping'[p] = (IF service = 0 THEN "done" ELSE "draining")
      /\ \A q \in Stops : q # p => stopping'[q] = stopping[q]
      /\ timer' = 0 /\ intervals' = {} /\ 0 \in 0..MaxStarts
  BY LifecycleBounds DEF LifeInv, TypeOK, FieldsAgree
<1>3. TypeOK'
  BY <1>2 DEF LifeInv, TypeOK, beatVars
<1>4. OneCallAtATime'
  BY <1>1, <1>2 DEF OneCallAtATime, InProgress
<1>5. FieldsAgree'
  BY <1>1, <1>2 DEF LifeInv, FieldsAgree, InProgress
<1>6. UnwantedEnds'
  BY <1>1, <1>2 DEF UnwantedEnds, InProgress, beatVars
<1>7. BeatsAccountedFor' /\ BeatsNumbered' /\ BeatsInOrder' /\ OneBeatAtATime'
  BY BeatsRest
<1> QED
  BY <1>3, <1>4, <1>5, <1>6, <1>7 DEF LifeInv

(* The service is stopped: nothing is remembered and nothing registered.   *)
LEMMA DrainedKeeps ==
  ASSUME LifeInv, NEW p \in Stops, Drained(p)
  PROVE  LifeInv'
<1> USE DEF Drained
<1>1. /\ \A r \in Starts : ~InProgress(r)
      /\ \A q \in Stops : stopping'[q] # "draining"
  BY DEF LifeInv, TypeOK, OneCallAtATime
<1>2. /\ timer = 0 /\ registered' = {} /\ service' = 0 /\ 0 \in 0..MaxStarts
      /\ stopping' \in [Stops -> {"idle", "draining", "done"}]
  BY LifecycleBounds DEF LifeInv, TypeOK, FieldsAgree
<1>3. TypeOK'
  BY <1>2 DEF LifeInv, TypeOK, beatVars
<1>4. OneCallAtATime' /\ FieldsAgree'
  BY <1>1, <1>2 DEF LifeInv, OneCallAtATime, FieldsAgree, InProgress
<1>5. UnwantedEnds'
  BY <1>1, <1>2 DEF LifeInv, UnwantedEnds, InProgress, beatVars
<1>6. BeatsAccountedFor' /\ BeatsNumbered' /\ BeatsInOrder' /\ OneBeatAtATime'
  BY BeatsRest
<1> QED
  BY <1>3, <1>4, <1>5, <1>6 DEF LifeInv

(***************************************************************************)
(* The invariant and what follows from it.                                 *)
(***************************************************************************)

(* Every step keeps the invariant.                                         *)
LEMMA NextKeepsLives == Overlap = FALSE /\ LifeInv /\ [Next]_vars => LifeInv'
<1> SUFFICES ASSUME Overlap = FALSE, LifeInv, [Next]_vars PROVE LifeInv'
  OBVIOUS
<1>1. CASE UNCHANGED vars
  <2>1. TypeOK' /\ OneCallAtATime' /\ FieldsAgree' /\ UnwantedEnds'
    BY <1>1 DEF vars, beatVars, LifeInv, TypeOK, OneCallAtATime, FieldsAgree, UnwantedEnds, InProgress
  <2>2. BeatsAccountedFor' /\ BeatsNumbered' /\ BeatsInOrder' /\ OneBeatAtATime'
    BY <1>1, BeatsRest DEF vars
  <2> QED
    BY <2>1, <2>2 DEF LifeInv
<1>2. ASSUME NEW s \in Starts, Start(s) \/ StartSteps(s) \/ StartFails(s) \/ Tick(s)
      PROVE  LifeInv'
  BY <1>2, StartKeeps, StartGoesOnKeeps, StartHeartbeatsKeeps, ArmTimerKeeps, TickKeeps
     DEF StartSteps
<1>3. ASSUME NEW p \in Stops, Stop(p) \/ Drained(p) PROVE LifeInv'
  BY <1>3, StopKeeps, DrainedKeeps
<1>4. ASSUME NEW b \in signing, SignerDone(b) PROVE LifeInv'
  BY <1>4, SignerDoneKeeps
<1> QED
  BY <1>1, <1>2, <1>3, <1>4 DEF Next

(* A service starts out with nothing.                                      *)
LEMMA InitLifeInv == Init => LifeInv
<1> SUFFICES ASSUME Init PROVE LifeInv
  OBVIOUS
<1>1. TypeOK
  <2>1. out \in Seq(Beats)
    BY DEF Init
  <2>2. 0 \in 0..MaxStarts /\ 0 \in 0..MaxBeats
    BY LifecycleBounds
  <2> QED
    BY <2>1, <2>2 DEF Init, TypeOK
<1>2. OneCallAtATime /\ FieldsAgree /\ UnwantedEnds
  BY DEF Init, OneCallAtATime, FieldsAgree, UnwantedEnds, InProgress
<1>3. BeatsAccountedFor /\ BeatsNumbered /\ BeatsInOrder /\ OneBeatAtATime
  BY DEF Init, BeatsAccountedFor, BeatsNumbered, BeatsInOrder, OneBeatAtATime
<1> QED
  BY <1>1, <1>2, <1>3 DEF LifeInv

(* The lives of a service are apart: once stop() was the last call and     *)
(* every call has resolved, no interval fires and nothing is registered;   *)
(* the beats of each life are published in order and signed one at a time  *)
(* (service.ts: start, startHeartbeats, publishHeartbeat, stop).           *)
THEOREM LivesStayApart == Overlap = FALSE => (Spec => []LivesAreApart)
<1> SUFFICES ASSUME Overlap = FALSE PROVE Spec => []LivesAreApart
  OBVIOUS
<1>1. LifeInv /\ [Next]_vars => LifeInv'
  BY NextKeepsLives
<1>2. LifeInv => LivesAreApart
  BY DEF LifeInv, FieldsAgree, UnwantedEnds, Busy, LivesAreApart, StoppedIsQuiet
<1> QED
  BY <1>1, <1>2, InitLifeInv, PTL DEF Spec

(* Stopped means stopped: no beat is published after stop(), whatever was  *)
(* at the signer, until start() is called again (service.ts:              *)
(* #heartbeatsStopped is looked at again after the signer).                *)
THEOREM SilentWhileStopped == Overlap = FALSE => (Spec => NoBeatWhileStopped)
<1> SUFFICES ASSUME Overlap = FALSE PROVE Spec => NoBeatWhileStopped
  OBVIOUS
<1>1. LifeInv /\ [Next]_vars => LifeInv'
  BY NextKeepsLives
<1>2. LifeInv /\ [Next]_vars => [~wanted => out' = out]_vars
  <2> SUFFICES ASSUME LifeInv, Next, ~wanted PROVE out' = out
    OBVIOUS
  <2>1. /\ timer = 0 /\ intervals = {} /\ (stopped \/ signing = {})
        /\ \A s \in Starts : ~InProgress(s)
    BY DEF LifeInv, FieldsAgree, UnwantedEnds
  <2>2. ASSUME NEW s \in Starts, Start(s) \/ StartSteps(s) \/ StartFails(s) \/ Tick(s)
        PROVE  out' = out
    BY <2>1, <2>2 DEF Start, StartSteps, StartFails, Identified, Added, StartHeartbeats,
                      ArmTimer, Tick, InProgress, beatVars
  <2>3. ASSUME NEW p \in Stops, Stop(p) \/ Drained(p) PROVE out' = out
    BY <2>3 DEF Stop, Drained, beatVars
  <2>4. ASSUME NEW b \in signing, SignerDone(b) PROVE out' = out
    BY <2>1, <2>4 DEF SignerDone
  <2> QED
    BY <2>2, <2>3, <2>4 DEF Next
<1> QED
  BY <1>1, <1>2, InitLifeInv, PTL DEF Spec, NoBeatWhileStopped

(***************************************************************************)
(* The extension point: whatever wrappers do, control is at one level; the *)
(* wrappers outside it wait for what they called, those inside have not    *)
(* been reached or, once the step has run, are over.                       *)
(***************************************************************************)

LEMMA LeastOf ==
  ASSUME NEW T \in SUBSET Nat, T # {}
  PROVE  \E x \in T : \A y \in T : x <= y
<1>1. PICK x \in T : \A y \in T : ~(<<y, x>> \in OpToRel(<, Nat))
  BY WFMin, NatLessThanWellFounded, Zenon
<1>2. \A y \in T : ~(y < x)
  BY <1>1, Zenon DEF OpToRel
<1>3. QED
  BY <1>2

\* What a level wraps, and what wraps it: its neighbours.
LEMMA InnerIsNext ==
  ASSUME Entries \in Nat, plugged \in SUBSET Slots, NEW d \in 0..Entries
  PROVE  /\ Inner(d) \in plugged \cup {Entries + 1} /\ d < Inner(d)
         /\ \A k \in plugged : k <= d \/ Inner(d) <= k
<1>1. \A k \in plugged : k \in Nat /\ k <= Entries
  BY DEF Slots
<1>2. CASE \E l \in plugged : l > d
  <2>1. PICK T : T = {l \in plugged : l > d}
    OBVIOUS
  <2>2. T \in SUBSET Nat /\ T # {}
    BY <1>1, <1>2, <2>1
  <2>3. PICK x \in T : \A y \in T : x <= y
    BY <2>2, LeastOf
  <2>4. \E l \in plugged : l > d /\ \A k \in plugged : k > d => k >= l
    BY <1>1, <2>1, <2>3
  <2>5. Inner(d) = CHOOSE l \in plugged : l > d /\ \A k \in plugged : k > d => k >= l
    BY <1>2 DEF Inner
  <2>6. Inner(d) \in plugged /\ Inner(d) > d /\ \A k \in plugged : k > d => k >= Inner(d)
    BY <2>4, <2>5, Zenon
  <2>7. QED
    BY <1>1, <2>6
<1>3. CASE ~ \E l \in plugged : l > d
  BY <1>1, <1>3 DEF Inner
<1>4. QED
  BY <1>2, <1>3

LEMMA OuterIsNext ==
  ASSUME Entries \in Nat, plugged \in SUBSET Slots, NEW d \in 1..(Entries + 1)
  PROVE  /\ Outer(d) \in plugged \cup {0} /\ Outer(d) < d
         /\ \A k \in plugged : d <= k \/ k <= Outer(d)
<1>1. \A k \in plugged : k \in Nat /\ 1 <= k /\ k <= Entries
  BY DEF Slots
<1>2. CASE \E l \in plugged : l < d
  <2>1. PICK T : T = {Entries - l : l \in {k \in plugged : k < d}}
    OBVIOUS
  <2>2. T \in SUBSET Nat /\ T # {}
    BY <1>1, <1>2, <2>1
  <2>3. PICK x \in T : \A y \in T : x <= y
    BY <2>2, LeastOf
  <2>4. PICK m \in plugged : m < d /\ x = Entries - m
    BY <2>1, <2>3
  <2>5. ASSUME NEW k \in plugged, k < d PROVE k <= m
    <3>1. Entries - k \in T
      BY <2>1, <2>5
    <3>2. x <= Entries - k
      BY <2>3, <3>1
    <3>3. QED
      BY <1>1, <2>4, <3>2
  <2>6. \E l \in plugged : l < d /\ \A k \in plugged : k < d => k <= l
    BY <2>4, <2>5
  <2>7. Outer(d) = CHOOSE l \in plugged : l < d /\ \A k \in plugged : k < d => k <= l
    BY <1>2 DEF Outer
  <2>8. Outer(d) \in plugged /\ Outer(d) < d /\ \A k \in plugged : k < d => k <= Outer(d)
    BY <2>6, <2>7, Zenon
  <2>9. QED
    BY <1>1, <2>8
<1>3. CASE ~ \E l \in plugged : l < d
  BY <1>1, <1>3 DEF Outer
<1>4. QED
  BY <1>2, <1>3

Returned == {"none", "value", "throw"}
ExtensionTyped ==
  /\ plugged \in SUBSET Slots /\ at \in plugged \cup {0, Entries + 1}
  /\ ret \in Returned /\ outcome \in Returned /\ result \in Returned
  /\ wrapper \in [Slots -> {"out", "in", "below", "guard", "over"}]
  /\ called \in [Slots -> BOOLEAN] /\ threw \in [Slots -> BOOLEAN]
  /\ own \in [Slots -> {"none", "pending", "fulfilled", "own", "passed"}]
  /\ runs \in {0, 1} /\ entry \in Nat \ {0}

\* A wrapper that called its `run` and waits for it; one that was not reached
\* yet or, once the step has run, is over.
WaitsBelow(k) == wrapper[k] \in {"below", "guard"} /\ called[k]
Rests(k)   == IF runs = 1 THEN wrapper[k] = "over" /\ called[k] ELSE wrapper[k] = "out" /\ ~called[k]

\* The wrappers outside the one that runs wait for it, those inside rest.
StackSound ==
  /\ \A k \in plugged :
       /\ k < at => WaitsBelow(k)
       /\ k > at => Rests(k)
       /\ k = at => IF ret = "none" THEN wrapper[k] = "in" /\ (called[k] <=> runs = 1) ELSE WaitsBelow(k)
       /\ called[k] /\ wrapper[k] = "in" => (threw[k] <=> outcome = "throw")
  /\ \A k \in Slots \ plugged : wrapper[k] = "out" /\ ~called[k]

ValuesSound ==
  /\ ret # "none" => runs = 1 /\ ret = outcome
  /\ runs = 1 => outcome # "none"
  /\ at = Entries + 1 => ret = "none" /\ runs = 0
  /\ result # "none" => runs = 1 /\ result = outcome
  /\ channel = "loading" => at = 0 /\ ret = "none" /\ runs = 0

\* Where steps are asynchronous nothing throws, and wrappers' promises are observed.
Observed ==
  harness # "pi" => /\ outcome # "throw" /\ \A l \in Slots : ~threw[l]
                    /\ \A l \in Slots : own[l] = "pending" => l \in watched
                    /\ unhandled = {}

ExtensionInv == ExtensionTyped /\ StackSound /\ ValuesSound /\ Observed

\* Control goes from a level into what it wraps.
GoesIn(how) ==
  /\ at # Entries + 1 /\ ret = "none" /\ runs = 0
  /\ how \in {"out", "below", "guard"} /\ (at = 0 \/ how # "out")
  /\ EnterBelow(at, how)
  /\ called' = [l \in Slots |-> called[l] \/ l = at]
  /\ plugged' = plugged /\ threw' = threw /\ outcome' = outcome /\ runs' = runs

LEMMA EnterBelowSound ==
  ASSUME Entries \in Nat, ExtensionInv, NEW how, GoesIn(how)
  PROVE  /\ at' \in plugged \cup {Entries + 1} /\ ret' = "none"
         /\ wrapper' \in [Slots -> {"out", "in", "below", "guard", "over"}]
         /\ called' \in [Slots -> BOOLEAN]
         /\ StackSound'
<1>1. PICK i : i = Inner(at)
  OBVIOUS
<1>0. /\ plugged \in SUBSET Slots
      /\ wrapper \in [Slots -> {"out", "in", "below", "guard", "over"}]
      /\ called \in [Slots -> BOOLEAN] /\ at \in plugged \cup {0}
  BY DEF ExtensionInv, ExtensionTyped, GoesIn
<1>12. \A k \in Slots : k \in Nat /\ k <= Entries /\ 0 < k
  BY DEF Slots
<1>13. at \in 0..Entries
  BY <1>0, <1>12
<1>2. /\ plugged \in SUBSET Slots /\ at \in 0..Entries /\ \A k \in plugged : k \in Nat /\ k <= Entries /\ 0 < k
      /\ wrapper \in [Slots -> {"out", "in", "below", "guard", "over"}]
      /\ called \in [Slots -> BOOLEAN]
  BY <1>0, <1>12, <1>13
<1>3. i \in plugged \cup {Entries + 1} /\ at < i /\ \A k \in plugged : k <= at \/ i <= k
  BY <1>1, <1>2, InnerIsNext
<1>4. /\ at' = i /\ ret' = "none"
      /\ wrapper' = [l \in Slots |-> IF l = at THEN how ELSE IF l = i THEN "in" ELSE wrapper[l]]
  BY <1>1 DEF EnterBelow, GoesIn
<1>5. /\ wrapper' \in [Slots -> {"out", "in", "below", "guard", "over"}] /\ called' \in [Slots -> BOOLEAN]
  BY <1>2, <1>4 DEF GoesIn
<1>6. i \in Nat
  BY <1>2, <1>3
<1>7. \A l \in Slots : called'[l] <=> called[l] \/ l = at
  BY DEF GoesIn
<1>8. \A l \in Slots : /\ l = at => wrapper'[l] = how
                       /\ l = i => wrapper'[l] = "in"
                       /\ l # at /\ l # i => wrapper'[l] = wrapper[l]
  <2>1. at # i
    BY <1>3, <1>6, <1>13
  <2>2. QED
    BY <1>4, <2>1
<1>9. ret = "none" /\ runs = 0 /\ runs' = 0 /\ plugged' = plugged
  BY DEF GoesIn
<1>20. at = 0 \/ how \in {"below", "guard"}
  BY DEF GoesIn
<1>10. /\ \A k \in plugged : /\ k < at => wrapper[k] \in {"below", "guard"} /\ called[k]
                             /\ k > at => wrapper[k] = "out" /\ ~called[k]
       /\ \A k \in Slots \ plugged : wrapper[k] = "out" /\ ~called[k]
  <2>1. /\ \A k \in plugged : (k < at => WaitsBelow(k)) /\ (k > at => Rests(k))
        /\ \A k \in Slots \ plugged : wrapper[k] = "out" /\ ~called[k]
    BY <1>9 DEF ExtensionInv, StackSound
  <2>2. \A k \in plugged : /\ WaitsBelow(k) => wrapper[k] \in {"below", "guard"} /\ called[k]
                           /\ Rests(k) => wrapper[k] = "out" /\ ~called[k]
    <3>1. runs # 1
      BY DEF GoesIn
    <3>2. QED
      BY <3>1, Zenon DEF WaitsBelow, Rests
  <2>3. QED
    BY <2>1, <2>2
<1>15. \A k \in plugged : /\ k < i => (k < at /\ k # at /\ k # i) \/ (k = at /\ k # 0)
                          /\ k > i => k > at /\ k # at /\ k # i
                          /\ k = i => k > at /\ k # at
  BY <1>3, <1>6, <1>12, <1>13, <1>0
<1>16. \A k \in plugged : k \in Slots
  BY <1>0
<1>17. ASSUME NEW k \in plugged
       PROVE  /\ k < i => wrapper'[k] \in {"below", "guard"} /\ called'[k]
              /\ k > i => wrapper'[k] = "out" /\ ~called'[k]
              /\ k = i => wrapper'[k] = "in" /\ ~called'[k]
  <2>1. CASE k < i
    BY <1>7, <1>8, <1>10, <1>15, <1>16, <1>20, <2>1
  <2>2. CASE k > i
    BY <1>7, <1>8, <1>10, <1>15, <1>16, <2>2
  <2>3. CASE k = i
    BY <1>7, <1>8, <1>10, <1>15, <1>16, <2>3
  <2>4. k < i \/ k = i \/ k > i
    BY <1>0, <1>6, <1>12
  <2>5. ~(k < i /\ k > i) /\ ~(k < i /\ k = i) /\ ~(k = i /\ k > i)
    BY <1>0, <1>6, <1>12
  <2>6. QED
    BY <2>1, <2>2, <2>3, <2>4, <2>5
<1>18. ASSUME NEW k \in Slots \ plugged PROVE wrapper'[k] = "out" /\ ~called'[k]
  <2>1. k # i
    BY <1>3, <1>12
  <2>2. k # at
    BY <1>0, <1>12
  <2>3. QED
    BY <1>7, <1>8, <1>10, <2>1, <2>2
<1>19. StackSound'
  <2>1. \A k \in plugged : wrapper'[k] = "in" => ~called'[k]
    BY <1>0, <1>6, <1>12, <1>17
  <2>2. QED
    <3>1. \A k \in plugged : /\ WaitsBelow(k)' <=> wrapper'[k] \in {"below", "guard"} /\ called'[k]
                             /\ wrapper'[k] = "out" /\ ~called'[k] => Rests(k)'
      <4>1. runs' # 1
        BY DEF GoesIn
      <4>2. QED
        BY <4>1, Zenon DEF WaitsBelow, Rests
    <3>2. ASSUME NEW k \in plugged'
          PROVE  /\ k < at' => WaitsBelow(k)'
                 /\ k > at' => Rests(k)'
                 /\ k = at' => IF ret' = "none" THEN wrapper'[k] = "in" /\ (called'[k] <=> runs' = 1) ELSE WaitsBelow(k)'
                 /\ called'[k] /\ wrapper'[k] = "in" => (threw'[k] <=> outcome' = "throw")
      <4>1. k \in plugged /\ at' = i /\ ret' = "none" /\ runs' = 0
        BY <1>4, <1>9
      <4>2. /\ k < i => wrapper'[k] \in {"below", "guard"} /\ called'[k]
            /\ k > i => wrapper'[k] = "out" /\ ~called'[k]
            /\ k = i => wrapper'[k] = "in" /\ ~called'[k]
            /\ wrapper'[k] = "in" => ~called'[k]
        BY <1>17, <2>1, <4>1
      <4>3. /\ WaitsBelow(k)' <=> wrapper'[k] \in {"below", "guard"} /\ called'[k]
            /\ wrapper'[k] = "out" /\ ~called'[k] => Rests(k)'
        BY <3>1, <4>1
      <4>4. QED
        BY <4>1, <4>2, <4>3
    <3>3. QED
      BY <1>9, <1>18, <3>2 DEF StackSound
<1>11. QED
  BY <1>3, <1>4, <1>5, <1>19

\* The step runs: what it wraps is nothing.
LEMMA RunStepSound ==
  ASSUME Entries \in Nat, ExtensionInv, RunStep
  PROVE  ExtensionInv'
<1>1. /\ plugged \in SUBSET Slots /\ at = Entries + 1 /\ ret = "none" /\ runs = 0
  BY DEF ExtensionInv, ExtensionTyped, ValuesSound, RunStep
<1>2. /\ outcome' \in {"value", "throw"} /\ ret' = outcome' /\ runs' = 1 /\ at' = Outer(Entries + 1)
      /\ plugged' = plugged /\ wrapper' = wrapper /\ called' = called /\ threw' = threw
      /\ result' = result /\ channel' = channel /\ harness' = harness /\ own' = own
      /\ watched' = watched /\ unhandled' = unhandled /\ entry' = entry
  BY <1>1 DEF RunStep, hookVars, asyncVars
<1>3. PICK o : o = Outer(Entries + 1)
  OBVIOUS
<1>4. \A k \in Slots : k \in Nat /\ k <= Entries /\ 0 < k
  BY DEF Slots
<1>5. /\ o \in plugged \cup {0} /\ \A k \in plugged : Entries + 1 <= k \/ k <= o
  BY <1>1, <1>3, OuterIsNext
<1>6. \A k \in plugged : k < at /\ ~(k > o)
  BY <1>1, <1>4, <1>5
<1>7. \A k \in plugged : WaitsBelow(k)
  BY <1>6 DEF ExtensionInv, StackSound
<1>8. \A k \in plugged : WaitsBelow(k)' /\ wrapper'[k] # "in"
  BY <1>2, <1>7 DEF WaitsBelow
<1>9. StackSound'
  BY <1>2, <1>3, <1>6, <1>8 DEF ExtensionInv, StackSound
<1>10. ExtensionTyped'
  BY <1>2, <1>3, <1>5 DEF ExtensionInv, ExtensionTyped, Returned
<1>11. ValuesSound'
  <2>1. o # Entries + 1 /\ channel # "loading" /\ result = "none"
    BY <1>1, <1>4, <1>5 DEF ExtensionInv, ValuesSound
  <2>2. QED
    BY <1>2, <1>3, <2>1 DEF ValuesSound
<1>12. Observed'
  BY <1>2 DEF ExtensionInv, Observed, RunStep
<1>13. QED
  BY <1>9, <1>10, <1>11, <1>12 DEF ExtensionInv

\* What returns to l goes on in its wrapper, or to the one outside it.
LEMMA ReturnToSound ==
  ASSUME Entries \in Nat, ExtensionInv, NEW l \in Slots, ReturnTo(l)
  PROVE  ExtensionInv'
<1>1. /\ plugged \in SUBSET Slots /\ at = l /\ ret # "none" /\ runs = 1 /\ ret = outcome
      /\ wrapper \in [Slots -> {"out", "in", "below", "guard", "over"}]
      /\ threw \in [Slots -> BOOLEAN] /\ ret \in Returned
  BY DEF ExtensionInv, ExtensionTyped, ValuesSound, ReturnTo
<1>2. PICK w : w = (ret = "throw")
  OBVIOUS
<1>3. /\ threw' = [threw EXCEPT ![l] = w] /\ w \in BOOLEAN
      /\ plugged' = plugged /\ called' = called /\ runs' = 1 /\ outcome' = outcome
      /\ result' = result /\ channel' = channel /\ harness' = harness /\ own' = own
      /\ watched' = watched /\ unhandled' = unhandled /\ entry' = entry
  BY <1>1, <1>2 DEF ReturnTo, hookVars, asyncVars, stepVars
<1>4. \A k \in Slots : k \in Nat /\ k <= Entries /\ 0 < k
  BY DEF Slots
<1>5. l \in plugged
  BY <1>1, <1>4 DEF ExtensionInv, ExtensionTyped
<1>6. /\ \A k \in plugged : /\ k < l => WaitsBelow(k)
                            /\ k > l => Rests(k)
                            /\ k = l => WaitsBelow(k)
                            /\ called[k] /\ wrapper[k] = "in" => (threw[k] <=> outcome = "throw")
      /\ \A k \in Slots \ plugged : wrapper[k] = "out" /\ ~called[k]
  BY <1>1 DEF ExtensionInv, StackSound
<1>7. /\ threw' \in [Slots -> BOOLEAN] /\ (threw'[l] <=> outcome = "throw")
      /\ \A k \in Slots : k # l => threw'[k] = threw[k]
  BY <1>1, <1>2, <1>3
<1>8. Observed'
  BY <1>1, <1>3, <1>7 DEF ExtensionInv, Observed
<1>9. CASE wrapper[l] = "below"
  <2>1. wrapper' = [wrapper EXCEPT ![l] = "in"] /\ ret' = "none" /\ at' = l
    BY <1>1, <1>9 DEF ReturnTo
  <2>2. /\ wrapper' \in [Slots -> {"out", "in", "below", "guard", "over"}] /\ wrapper'[l] = "in"
        /\ \A k \in Slots : k # l => wrapper'[k] = wrapper[k]
    BY <1>1, <2>1
  <2>3. \A k \in plugged : k # l => (WaitsBelow(k) => WaitsBelow(k)') /\ (Rests(k) => Rests(k)')
    BY <1>1, <1>3, <2>2 DEF WaitsBelow, Rests
  <2>4. called'[l] /\ runs' = 1
    BY <1>3, <1>5, <1>6 DEF WaitsBelow
  <2>5. ASSUME NEW k \in plugged
        PROVE  /\ k < l => WaitsBelow(k)'
               /\ k > l => Rests(k)'
               /\ k = l => wrapper'[k] = "in" /\ (called'[k] <=> runs' = 1)
               /\ called'[k] /\ wrapper'[k] = "in" => (threw'[k] <=> outcome' = "throw")
    <3>1. CASE k = l
      BY <1>3, <1>4, <1>7, <2>2, <2>4, <3>1
    <3>2. CASE k # l
      BY <1>1, <1>3, <1>6, <1>7, <2>2, <2>3, <3>2
    <3>3. QED
      BY <3>1, <3>2
  <2>6. StackSound'
    BY <1>1, <1>3, <1>5, <1>6, <2>1, <2>2, <2>5 DEF StackSound
  <2>7. ExtensionTyped'
    BY <1>1, <1>3, <1>7, <2>1, <2>2 DEF ExtensionInv, ExtensionTyped, Returned
  <2>8. ValuesSound'
    BY <1>1, <1>3, <1>4, <2>1 DEF ExtensionInv, ValuesSound
  <2>9. QED
    BY <1>8, <2>6, <2>7, <2>8 DEF ExtensionInv
<1>10. CASE wrapper[l] = "guard"
  <2>1. PICK o : o = Outer(l)
    OBVIOUS
  <2>2. wrapper' = [wrapper EXCEPT ![l] = "over"] /\ ret' = ret /\ at' = o
    BY <1>1, <1>10, <2>1 DEF ReturnTo
  <2>3. /\ wrapper' \in [Slots -> {"out", "in", "below", "guard", "over"}] /\ wrapper'[l] = "over"
        /\ \A k \in Slots : k # l => wrapper'[k] = wrapper[k]
    BY <1>1, <2>2
  <2>4. l \in 1..(Entries + 1)
    BY <1>4
  <2>5. o \in plugged \cup {0} /\ o < l /\ \A k \in plugged : l <= k \/ k <= o
    BY <1>1, <2>1, <2>4, OuterIsNext
  <2>6. \A k \in plugged : k # l => (WaitsBelow(k) => WaitsBelow(k)') /\ (Rests(k) => Rests(k)')
    BY <1>1, <1>3, <2>3 DEF WaitsBelow, Rests
  <2>7. Rests(l)' /\ WaitsBelow(l)
    BY <1>3, <1>5, <1>6, <2>3 DEF WaitsBelow, Rests
  <2>8. ASSUME NEW k \in plugged
        PROVE  /\ k < o => WaitsBelow(k)'
               /\ k > o => Rests(k)'
               /\ k = o => WaitsBelow(k)'
               /\ called'[k] /\ wrapper'[k] = "in" => (threw'[k] <=> outcome' = "throw")
    <3>1. CASE k = l
      BY <1>1, <1>4, <2>3, <2>5, <2>7, <3>1
    <3>2. CASE k # l
      <4>1. o \in Nat /\ k \in Nat /\ l \in Nat
        BY <1>1, <1>4, <2>5
      <4>2. /\ k < o => k < l
            /\ k = o => k < l
            /\ k > o => k > l
        BY <2>5, <3>2, <4>1
      <4>3. QED
        BY <1>1, <1>3, <1>6, <1>7, <2>3, <2>6, <3>2, <4>2
    <3>3. QED
      BY <3>1, <3>2
  <2>9. StackSound'
    BY <1>1, <1>3, <1>5, <1>6, <2>2, <2>3, <2>8 DEF StackSound
  <2>10. ExtensionTyped'
    BY <1>1, <1>3, <1>7, <2>2, <2>3, <2>5 DEF ExtensionInv, ExtensionTyped, Returned
  <2>11. ValuesSound'
    <3>1. o # Entries + 1
      BY <1>1, <1>4, <2>5
    <3>2. QED
      BY <1>1, <1>3, <2>2, <3>1 DEF ExtensionInv, ValuesSound
  <2>12. QED
    BY <1>8, <2>9, <2>10, <2>11 DEF ExtensionInv
<1>11. QED
  BY <1>9, <1>10 DEF ReturnTo

\* What the steps of a call leave alone.
OutsideCall == UNCHANGED <<harness, channel, entry, plugged, runs, outcome, result>>

\* The plugin calls the outermost wrapper, a wrapper its `run`, or the guard for it.
LEMMA GoesInSound ==
  ASSUME Entries \in Nat, ExtensionInv, NEW how, GoesIn(how), OutsideCall, channel # "loading"
  PROVE  ExtensionTyped' \/ own' \notin [Slots -> {"none", "pending", "fulfilled", "own", "passed"}]
<1>1. /\ at' \in plugged \cup {Entries + 1} /\ ret' = "none"
      /\ wrapper' \in [Slots -> {"out", "in", "below", "guard", "over"}]
      /\ called' \in [Slots -> BOOLEAN]
  BY EnterBelowSound
<1>2. QED
  BY <1>1 DEF OutsideCall, GoesIn, ExtensionInv, ExtensionTyped, Returned

LEMMA CallSound ==
  ASSUME Entries \in Nat, ExtensionInv, NEW how, GoesIn(how), OutsideCall, channel # "loading",
         own' \in [Slots -> {"none", "pending", "fulfilled", "own", "passed"}], Observed'
  PROVE  ExtensionInv'
<1>1. ExtensionTyped'
  BY GoesInSound
<1>2. StackSound' /\ ret' = "none" /\ runs' = 0
  BY EnterBelowSound DEF GoesIn
<1>3. ValuesSound'
  BY <1>2 DEF OutsideCall, ExtensionInv, ValuesSound
<1>4. QED
  BY <1>1, <1>2, <1>3 DEF ExtensionInv

LEMMA WrapAllSound ==
  ASSUME Entries \in Nat, ExtensionInv, WrapAll
  PROVE  ExtensionInv'
<1>1. /\ called \in [Slots -> BOOLEAN] /\ at = 0 /\ ret = "none" /\ runs = 0
      /\ own \in [Slots -> {"none", "pending", "fulfilled", "own", "passed"}]
  BY DEF ExtensionInv, ExtensionTyped, WrapAll
<1>2. \A l \in Slots : (called[l] \/ l = at) = called[l]
  BY <1>1 DEF Slots
<1>3. called' = called /\ called = [l \in Slots |-> called[l] \/ l = at]
  BY <1>1, <1>2 DEF WrapAll
<1>4. 0 # Entries + 1
  OBVIOUS
<1>5. GoesIn("out")
  BY <1>1, <1>3, <1>4 DEF GoesIn, WrapAll, hookVars, stepVars
<1>6. OutsideCall /\ channel # "loading" /\ own' = own
  BY DEF WrapAll, OutsideCall, hookVars, stepVars, asyncVars
<1>7. Observed'
  BY DEF WrapAll, ExtensionInv, Observed, stepVars, asyncVars
<1>8. QED
  BY <1>1, <1>5, <1>6, <1>7, CallSound

\* Where the wrapper of l runs and has not called its `run`.
LEMMA RunsWrapper ==
  ASSUME Entries \in Nat, ExtensionInv, NEW l \in Slots, at = l, ret = "none", ~called[l]
  PROVE  /\ l \in plugged /\ runs = 0 /\ channel # "loading" /\ l # Entries + 1
<1>1. plugged \in SUBSET Slots /\ at \in plugged \cup {0, Entries + 1} /\ runs \in {0, 1}
  BY DEF ExtensionInv, ExtensionTyped
<1>2. l # 0 /\ l # Entries + 1
  BY DEF Slots
<1>3. l \in plugged
  BY <1>1, <1>2
<1>4. called[l] <=> runs = 1
  BY <1>3 DEF ExtensionInv, StackSound
<1>5. QED
  BY <1>1, <1>2, <1>3, <1>4 DEF ExtensionInv, ValuesSound

LEMMA MarkCalled ==
  ASSUME NEW c \in [Slots -> BOOLEAN], NEW l \in Slots
  PROVE  [c EXCEPT ![l] = TRUE] = [k \in Slots |-> c[k] \/ k = l]
OBVIOUS

\* A late `run` finds that it was called.
LEMMA OnceSound ==
  ASSUME Entries \in Nat, ExtensionInv, NEW l \in Slots, Once(l)
  PROVE  ExtensionInv' \/ UNCHANGED extensionVars
<1>1. CASE called[l]
  BY <1>1 DEF Once, extensionVars
<1>2. CASE ~called[l]
  <2>1. /\ plugged \in SUBSET Slots /\ called \in [Slots -> BOOLEAN]
        /\ own \in [Slots -> {"none", "pending", "fulfilled", "own", "passed"}]
    BY DEF ExtensionInv, ExtensionTyped
  <2>2. ~(wrapper[l] = "over" /\ at = 0)
    <3>1. SUFFICES ASSUME wrapper[l] = "over", at = 0 PROVE FALSE
      OBVIOUS
    <3>2. l > at
      BY <3>1 DEF Slots
    <3>3. l \in plugged => Rests(l)
      BY <3>2 DEF ExtensionInv, StackSound
    <3>4. l \in plugged
      BY <3>1 DEF ExtensionInv, StackSound
    <3>5. QED
      BY <1>2, <3>1, <3>3, <3>4 DEF Rests
  <2>3. at = l /\ ret = "none"
    BY <2>2 DEF Once, CallsRun
  <2>4. l \in plugged /\ runs = 0 /\ channel # "loading" /\ l # Entries + 1
    BY <1>2, <2>3, RunsWrapper
  <2>5. called' = [called EXCEPT ![l] = TRUE] /\ EnterBelow(l, "below") /\ UNCHANGED threw
    BY <1>2 DEF Once
  <2>6. called' = [k \in Slots |-> called[k] \/ k = at]
    BY <2>1, <2>3, <2>5, MarkCalled
  <2>7. GoesIn("below")
    BY <2>3, <2>4, <2>5, <2>6 DEF GoesIn, Once, hookVars, stepVars
  <2>8. OutsideCall /\ own' = own
    BY DEF Once, OutsideCall, hookVars, stepVars, asyncVars
  <2>9. Observed'
    BY <2>5 DEF Once, ExtensionInv, Observed, stepVars, asyncVars
  <2>10. QED
    BY <2>1, <2>4, <2>7, <2>8, <2>9, CallSound
<1>3. QED
  BY <1>1, <1>2

\* A wrapper that is over: what the step did goes on, or the step is run.
LEMMA GuardSound ==
  ASSUME Entries \in Nat, ExtensionInv, NEW l \in Slots, at = l, ret = "none", wrapper[l] = "in",
         Guard(l), OutsideCall, threw' = threw,
         own' \in [Slots -> {"none", "pending", "fulfilled", "own", "passed"}], Observed'
  PROVE  ExtensionInv'
<1>1. /\ plugged \in SUBSET Slots /\ called \in [Slots -> BOOLEAN] /\ threw \in [Slots -> BOOLEAN]
      /\ wrapper \in [Slots -> {"out", "in", "below", "guard", "over"}]
      /\ outcome \in Returned
  BY DEF ExtensionInv, ExtensionTyped
<1>2. \A k \in Slots : k \in Nat /\ k <= Entries /\ 0 < k
  BY DEF Slots
<1>3. l \in plugged
  BY <1>2 DEF ExtensionInv, ExtensionTyped
<1>4. CASE ~called[l]
  <2>1. runs = 0 /\ channel # "loading" /\ l # Entries + 1
    BY <1>4, RunsWrapper
  <2>2. called' = [called EXCEPT ![l] = TRUE] /\ EnterBelow(l, "guard")
    BY <1>4 DEF Guard
  <2>3. called' = [k \in Slots |-> called[k] \/ k = at]
    BY <1>1, <2>2, MarkCalled
  <2>4. GoesIn("guard")
    BY <2>1, <2>2, <2>3 DEF GoesIn, OutsideCall
  <2>5. QED
    BY <2>1, <2>4, CallSound
<1>5. CASE called[l]
  <2>1. PICK o : o = Outer(l)
    OBVIOUS
  <2>2. /\ ret' = (IF threw[l] THEN "throw" ELSE "value") /\ at' = o
        /\ wrapper' = [wrapper EXCEPT ![l] = "over"] /\ called' = called
    BY <1>5, <2>1 DEF Guard
  <2>3. /\ \A k \in plugged : /\ k < l => WaitsBelow(k)
                              /\ k > l => Rests(k)
                              /\ k = l => (called[k] <=> runs = 1) /\ (threw[k] <=> outcome = "throw")
                              /\ called[k] /\ wrapper[k] = "in" => (threw[k] <=> outcome = "throw")
        /\ \A k \in Slots \ plugged : wrapper[k] = "out" /\ ~called[k]
    BY <1>5 DEF ExtensionInv, StackSound
  <2>4. runs = 1 /\ outcome # "none"
    BY <1>3, <1>5, <2>3 DEF ExtensionInv, ValuesSound
  <2>5. ret' = outcome
    BY <1>1, <1>3, <2>2, <2>3, <2>4 DEF Returned
  <2>6. /\ wrapper' \in [Slots -> {"out", "in", "below", "guard", "over"}] /\ wrapper'[l] = "over"
        /\ \A k \in Slots : k # l => wrapper'[k] = wrapper[k]
    BY <1>1, <2>2
  <2>7. l \in 1..(Entries + 1)
    BY <1>2
  <2>8. o \in plugged \cup {0} /\ o < l /\ \A k \in plugged : l <= k \/ k <= o
    BY <1>1, <2>1, <2>7, OuterIsNext
  <2>9. runs' = 1 /\ plugged' = plugged /\ outcome' = outcome /\ result' = result /\ channel' = channel
        /\ entry' = entry
    BY <2>4 DEF OutsideCall
  <2>10. \A k \in plugged : k # l => (WaitsBelow(k) => WaitsBelow(k)') /\ (Rests(k) => Rests(k)')
    BY <1>1, <2>2, <2>4, <2>6, <2>9 DEF WaitsBelow, Rests
  <2>11. Rests(l)'
    BY <1>5, <2>2, <2>6, <2>9 DEF Rests
  <2>12. ASSUME NEW k \in plugged
         PROVE  /\ k < o => WaitsBelow(k)'
                /\ k > o => Rests(k)'
                /\ k = o => WaitsBelow(k)'
                /\ called'[k] /\ wrapper'[k] = "in" => (threw'[k] <=> outcome' = "throw")
    <3>1. CASE k = l
      BY <1>1, <1>2, <2>6, <2>8, <2>11, <3>1
    <3>2. CASE k # l
      <4>1. o \in Nat /\ k \in Nat /\ l \in Nat
        BY <1>1, <1>2, <2>8
      <4>2. /\ k < o => k < l
            /\ k = o => k < l
            /\ k > o => k > l
        BY <2>8, <3>2, <4>1
      <4>3. wrapper'[k] = wrapper[k] /\ called'[k] = called[k] /\ threw'[k] = threw[k]
        BY <1>1, <2>2, <2>6, <3>2
      <4>4. QED
        BY <2>3, <2>9, <2>10, <3>2, <4>2, <4>3
    <3>3. QED
      BY <3>1, <3>2
  <2>13. StackSound'
    BY <1>1, <1>3, <2>2, <2>3, <2>4, <2>5, <2>6, <2>9, <2>12 DEF StackSound
  <2>14. ExtensionTyped'
    BY <1>1, <2>2, <2>5, <2>6, <2>8, <2>9 DEF ExtensionInv, ExtensionTyped
  <2>15. ValuesSound'
    <3>1. o # Entries + 1 /\ channel # "loading"
      BY <1>1, <1>2, <2>4, <2>8 DEF ExtensionInv, ValuesSound
    <3>2. QED
      BY <2>2, <2>4, <2>5, <2>9, <3>1 DEF ExtensionInv, ValuesSound
  <2>16. QED
    BY <2>13, <2>14, <2>15 DEF ExtensionInv
<1>6. QED
  BY <1>4, <1>5

LEMMA WrapperThrowsSound ==
  ASSUME Entries \in Nat, ExtensionInv, NEW l \in Slots, WrapperThrows(l)
  PROVE  ExtensionInv'
<1>1. /\ at = l /\ ret = "none" /\ wrapper[l] = "in" /\ Guard(l)
      /\ OutsideCall /\ threw' = threw /\ own' = own
  BY DEF WrapperThrows, OutsideCall, hookVars, stepVars, asyncVars
<1>2. Observed'
  BY DEF WrapperThrows, ExtensionInv, Observed, stepVars, asyncVars
<1>3. own \in [Slots -> {"none", "pending", "fulfilled", "own", "passed"}]
  BY DEF ExtensionInv, ExtensionTyped
<1>4. QED
  BY <1>1, <1>2, <1>3, GuardSound

\* A wrapper's promise is observed where a step cannot throw.
LEMMA WrapperReturnsSound ==
  ASSUME Entries \in Nat, ExtensionInv, NEW l \in Slots, WrapperReturns(l)
  PROVE  ExtensionInv'
<1>1. /\ at = l /\ ret = "none" /\ wrapper[l] = "in" /\ Guard(l)
      /\ OutsideCall /\ threw' = threw /\ unhandled' = unhandled /\ Watched(l)
  BY DEF WrapperReturns, OutsideCall, hookVars, stepVars
<1>2. own \in [Slots -> {"none", "pending", "fulfilled", "own", "passed"}]
  BY DEF ExtensionInv, ExtensionTyped
<1>3. PICK returned \in {"none", "pending"} : own' = [own EXCEPT ![l] = returned]
  BY DEF WrapperReturns
<1>4. /\ own' \in [Slots -> {"none", "pending", "fulfilled", "own", "passed"}]
      /\ \A k \in Slots : k # l => own'[k] = own[k]
  BY <1>2, <1>3
<1>5. Observed'
  <2>1. SUFFICES ASSUME harness # "pi" PROVE Observed'
    BY <1>1 DEF Observed, OutsideCall
  <2>2. /\ outcome # "throw" /\ \A k \in Slots : ~threw[k]
        /\ \A k \in Slots : own[k] = "pending" => k \in watched
        /\ unhandled = {}
    BY <2>1 DEF ExtensionInv, Observed
  <2>3. watched' = IF own'[l] = "pending" THEN watched \cup {l} ELSE watched
    BY <1>1, <2>1, <2>2 DEF Watched
  <2>4. \A k \in Slots : own'[k] = "pending" => k \in watched'
    BY <1>4, <2>2, <2>3
  <2>5. QED
    BY <1>1, <2>2, <2>4 DEF Observed, OutsideCall
<1>6. QED
  BY <1>1, <1>4, <1>5, GuardSound

LEMMA PluginGetsSound ==
  ASSUME Entries \in Nat, ExtensionInv, PluginGets
  PROVE  ExtensionInv'
<1>1. /\ at = 0 /\ ret # "none" /\ ret' = "none" /\ result' = ret
      /\ UNCHANGED <<harness, channel, entry, plugged, at, wrapper, called, threw, runs, outcome>>
      /\ own' = own /\ watched' = watched /\ unhandled' = unhandled
  BY DEF PluginGets, hookVars, asyncVars
<1>2. ExtensionTyped' /\ Observed'
  BY <1>1 DEF ExtensionInv, ExtensionTyped, Observed, Returned
<1>3. ValuesSound'
  BY <1>1 DEF ExtensionInv, ValuesSound
<1>4. \A k \in plugged : k # 0
  BY DEF ExtensionInv, ExtensionTyped, Slots
<1>5. \A k \in plugged : (WaitsBelow(k) => WaitsBelow(k)') /\ (Rests(k) => Rests(k)')
  BY <1>1 DEF WaitsBelow, Rests
<1>6. StackSound'
  BY <1>1, <1>4, <1>5 DEF ExtensionInv, StackSound
<1>7. QED
  BY <1>2, <1>3, <1>6 DEF ExtensionInv

\* Modules are loaded before anything is wrapped.
LEMMA LoadEntrySound ==
  ASSUME Entries \in Nat, ExtensionInv, LoadEntry
  PROVE  ExtensionInv'
<1>1. /\ channel = "loading" /\ entry <= Entries /\ entry \in Nat \ {0}
      /\ at = 0 /\ ret = "none" /\ runs = 0 /\ plugged \in SUBSET Slots
  BY DEF LoadEntry, ExtensionInv, ExtensionTyped, ValuesSound
<1>2. /\ plugged' \in {plugged, plugged \cup {entry}} /\ entry' = entry + 1
      /\ UNCHANGED <<harness, channel, at, ret, wrapper, called, threw, runs, outcome, result>>
      /\ own' = own /\ watched' = watched /\ unhandled' = unhandled
  BY DEF LoadEntry, callVars, stepVars, asyncVars
<1>3. entry \in Slots
  BY <1>1 DEF Slots
<1>4. plugged' \subseteq Slots /\ plugged \subseteq plugged'
  BY <1>1, <1>2, <1>3
<1>5. ExtensionTyped' /\ ValuesSound' /\ Observed'
  BY <1>1, <1>2, <1>4 DEF ExtensionInv, ExtensionTyped, ValuesSound, Observed
<1>6. \A k \in Slots : k > 0 /\ ~(k < 0) /\ k # 0
  BY DEF Slots
<1>7. \A k \in Slots : wrapper[k] = "out" /\ ~called[k]
  <2>1. \A k \in plugged : Rests(k)
    BY <1>1, <1>6 DEF ExtensionInv, StackSound
  <2>2. \A k \in plugged : wrapper[k] = "out" /\ ~called[k]
    <3>1. runs # 1
      BY <1>1
    <3>2. QED
      BY <2>1, <3>1 DEF Rests
  <2>3. QED
    BY <2>2 DEF ExtensionInv, StackSound
<1>8. \A k \in Slots : Rests(k)'
  BY <1>1, <1>2, <1>7 DEF Rests
<1>9. StackSound'
  BY <1>1, <1>2, <1>4, <1>6, <1>7, <1>8 DEF StackSound
<1>10. QED
  BY <1>5, <1>9 DEF ExtensionInv

\* Steps outside the call.
LEMMA CallRests ==
  ASSUME ExtensionInv, UNCHANGED <<harness, entry, plugged, callVars, runs, outcome, result>>,
         channel' = "loading" => channel = "loading",
         own' \in [Slots -> {"none", "pending", "fulfilled", "own", "passed"}], Observed'
  PROVE  ExtensionInv'
<1>1. UNCHANGED <<entry, plugged, at, ret, wrapper, called, threw, runs, outcome, result>>
  BY DEF callVars
<1>2. ExtensionTyped' /\ ValuesSound'
  BY <1>1 DEF ExtensionInv, ExtensionTyped, ValuesSound
<1>3. StackSound'
  BY <1>1 DEF ExtensionInv, StackSound, WaitsBelow, Rests
<1>4. QED
  BY <1>2, <1>3 DEF ExtensionInv

LEMMA OutsideSteps ==
  ASSUME ExtensionInv,
         \/ ComposeExtensions \/ HooksSettled \/ StopChannel \/ StepSettles
         \/ \E l \in Slots : HookEnds(l) \/ HookTimesOut(l)
  PROVE  ExtensionInv'
<1>1. /\ UNCHANGED <<harness, entry, plugged, callVars, runs, outcome, result, asyncVars>>
      /\ channel' = "loading" => channel = "loading"
  BY DEF ComposeExtensions, HooksSettled, StopChannel, StepSettles, HookEnds, HookTimesOut, hookVars, stepVars
<1>2. own' \in [Slots -> {"none", "pending", "fulfilled", "own", "passed"}]
  BY <1>1 DEF ExtensionInv, ExtensionTyped, asyncVars
<1>3. Observed'
  BY <1>1 DEF ExtensionInv, Observed, asyncVars, callVars
<1>4. QED
  BY <1>1, <1>2, <1>3, CallRests

LEMMA PromiseSettlesSound ==
  ASSUME ExtensionInv, NEW l \in Slots, PromiseSettles(l)
  PROVE  ExtensionInv'
<1>1. own \in [Slots -> {"none", "pending", "fulfilled", "own", "passed"}] /\ own[l] = "pending"
  BY DEF ExtensionInv, ExtensionTyped, PromiseSettles
<1>2. PICK how \in {"fulfilled", "own", "passed"} :
        /\ own' = [own EXCEPT ![l] = how]
        /\ unhandled' = IF how # "fulfilled" /\ l \notin watched THEN unhandled \cup {l} ELSE unhandled
  BY DEF PromiseSettles
<1>3. UNCHANGED <<harness, channel, entry, plugged, callVars, runs, outcome, result, watched>>
  BY DEF PromiseSettles, hookVars, stepVars
<1>4. /\ own' \in [Slots -> {"none", "pending", "fulfilled", "own", "passed"}]
      /\ \A k \in Slots : own'[k] = "pending" => own[k] = "pending"
  BY <1>1, <1>2
<1>5. Observed'
  BY <1>1, <1>2, <1>3, <1>4 DEF ExtensionInv, Observed, callVars
<1>6. QED
  BY <1>3, <1>4, <1>5, CallRests

LEMMA ExtensionInitSound ==
  ASSUME Entries \in Nat, ExtensionInit
  PROVE  ExtensionInv
<1>1. ExtensionTyped /\ ValuesSound /\ Observed
  BY DEF ExtensionInit, ExtensionTyped, ValuesSound, Observed, Returned
<1>2. StackSound
  BY DEF ExtensionInit, StackSound
<1>3. QED
  BY <1>1, <1>2 DEF ExtensionInv

\* Whatever the wrappers of any number of extensions do - call `run` again,
\* throw, swallow, return what they like - the step runs once, the plugin gets
\* what it did, and where promises are observed no rejection goes unhandled
\* (extensions.ts: guarded, once, observeWrapperPromise).
THEOREM ExtensionsStayHarmless == ExtensionSpec => []ExtensionsAreHarmless
<1>1. ExtensionInit => ExtensionInv
  BY ExtensionPointAssumption, ExtensionInitSound
<1>2. ExtensionInv /\ [ExtensionNext]_extensionVars => ExtensionInv'
  <2>1. SUFFICES ASSUME Entries \in Nat, ExtensionInv, [ExtensionNext]_extensionVars
                 PROVE  ExtensionInv'
    BY ExtensionPointAssumption
  <2>2. ASSUME UNCHANGED extensionVars PROVE ExtensionInv'
    <3>1. /\ UNCHANGED <<harness, channel, entry, plugged, callVars, runs, outcome, result>>
          /\ own' = own /\ watched' = watched /\ unhandled' = unhandled
      BY <2>2 DEF extensionVars, hookVars, stepVars, asyncVars
    <3>2. own' \in [Slots -> {"none", "pending", "fulfilled", "own", "passed"}]
      BY <2>1, <3>1 DEF ExtensionInv, ExtensionTyped
    <3>3. Observed'
      BY <2>1, <3>1 DEF ExtensionInv, Observed, callVars
    <3>4. QED
      BY <2>1, <3>1, <3>2, <3>3, CallRests
  <2>3. CASE \/ ComposeExtensions \/ HooksSettled \/ StopChannel \/ StepSettles
             \/ \E l \in Slots : HookEnds(l) \/ HookTimesOut(l)
    BY <2>1, <2>3, OutsideSteps
  <2>4. CASE LoadEntry \/ WrapAll \/ RunStep \/ PluginGets
    BY <2>1, <2>4, LoadEntrySound, WrapAllSound, RunStepSound, PluginGetsSound
  <2>5. ASSUME NEW l \in Slots, Once(l) PROVE ExtensionInv'
    BY <2>1, <2>2, <2>5, OnceSound
  <2>6. ASSUME NEW l \in Slots, ReturnTo(l) \/ WrapperThrows(l) \/ WrapperReturns(l) \/ PromiseSettles(l)
        PROVE  ExtensionInv'
    BY <2>1, <2>6, ReturnToSound, WrapperThrowsSound, WrapperReturnsSound, PromiseSettlesSound
  <2>7. QED
    BY <2>1, <2>2, <2>3, <2>4, <2>5, <2>6 DEF ExtensionNext
<1>3. ExtensionInv => ExtensionsAreHarmless
  BY DEF ExtensionInv, ExtensionTyped, ValuesSound, Observed, ExtensionsAreHarmless, StepRunsOnce,
         FailsOpen, NothingUnhandled
<1>4. QED
  BY <1>1, <1>2, <1>3, PTL DEF ExtensionSpec

(***************************************************************************)
(* The headless hosts: what a session holds is its own; a prompt that is   *)
(* not settled is held by a session that is not disposed of; the turn that *)
(* runs is the active one; an id has one session that lives.               *)
(***************************************************************************)

Dead  == {"closing", "stopping", "gone"}
Lives5 == Dead \cup {"none", "starting", "up", "failed"}
SessionType ==
  [id : Ids \cup {Nobody}, life : Lives5, queue : Seq(Requests), active : Requests \cup {Nobody},
   wake : BOOLEAN, expired : BOOLEAN, owed : SUBSET Requests]
RequestType ==
  [at : {"new", "staging", "waiting", "closed"}, to : Sessions \cup {Nobody},
   verdict : {"none", "stopped", "expired", "failed", "ok", "stale"}]

HeadlessTyped(ses, req, run) ==
  ses \in [Sessions -> SessionType] /\ req \in [Requests -> RequestType] /\ run \in SUBSET Requests

Holds(x) == ToSet(x.queue) \cup ({x.active} \ {Nobody})
Handled == {"waiting", "closed"}

\* What a session holds is its own; what is waiting and not settled is held by
\* a session that is not disposed of; the turn that runs is the active one.
Held(ses, req) ==
  \A s \in Sessions : \A r \in Holds(ses[s]) : req[r].to = s /\ req[r].at \in Handled
Lossy == host = "pi" /\ "pi" \in Attaching
Owed(ses, req) ==
  ~Lossy => \A r \in Requests : req[r].at = "waiting" /\ req[r].verdict = "none" =>
    req[r].to \in Sessions /\ ses[req[r].to].life \notin Dead /\ r \in Holds(ses[req[r].to])
Running(ses, req, run) ==
  /\ \A r \in run : /\ req[r].to \in Sessions /\ req[r].at \in Handled
                    /\ ses[req[r].to].life \notin Dead => ses[req[r].to].active = r
  /\ \A r, q \in run : req[r].to = req[q].to => r = q
OnlyStaged(req) ==
  \A r \in Requests : req[r].at = "staging" => host \in Attaching /\ req[r].to \in Sessions

PromptsSound(ses, req, run) ==
  /\ HeadlessTyped(ses, req, run)
  /\ Held(ses, req) /\ Owed(ses, req) /\ Running(ses, req, run) /\ OnlyStaged(req)

\* An id is being created or listed for the one session that lives under it.
Listed ==
  /\ sessions \in [Ids -> Sessions \cup {Nobody}] /\ creating \in SUBSET Ids
  /\ \A s \in Sessions : /\ session[s].life = "starting" => session[s].id \in creating
                         /\ session[s].life = "up" => /\ session[s].id \in Ids
                                                      /\ sessions[session[s].id] = s
  /\ \A s, t \in Sessions :
       (/\ session[s].life \in {"starting", "up"} /\ session[t].life \in {"starting", "up"}
        /\ session[s].id = session[t].id) => s = t

HeadlessInv == PromptsSound(session, request, running) /\ Listed /\ host \in Hosts

\* t is what is left of q after its first, and has l elements.
Shifted(q, t, l) ==
  DOMAIN q = 1..(l + 1) /\ DOMAIN t = 1..l /\ \A i \in 1..l : t[i] = q[i + 1]

LEMMA TailSet ==
  ASSUME NEW l \in Nat, NEW q, NEW t, Shifted(q, t, l)
  PROVE  ToSet(q) = {q[1]} \cup ToSet(t)
<1>0. DOMAIN q = 1..(l + 1) /\ DOMAIN t = 1..l /\ \A i \in 1..l : t[i] = q[i + 1]
  BY DEF Shifted
<1>1. ASSUME NEW i \in 1..(l + 1) PROVE q[i] \in {q[1]} \cup ToSet(t)
  <2>1. CASE i = 1
    BY <2>1
  <2>2. CASE i # 1
    <3>1. i - 1 \in 1..l /\ (i - 1) + 1 = i
      BY <1>1, <2>2
    <3>2. t[i - 1] = q[i]
      BY <1>0, <3>1
    <3>3. QED
      BY <1>0, <3>1, <3>2 DEF ToSet
  <2>3. QED
    BY <2>1, <2>2
<1>2. ASSUME NEW i \in 1..l PROVE t[i] \in ToSet(q)
  <2>1. i + 1 \in 1..(l + 1)
    BY <1>2
  <2>2. QED
    BY <1>0, <2>1 DEF ToSet
<1>3. q[1] \in ToSet(q)
  <2>1. 1 \in 1..(l + 1)
    OBVIOUS
  <2>2. QED
    BY <1>0, <2>1 DEF ToSet
<1>4. QED
  BY <1>0, <1>1, <1>2, <1>3 DEF ToSet

LEMMA ToSetFacts ==
  ASSUME NEW S, NEW q \in Seq(S)
  PROVE  /\ ToSet(q) \subseteq S
         /\ \A e \in S : Append(q, e) \in Seq(S) /\ ToSet(Append(q, e)) = ToSet(q) \cup {e}
         /\ q # <<>> => /\ Head(q) \in S /\ Tail(q) \in Seq(S)
                        /\ ToSet(q) = {Head(q)} \cup ToSet(Tail(q))
<1>1. ToSet(q) \subseteq S
  BY DEF ToSet
<1>2. ASSUME NEW e \in S PROVE Append(q, e) \in Seq(S) /\ ToSet(Append(q, e)) = ToSet(q) \cup {e}
  <2>1. /\ Append(q, e) \in Seq(S) /\ Len(q) \in Nat
        /\ DOMAIN q = 1..Len(q) /\ DOMAIN Append(q, e) = 1..(Len(q) + 1)
        /\ \A i \in DOMAIN q : Append(q, e)[i] = q[i]
        /\ Append(q, e)[Len(q) + 1] = e
    OBVIOUS
  <2>2. QED
    BY <2>1 DEF ToSet
<1>3. ASSUME q # <<>>
      PROVE  /\ Head(q) \in S /\ Tail(q) \in Seq(S)
             /\ ToSet(q) = {Head(q)} \cup ToSet(Tail(q))
  <2>1. /\ Len(q) \in Nat \ {0} /\ DOMAIN q = 1..Len(q) /\ DOMAIN Tail(q) = 1..(Len(q) - 1)
        /\ \A i \in 1..(Len(q) - 1) : Tail(q)[i] = q[i + 1]
        /\ Head(q) = q[1] /\ Head(q) \in S /\ Tail(q) \in Seq(S)
    BY <1>3
  <2>2. PICK l : l = Len(q) - 1
    OBVIOUS
  <2>3. l \in Nat /\ Len(q) = l + 1
    BY <2>1, <2>2
  <2>4. Shifted(q, Tail(q), l)
    BY <2>1, <2>2, <2>3 DEF Shifted
  <2>5. ToSet(q) = {q[1]} \cup ToSet(Tail(q))
    BY <2>3, <2>4, TailSet
  <2>6. QED
    BY <2>1, <2>5
<1>4. QED
  BY <1>1, <1>2, <1>3

LEMMA EmptyQueue ==
  ASSUME NEW S
  PROVE  <<>> \in Seq(S) /\ ToSet(<<>>) = {}
<1>1. DOMAIN <<>> = {}
  OBVIOUS
<1>2. QED
  BY <1>1 DEF ToSet

LEMMA PruneFacts ==
  ASSUME NEW S, NEW q \in Seq(S), NEW n \in Nat, n <= Len(q)
  PROVE  /\ SubSeq(q, n + 1, Len(q)) \in Seq(S)
         /\ ToSet(q) = ToSet(SubSeq(q, 1, n)) \cup ToSet(SubSeq(q, n + 1, Len(q)))
<1> DEFINE a == SubSeq(q, 1, n)
           b == SubSeq(q, n + 1, Len(q))
<1>1. PICK l \in Nat : l = Len(q) /\ DOMAIN q = 1..l
  OBVIOUS
<1>2. /\ DOMAIN a = 1..n /\ \A i \in 1..n : a[i] = q[i]
      /\ b \in Seq(S) /\ DOMAIN b = 1..(l - n) /\ \A i \in 1..(l - n) : b[i] = q[n + i]
  BY <1>1
<1> HIDE DEF a, b
<1>3. ASSUME NEW i \in 1..l PROVE i \in 1..n \/ (i - n \in 1..(l - n) /\ n + (i - n) = i)
  BY <1>3
<1>4. ToSet(q) \subseteq ToSet(a) \cup ToSet(b)
  <2>1. SUFFICES ASSUME NEW i \in 1..l PROVE q[i] \in ToSet(a) \cup ToSet(b)
    BY <1>1 DEF ToSet
  <2>2. CASE i \in 1..n
    BY <1>2, <2>2 DEF ToSet
  <2>3. CASE i - n \in 1..(l - n) /\ n + (i - n) = i
    BY <1>2, <2>3 DEF ToSet
  <2>4. QED
    BY <1>3, <2>2, <2>3
<1>5. ToSet(a) \subseteq ToSet(q) /\ ToSet(b) \subseteq ToSet(q)
  <2>1. \A i \in 1..n : i \in DOMAIN q
    BY <1>1
  <2>2. \A i \in 1..(l - n) : n + i \in DOMAIN q
    BY <1>1
  <2>3. QED
    BY <1>2, <2>1, <2>2 DEF ToSet
<1>6. QED
  BY <1>2, <1>4, <1>5 DEF a, b

LEMMA HoldsRequests ==
  ASSUME NEW x \in SessionType
  PROVE  Holds(x) \subseteq Requests
<1>1. x.queue \in Seq(Requests) /\ x.active \in Requests \cup {Nobody}
  BY DEF SessionType
<1>2. ToSet(x.queue) \subseteq Requests
  BY <1>1, ToSetFacts
<1>3. QED
  BY <1>1, <1>2 DEF Holds

\* What may happen to sessions, prompts and turns without a word about queues:
\* they let go of prompts that are settled, turns end, sessions die.
LetGo(ses, req, run, ses2, req2, run2) ==
  /\ ses2 \in [Sessions -> SessionType] /\ req2 \in [Requests -> RequestType]
  /\ run2 \subseteq run
  /\ \A u \in Sessions : /\ Holds(ses2[u]) \subseteq Holds(ses[u])
                         /\ ses2[u].life \notin Dead => ses[u].life \notin Dead
  /\ \A u \in Sessions : \A r \in run2 :
       req[r].to = u /\ ses2[u].life \notin Dead => ses2[u].active = ses[u].active
  /\ \A r \in Requests : /\ req2[r].to = req[r].to
                         /\ req2[r].at = req[r].at
                              \/ (req[r].at = "waiting" /\ req2[r].at = "closed")
  /\ \A r \in Requests : \A u \in Sessions :
       req2[r].at = "waiting" /\ req2[r].verdict = "none" /\ req[r].to = u /\ r \in Holds(ses[u]) =>
         /\ req[r].verdict = "none" /\ r \in Holds(ses2[u])
         /\ ses[u].life \notin Dead => ses2[u].life \notin Dead
  /\ \A r \in Requests : req2[r].at = "waiting" /\ req2[r].verdict = "none" => req[r].verdict = "none"

LEMMA LetGoSound ==
  ASSUME NEW ses, NEW req, NEW run, PromptsSound(ses, req, run),
         NEW ses2, NEW req2, NEW run2, LetGo(ses, req, run, ses2, req2, run2)
  PROVE  PromptsSound(ses2, req2, run2)
<1>1. /\ HeadlessTyped(ses, req, run) /\ Held(ses, req) /\ Owed(ses, req)
      /\ Running(ses, req, run) /\ OnlyStaged(req)
  BY DEF PromptsSound
<1>2. /\ ses \in [Sessions -> SessionType] /\ req \in [Requests -> RequestType] /\ run \subseteq Requests
  BY <1>1 DEF HeadlessTyped
<1>3. HeadlessTyped(ses2, req2, run2)
  BY <1>2 DEF LetGo, HeadlessTyped
<1>4. Held(ses2, req2)
  <2>1. SUFFICES ASSUME NEW s \in Sessions, NEW r \in Holds(ses2[s])
                 PROVE  req2[r].to = s /\ req2[r].at \in Handled
    BY DEF Held
  <2>2. r \in Holds(ses[s]) /\ r \in Requests
    BY <1>2, HoldsRequests DEF LetGo
  <2>3. req[r].to = s /\ req[r].at \in Handled
    BY <1>1, <2>2 DEF Held
  <2>4. QED
    BY <2>2, <2>3 DEF LetGo, Handled
<1>5. Owed(ses2, req2)
  <2>1. SUFFICES ASSUME ~Lossy, NEW r \in Requests, req2[r].at = "waiting", req2[r].verdict = "none"
                 PROVE  /\ req2[r].to \in Sessions /\ ses2[req2[r].to].life \notin Dead
                        /\ r \in Holds(ses2[req2[r].to])
    BY DEF Owed
  <2>2. req[r].at = "waiting" /\ req[r].verdict = "none" /\ req2[r].to = req[r].to
    BY <2>1 DEF LetGo
  <2>3. req[r].to \in Sessions /\ ses[req[r].to].life \notin Dead /\ r \in Holds(ses[req[r].to])
    BY <1>1, <2>1, <2>2 DEF Owed
  <2>4. QED
    BY <2>1, <2>2, <2>3 DEF LetGo
<1>6. Running(ses2, req2, run2)
  <2>1. \A r \in run2 : r \in run /\ r \in Requests
    BY <1>2 DEF LetGo
  <2>2. \A r \in run2 : req2[r].to = req[r].to /\ req2[r].at \in Handled
    BY <1>1, <2>1 DEF LetGo, Running, Handled
  <2>3. QED
    BY <1>1, <2>1, <2>2 DEF LetGo, Running
<1>7. OnlyStaged(req2)
  BY <1>1 DEF LetGo, OnlyStaged
<1>8. QED
  BY <1>3, <1>4, <1>5, <1>6, <1>7 DEF PromptsSound

\* The requests of a step that settles some of them.
AreSettled(S, v, req, req2) ==
  /\ v \in {"stopped", "expired", "failed", "ok", "stale"}
  /\ req2 = [r \in Requests |-> IF r \in S THEN [req[r] EXCEPT !.verdict = v] ELSE req[r]]

LEMMA VerdictOnly ==
  ASSUME NEW req \in [Requests -> RequestType], NEW S, NEW v, NEW req2, AreSettled(S, v, req, req2)
  PROVE  /\ req2 \in [Requests -> RequestType]
         /\ \A r \in Requests : /\ req2[r].to = req[r].to
                                /\ req2[r].at = req[r].at
                                /\ r \in S => req2[r].verdict = v
                                /\ r \notin S => req2[r] = req[r]
<1>1. ASSUME NEW r \in Requests
      PROVE  /\ req2[r] \in RequestType
             /\ req2[r].to = req[r].to /\ req2[r].at = req[r].at
             /\ r \in S => req2[r].verdict = v
             /\ r \notin S => req2[r] = req[r]
  <2>1. req[r] \in RequestType
    OBVIOUS
  <2>2. /\ req2[r] = IF r \in S THEN [req[r] EXCEPT !.verdict = v] ELSE req[r]
        /\ v \in {"stopped", "expired", "failed", "ok", "stale"}
    BY DEF AreSettled
  <2>3. QED
    BY <2>1, <2>2 DEF RequestType
<1>2. req2 \in [Requests -> RequestType]
  BY <1>1 DEF AreSettled
<1>3. QED
  BY <1>1, <1>2

\* drain() keeps it, of whatever is in the session's queue.
LEMMA DrainSound ==
  ASSUME HostsAssumption, session \in [Sessions -> SessionType],
         NEW s \in Sessions, NEW x \in SessionType, NEW req,
         PromptsSound([session EXCEPT ![s] = x], req, running), Drain(s, x, req)
  PROVE  /\ PromptsSound(session', request', running')
         /\ session'[s].life = x.life /\ session'[s].id = x.id
         /\ \A u \in Sessions \ {s} : session'[u] = session[u]
<1> DEFINE ses == [session EXCEPT ![s] = x]
<1>1. /\ HeadlessTyped(ses, req, running) /\ Held(ses, req) /\ Owed(ses, req)
      /\ Running(ses, req, running) /\ OnlyStaged(req)
      /\ ses[s] = x /\ \A u \in Sessions \ {s} : ses[u] = session[u]
  BY DEF PromptsSound
<1>2. x.queue \in Seq(Requests) /\ x.active \in Requests \cup {Nobody}
  BY DEF SessionType
<1>3. PICK q : q = x.queue
  OBVIOUS
<1>4. q \in Seq(Requests)
  BY <1>2, <1>3
<1>5. req \in [Requests -> RequestType] /\ running \in SUBSET Requests /\ ses \in [Sessions -> SessionType]
  BY <1>1 DEF HeadlessTyped
<1> HIDE DEF ses
<1>6. CASE x.life \in Dead \/ x.active # Nobody \/ x.queue = <<>>
  <2>1. /\ session' = ses /\ request' = [r \in Requests |-> req[r]] /\ running' = running
    BY <1>6 DEF Drain, AfterDrain, Dead, ses
  <2>2. request' = req
    BY <1>5, <2>1
  <2>3. QED
    BY <1>1, <2>1, <2>2 DEF PromptsSound
<1>7. CASE ~(x.life \in Dead \/ x.active # Nobody \/ x.queue = <<>>)
  <2>1. PICK h, rest : h = Head(q) /\ rest = Tail(q)
    OBVIOUS
  <2>2. q # <<>>
    BY <1>3, <1>7
  <2>3. h \in Requests /\ rest \in Seq(Requests) /\ ToSet(q) = {h} \cup ToSet(rest)
    BY <1>4, <2>1, <2>2, ToSetFacts
  <2>4. Holds(x) = {h} \cup ToSet(rest)
    BY <1>3, <1>7, <2>3 DEF Holds
  <2>5. req[h].to = s /\ req[h].at \in Handled
    BY <1>1, <2>4 DEF Held
  <2>6. CASE host = "claude" /\ x.expired
    <3>1. PICK w : w = (x.wake \/ rest # <<>>)
      OBVIOUS
    <3>2. /\ session' = [session EXCEPT ![s] = [x EXCEPT !.queue = rest, !.wake = w]]
          /\ request' = [r \in Requests |-> IF r = h THEN [req[r] EXCEPT !.verdict = "expired"] ELSE req[r]]
          /\ running' = running
      BY <1>3, <1>7, <2>1, <2>6, <3>1 DEF Drain, AfterDrain, Dead
    <3>3. w \in BOOLEAN
      BY <3>1
    <3>4. PICK y : y = [x EXCEPT !.queue = rest, !.wake = w]
      OBVIOUS
    <3>5. /\ y \in SessionType /\ y.queue = rest /\ y.active = x.active /\ y.life = x.life
          /\ y.id = x.id
      BY <2>3, <3>3, <3>4 DEF SessionType
    <3>6. /\ session' \in [Sessions -> SessionType] /\ session'[s] = y
          /\ \A u \in Sessions \ {s} : session'[u] = session[u]
      BY <3>2, <3>4, <3>5
    <3>7. AreSettled({h}, "expired", req, request')
      BY <3>2 DEF AreSettled
    <3>8. /\ request' \in [Requests -> RequestType]
          /\ \A r \in Requests : /\ request'[r].to = req[r].to
                                 /\ request'[r].at = req[r].at
                                 /\ r \in {h} => request'[r].verdict = "expired"
                                 /\ r \notin {h} => request'[r] = req[r]
      BY <1>5, <3>7, VerdictOnly
    <3>9. Holds(y) = ToSet(rest)
      BY <1>7, <3>5 DEF Holds
    <3>10. \A u \in Sessions : /\ Holds(session'[u]) \subseteq Holds(ses[u])
                               /\ session'[u].life = ses[u].life /\ session'[u].active = ses[u].active
      BY <1>1, <2>4, <3>5, <3>6, <3>9
    <3>11. \A r \in Requests \ {h}, u \in Sessions : r \in Holds(ses[u]) => r \in Holds(session'[u])
      BY <1>1, <2>4, <3>6, <3>9
    <3>12. LetGo(ses, req, running, session', request', running')
      BY <1>5, <3>2, <3>6, <3>8, <3>10, <3>11 DEF LetGo
    <3>13. PromptsSound(session', request', running')
      BY <1>1, <3>12, LetGoSound DEF PromptsSound
    <3>14. QED
      BY <3>5, <3>6, <3>13
  <2>7. CASE ~(host = "claude" /\ x.expired)
    <3>1. /\ session' = [session EXCEPT ![s] = [x EXCEPT !.queue = rest, !.active = h]]
          /\ request' = [r \in Requests |-> req[r]]
          /\ running' = running \cup {h}
      BY <1>3, <1>7, <2>1, <2>7 DEF Drain, AfterDrain, Dead
    <3>2. request' = req
      BY <1>5, <3>1
    <3>3. PICK y : y = [x EXCEPT !.queue = rest, !.active = h]
      OBVIOUS
    <3>4. /\ y \in SessionType /\ y.queue = rest /\ y.active = h /\ y.life = x.life /\ y.id = x.id
      BY <2>3, <3>3 DEF SessionType
    <3>5. /\ session' \in [Sessions -> SessionType] /\ session'[s] = y
          /\ \A u \in Sessions \ {s} : session'[u] = session[u]
      BY <3>1, <3>3, <3>4
    <3>6. HeadlessTyped(session', request', running')
      BY <1>5, <2>3, <3>1, <3>2, <3>5 DEF HeadlessTyped
    <3>7. Holds(y) = Holds(x)
      BY <2>3, <2>4, <3>4, HostsAssumption DEF Holds
    <3>8. Held(session', request')
      BY <1>1, <2>4, <3>2, <3>5, <3>7 DEF Held
    <3>9. Owed(session', request')
      BY <1>1, <3>2, <3>4, <3>5, <3>7 DEF Owed
    <3>10. \A r \in running : req[r].to # s
      BY <1>1, <1>5, <1>7, HostsAssumption DEF Running
    <3>11. Running(session', request', running')
      BY <1>1, <1>5, <2>5, <3>1, <3>2, <3>4, <3>5, <3>10 DEF Running
    <3>12. QED
      BY <1>1, <3>2, <3>4, <3>5, <3>6, <3>8, <3>9, <3>11 DEF PromptsSound
  <2>8. QED
    BY <2>6, <2>7
<1>8. QED
  BY <1>6, <1>7

\* A prompt that has not reached a queue is nobody's.
LEMMA NotHeldYet ==
  ASSUME NEW ses, NEW req, NEW run, PromptsSound(ses, req, run),
         NEW r \in Requests, req[r].at \in {"new", "staging"}
  PROVE  r \notin run /\ \A s \in Sessions : r \notin Holds(ses[s])
BY DEF PromptsSound, Held, Running, Handled

\* It is queued by a session that is not disposed of.
LEMMA EnqueueSound ==
  ASSUME HostsAssumption, PromptsSound(session, request, running),
         NEW s \in Sessions, NEW r \in Requests, request[r].at \in {"new", "staging"},
         session[s].life \notin Dead \/ Lossy, Enqueue(r, s)
  PROVE  /\ PromptsSound(session', request', running')
         /\ \A u \in Sessions : session'[u].life = session[u].life /\ session'[u].id = session[u].id
<1>1. /\ session \in [Sessions -> SessionType] /\ request \in [Requests -> RequestType]
      /\ running \subseteq Requests
      /\ Held(session, request) /\ Owed(session, request) /\ Running(session, request, running)
      /\ OnlyStaged(request)
  BY DEF PromptsSound, HeadlessTyped
<1>2. PICK x, req : /\ x = [session[s] EXCEPT !.queue = Append(@, r)]
                    /\ req = [request EXCEPT ![r] = [at |-> "waiting", to |-> s, verdict |-> "none"]]
  OBVIOUS
<1>3. Drain(s, x, req)
  BY <1>2 DEF Enqueue
<1>4. /\ session[s].queue \in Seq(Requests)
      /\ x = [session[s] EXCEPT !.queue = Append(session[s].queue, r)]
  BY <1>1, <1>2 DEF SessionType
<1>5. /\ Append(session[s].queue, r) \in Seq(Requests)
      /\ ToSet(Append(session[s].queue, r)) = ToSet(session[s].queue) \cup {r}
  BY <1>4, ToSetFacts
<1>6. PICK q : q = Append(session[s].queue, r)
  OBVIOUS
<1>7. /\ x \in SessionType /\ x.queue = q /\ x.active = session[s].active
      /\ x.life = session[s].life /\ x.id = session[s].id
  <2>1. q \in Seq(Requests) /\ x = [session[s] EXCEPT !.queue = q] /\ session[s] \in SessionType
    BY <1>1, <1>4, <1>5, <1>6
  <2>2. QED
    BY <2>1 DEF SessionType
<1>8. Holds(x) = Holds(session[s]) \cup {r}
  BY <1>5, <1>6, <1>7 DEF Holds
<1>9. PICK ses : ses = [session EXCEPT ![s] = x]
  OBVIOUS
<1>10. ses \in [Sessions -> SessionType] /\ ses[s] = x /\ \A u \in Sessions \ {s} : ses[u] = session[u]
  BY <1>1, <1>7, <1>9
<1>11. /\ req \in [Requests -> RequestType]
       /\ req[r].at = "waiting" /\ req[r].to = s
       /\ \A o \in Requests \ {r} : req[o] = request[o]
  BY <1>1, <1>2 DEF RequestType
<1>12. r \notin running /\ \A u \in Sessions : r \notin Holds(session[u])
  BY NotHeldYet
<1>13. \A u \in Sessions : Holds(session[u]) \subseteq Requests
  BY <1>1, HoldsRequests
<1>14. PromptsSound(ses, req, running)
  <2>1. HeadlessTyped(ses, req, running)
    BY <1>1, <1>10, <1>11 DEF HeadlessTyped
  <2>2. Held(ses, req)
    <3>1. SUFFICES ASSUME NEW u \in Sessions, NEW o \in Holds(ses[u])
                   PROVE  req[o].to = u /\ req[o].at \in Handled
      BY DEF Held
    <3>2. CASE o = r
      BY <1>8, <1>10, <1>11, <1>12, <3>2 DEF Handled
    <3>3. CASE o # r
      <4>1. o \in Holds(session[u]) /\ o \in Requests
        BY <1>8, <1>10, <1>13, <3>3
      <4>2. QED
        BY <1>1, <1>11, <3>3, <4>1 DEF Held
    <3>4. QED
      BY <3>2, <3>3
  <2>3. Owed(ses, req)
    <3>1. SUFFICES ASSUME ~Lossy, NEW o \in Requests, req[o].at = "waiting", req[o].verdict = "none"
                   PROVE  /\ req[o].to \in Sessions /\ ses[req[o].to].life \notin Dead
                          /\ o \in Holds(ses[req[o].to])
      BY DEF Owed
    <3>2. CASE o = r
      BY <1>7, <1>8, <1>10, <1>11, <3>1, <3>2
    <3>3. CASE o # r
      <4>1. /\ request[o].to \in Sessions /\ session[request[o].to].life \notin Dead
            /\ o \in Holds(session[request[o].to]) /\ req[o] = request[o]
        BY <1>1, <1>11, <3>1, <3>3 DEF Owed
      <4>2. QED
        BY <1>7, <1>8, <1>10, <4>1
    <3>4. QED
      BY <3>2, <3>3
  <2>4. Running(ses, req, running)
    <3>1. \A o \in running : req[o] = request[o]
      BY <1>1, <1>11, <1>12
    <3>2. \A u \in Sessions : ses[u].life = session[u].life /\ ses[u].active = session[u].active
      BY <1>7, <1>10
    <3>3. QED
      BY <1>1, <3>1, <3>2 DEF Running
  <2>5. OnlyStaged(req)
    BY <1>1, <1>11 DEF OnlyStaged
  <2>6. QED
    BY <2>1, <2>2, <2>3, <2>4, <2>5 DEF PromptsSound
<1>15. /\ PromptsSound(session', request', running')
       /\ session'[s].life = x.life /\ session'[s].id = x.id
       /\ \A u \in Sessions \ {s} : session'[u] = session[u]
  BY <1>1, <1>3, <1>7, <1>9, <1>14, DrainSound
<1>16. QED
  BY <1>7, <1>15

\* It is refused, or its attachments are being written.
LEMMA OutsideSound ==
  ASSUME PromptsSound(session, request, running), NEW r \in Requests, request[r].at \in {"new", "staging"},
         NEW z \in RequestType, z.to \in Sessions, z.at = "closed" \/ (z.at = "staging" /\ host \in Attaching),
         request' = [request EXCEPT ![r] = z]
  PROVE  PromptsSound(session, request', running)
<1>1. /\ session \in [Sessions -> SessionType] /\ request \in [Requests -> RequestType]
      /\ running \subseteq Requests
      /\ Held(session, request) /\ Owed(session, request) /\ Running(session, request, running)
      /\ OnlyStaged(request)
  BY DEF PromptsSound, HeadlessTyped
<1>2. /\ request' \in [Requests -> RequestType] /\ request'[r] = z
      /\ \A o \in Requests \ {r} : request'[o] = request[o]
  BY <1>1
<1>3. r \notin running /\ \A u \in Sessions : r \notin Holds(session[u])
  BY NotHeldYet
<1>4. \A u \in Sessions : Holds(session[u]) \subseteq Requests
  BY <1>1, HoldsRequests
<1>5. HeadlessTyped(session, request', running)
  BY <1>1, <1>2 DEF HeadlessTyped
<1>6. Held(session, request')
  <2>1. \A u \in Sessions : \A o \in Holds(session[u]) : request'[o] = request[o]
    BY <1>2, <1>3, <1>4
  <2>2. QED
    BY <1>1, <2>1 DEF Held
<1>7. Owed(session, request')
  BY <1>1, <1>2 DEF Owed
<1>8. Running(session, request', running)
  <2>1. \A o \in running : request'[o] = request[o]
    BY <1>1, <1>2, <1>3
  <2>2. QED
    BY <1>1, <2>1 DEF Running
<1>9. OnlyStaged(request')
  BY <1>1, <1>2 DEF OnlyStaged
<1>10. QED
  BY <1>5, <1>6, <1>7, <1>8, <1>9 DEF PromptsSound

LEMMA RefusedSound ==
  ASSUME PromptsSound(session, request, running), NEW r \in Requests, request[r].at \in {"new", "staging"},
         NEW s \in Sessions, NEW why \in {"stopped", "expired", "failed"}, Refused(r, s, why)
  PROVE  PromptsSound(session', request', running') /\ session' = session
<1>1. PICK z : z = [at |-> "closed", to |-> s, verdict |-> why]
  OBVIOUS
<1>2. z \in RequestType /\ z.to \in Sessions /\ z.at = "closed"
  BY <1>1 DEF RequestType
<1>3. request' = [request EXCEPT ![r] = z] /\ session' = session /\ running' = running
  BY <1>1 DEF Refused
<1>4. PromptsSound(session, request', running)
  BY <1>2, <1>3, OutsideSound
<1>5. QED
  BY <1>3, <1>4

\* What the manager sees of a session: who lives under which id.
Fewer(ses, ses2) ==
  \A u \in Sessions : ses2[u].life \in {"starting", "up"} =>
    ses2[u].life = ses[u].life /\ ses2[u].id = ses[u].id

LEMMA ArriveSound ==
  ASSUME HostsAssumption, PromptsSound(session, request, running),
         NEW r \in Requests, NEW s \in Sessions, Arrive(r, s)
  PROVE  PromptsSound(session', request', running') /\ Fewer(session, session')
<1>1. request[r].at \in {"new", "staging"}
  BY DEF Arrive
<1>2. CASE RefuseOrElse(r, s, Enqueue(r, s))
  <2>1. CASE Refused(r, s, "stopped") \/ Refused(r, s, "expired")
    BY <1>1, <2>1, RefusedSound DEF Fewer
  <2>2. CASE ~Disposed(s) /\ Enqueue(r, s)
    <3>1. session[s].life \notin Dead
      BY <2>2 DEF Disposed, Dead
    <3>2. QED
      BY <1>1, <2>2, <3>1, EnqueueSound DEF Fewer
  <2>3. QED
    BY <1>2, <2>1, <2>2 DEF RefuseOrElse
<1>3. CASE ~ RefuseOrElse(r, s, Enqueue(r, s))
  <2>1. PICK z : z = [at |-> "staging", to |-> s, verdict |-> "none"]
    OBVIOUS
  <2>2. z \in RequestType /\ z.to \in Sessions /\ z.at = "staging"
    BY <2>1 DEF RequestType
  <2>3. \/ Refused(r, s, "stopped") \/ Refused(r, s, "expired")
        \/ host \in Attaching /\ request' = [request EXCEPT ![r] = z] /\ UNCHANGED <<session, running>>
    BY <1>3, <2>1 DEF Arrive, RefuseOrElse
  <2>4. CASE Refused(r, s, "stopped") \/ Refused(r, s, "expired")
    BY <1>1, <2>4, RefusedSound DEF Fewer
  <2>5. CASE host \in Attaching /\ request' = [request EXCEPT ![r] = z] /\ UNCHANGED <<session, running>>
    <3>1. PromptsSound(session, request', running)
      BY <1>1, <2>2, <2>5, OutsideSound
    <3>2. QED
      BY <2>5, <3>1 DEF Fewer
  <2>6. QED
    BY <2>3, <2>4, <2>5
<1>4. QED
  BY <1>2, <1>3

\* The PI host does not ask again whether the session lives.
LEMMA StagedSound ==
  ASSUME HostsAssumption, host \in Hosts,
         PromptsSound(session, request, running), NEW r \in Requests, Staged(r) \/ StagingFails(r)
  PROVE  PromptsSound(session', request', running') /\ Fewer(session, session')
<1>1. PICK s : s = request[r].to
  OBVIOUS
<1>2. request[r].at = "staging" /\ host \in Attaching /\ s \in Sessions
  BY <1>1 DEF Staged, StagingFails, PromptsSound, OnlyStaged
<1>3. \/ Refused(r, s, "failed") \/ RefuseOrElse(r, s, Enqueue(r, s))
      \/ Enqueue(r, s) /\ Lossy
  BY <1>1, <1>2 DEF Staged, StagingFails, HostsAssumption, Lossy
<1>4. CASE Refused(r, s, "failed") \/ Refused(r, s, "stopped") \/ Refused(r, s, "expired")
  BY <1>2, <1>4, RefusedSound DEF Fewer
<1>5. CASE ~Disposed(s) /\ Enqueue(r, s)
  <2>1. session[s].life \notin Dead
    BY <1>5 DEF Disposed, Dead
  <2>2. QED
    BY <1>2, <1>5, <2>1, EnqueueSound DEF Fewer
<1>6. CASE Enqueue(r, s) /\ Lossy
  BY <1>2, <1>6, EnqueueSound DEF Fewer
<1>7. QED
  BY <1>3, <1>4, <1>5, <1>6 DEF RefuseOrElse

\* The sessions of a step that moves neither queues nor turns.
LEMMA SessionsAlike ==
  ASSUME NEW ses, NEW req, NEW run, PromptsSound(ses, req, run),
         NEW ses2 \in [Sessions -> SessionType],
         \A s \in Sessions : /\ ses2[s].queue = ses[s].queue /\ ses2[s].active = ses[s].active
                             /\ ses2[s].life \in Dead <=> ses[s].life \in Dead
  PROVE  PromptsSound(ses2, req, run)
<1>1. \A s \in Sessions : Holds(ses2[s]) = Holds(ses[s])
  BY DEF Holds
<1>2. LetGo(ses, req, run, ses2, req, run)
  BY <1>1 DEF LetGo, PromptsSound, HeadlessTyped
<1>3. QED
  BY <1>2, LetGoSound

\* A turn ends.
LEMMA TurnEndsSound ==
  ASSUME HostsAssumption, PromptsSound(session, request, running), NEW r \in Requests,
         NEW verdict \in {"ok", "failed"}, TurnEnds(r, verdict)
  PROVE  PromptsSound(session', request', running') /\ Fewer(session, session')
<1>1. /\ session \in [Sessions -> SessionType] /\ request \in [Requests -> RequestType]
      /\ running \subseteq Requests /\ Running(session, request, running)
  BY DEF PromptsSound, HeadlessTyped
<1>2. PICK s : s = request[r].to
  OBVIOUS
<1>3. r \in running /\ running' = running \ {r} /\ s \in Sessions
  BY <1>1, <1>2 DEF TurnEnds, Running
<1>4. PICK w : w = (session[s].wake \/ (~Disposed(s) /\ session[s].queue # <<>>))
  OBVIOUS
<1>5. PICK a : a = IF session[s].active = r THEN Nobody ELSE session[s].active
  OBVIOUS
<1>6. PICK y : y = [session[s] EXCEPT !.active = a, !.wake = w]
  OBVIOUS
<1>7. session' = [session EXCEPT ![s] = y]
  BY <1>2, <1>4, <1>5, <1>6 DEF TurnEnds, TurnEnded
<1>8. /\ y \in SessionType /\ y.queue = session[s].queue /\ y.active = a /\ y.life = session[s].life
      /\ y.id = session[s].id
  <2>1. session[s] \in SessionType /\ w \in BOOLEAN
    BY <1>1, <1>3, <1>4
  <2>2. a \in Requests \cup {Nobody}
    BY <1>5, <2>1 DEF SessionType
  <2>3. QED
    BY <1>6, <2>1, <2>2 DEF SessionType
<1>9. /\ session' \in [Sessions -> SessionType] /\ session'[s] = y
      /\ \A u \in Sessions \ {s} : session'[u] = session[u]
  BY <1>1, <1>3, <1>7, <1>8
<1>10. /\ Holds(y) \subseteq Holds(session[s])
       /\ \A o \in Holds(session[s]) \ {r} : o \in Holds(y)
  BY <1>5, <1>8 DEF Holds
<1>11. PICK S : S = IF Settled(r) THEN {} ELSE {r}
  OBVIOUS
<1>12. AreSettled(S, verdict, request, request')
  <2>1. CASE Settled(r)
    <3>1. request' = request /\ S = {}
      BY <1>11, <2>1 DEF TurnEnds
    <3>2. QED
      BY <1>1, <3>1 DEF AreSettled
  <2>2. CASE ~Settled(r)
    <3>1. request' = [request EXCEPT ![r].verdict = verdict] /\ S = {r}
      BY <1>11, <2>2 DEF TurnEnds
    <3>2. QED
      BY <1>1, <3>1 DEF AreSettled
  <2>3. QED
    BY <2>1, <2>2
<1>13. /\ request' \in [Requests -> RequestType]
       /\ \A o \in Requests : /\ request'[o].to = request[o].to
                              /\ request'[o].at = request[o].at
                              /\ o \in S => request'[o].verdict = verdict
                              /\ o \notin S => request'[o] = request[o]
  BY <1>1, <1>12, VerdictOnly
<1>14. request'[r].verdict # "none"
  BY <1>11, <1>13 DEF Settled
<1>15. \A o \in Requests : request'[o].verdict = "none" => request[o].verdict = "none" /\ o # r
  BY <1>13, <1>14
<1>16. \A u \in Sessions : /\ Holds(session'[u]) \subseteq Holds(session[u])
                           /\ session'[u].life = session[u].life /\ session'[u].id = session[u].id
                           /\ \A o \in Holds(session[u]) \ {r} : o \in Holds(session'[u])
  BY <1>8, <1>9, <1>10
<1>17. \A u \in Sessions : \A o \in running' : request[o].to = u => session'[u].active = session[u].active
  BY <1>1, <1>2, <1>3, <1>9 DEF Running
<1>18. LetGo(session, request, running, session', request', running')
  BY <1>3, <1>9, <1>13, <1>15, <1>16, <1>17 DEF LetGo
<1>19. QED
  BY <1>16, <1>18, LetGoSound DEF Fewer

\* setImmediate looks at the queue again.
LEMMA WakeSound ==
  ASSUME HostsAssumption, PromptsSound(session, request, running), NEW s \in Sessions, Wake(s)
  PROVE  PromptsSound(session', request', running') /\ Fewer(session, session')
<1>1. session \in [Sessions -> SessionType] /\ session[s] \in SessionType
  BY DEF PromptsSound, HeadlessTyped
<1>2. PICK x : x = [session[s] EXCEPT !.wake = FALSE]
  OBVIOUS
<1>3. /\ x \in SessionType /\ x.queue = session[s].queue /\ x.active = session[s].active
      /\ x.life = session[s].life /\ x.id = session[s].id
  BY <1>1, <1>2 DEF SessionType
<1>4. PICK ses : ses = [session EXCEPT ![s] = x]
  OBVIOUS
<1>5. ses \in [Sessions -> SessionType] /\ ses[s] = x /\ \A u \in Sessions \ {s} : ses[u] = session[u]
  BY <1>1, <1>3, <1>4
<1>6. \A u \in Sessions : ses[u].queue = session[u].queue /\ ses[u].active = session[u].active
                          /\ ses[u].life = session[u].life
  BY <1>3, <1>5
<1>7. PromptsSound(ses, request, running)
  BY <1>5, <1>6, SessionsAlike
<1>8. Drain(s, x, request)
  BY <1>2 DEF Wake
<1>9. /\ PromptsSound(session', request', running')
      /\ session'[s].life = x.life /\ session'[s].id = x.id
      /\ \A u \in Sessions \ {s} : session'[u] = session[u]
  BY <1>1, <1>3, <1>4, <1>7, <1>8, DrainSound
<1>10. QED
  BY <1>3, <1>9 DEF Fewer

\* The handler of a settled request ends.
LEMMA HandlerClosesSound ==
  ASSUME PromptsSound(session, request, running), NEW r \in Requests, HandlerCloses(r)
  PROVE  PromptsSound(session', request', running') /\ Fewer(session, session')
<1>1. /\ session \in [Sessions -> SessionType] /\ request \in [Requests -> RequestType]
      /\ session' = session /\ running' = running
  BY DEF PromptsSound, HeadlessTyped, HandlerCloses
<1>2. request[r].at = "waiting" /\ request' = [request EXCEPT ![r].at = "closed"] /\ request[r] \in RequestType
  BY <1>1 DEF HandlerCloses
<1>3. PICK z : z = [request[r] EXCEPT !.at = "closed"]
  OBVIOUS
<1>4. z \in RequestType /\ z.at = "closed" /\ z.to = request[r].to /\ z.verdict = request[r].verdict
  BY <1>2, <1>3 DEF RequestType
<1>5. /\ request' \in [Requests -> RequestType] /\ request'[r] = z
      /\ \A o \in Requests \ {r} : request'[o] = request[o]
  BY <1>1, <1>2, <1>3, <1>4
<1>6. LetGo(session, request, running, session', request', running')
  BY <1>1, <1>2, <1>4, <1>5 DEF LetGo
<1>7. QED
  BY <1>1, <1>6, LetGoSound DEF Fewer

\* dispose() settles what it takes out of the queue.
LEMMA DisposeAllSound ==
  ASSUME HostsAssumption, PromptsSound(session, request, running), NEW these \in SUBSET Sessions, DisposeAll(these)
  PROVE  /\ PromptsSound(session', request', running') /\ Fewer(session, session')
         /\ \A s \in Sessions : session'[s].life \in {"starting", "up"} => s \notin these
<1>1. /\ session \in [Sessions -> SessionType] /\ request \in [Requests -> RequestType]
      /\ running' = running
  BY DEF PromptsSound, HeadlessTyped, DisposeAll
<1>2. \A s \in Sessions : Pending(s) = Holds(session[s]) /\ Holds(session[s]) \subseteq Requests
  BY <1>1, HoldsRequests DEF Pending, Holds
<1>3. ASSUME NEW s \in Sessions
      PROVE  /\ session'[s] \in SessionType
             /\ s \notin these => session'[s] = session[s]
             /\ s \in these => session'[s].life = "closing"
             /\ Holds(session'[s]) \subseteq Holds(session[s])
  <2>1. CASE s \notin these
    <3>1. session'[s] = session[s]
      BY <2>1 DEF DisposeAll
    <3>2. QED
      BY <1>1, <2>1, <3>1
  <2>2. CASE s \in these
    <3>1. PICK o, a : o = Pending(s) /\ a = IF host = "pi" THEN Nobody ELSE session[s].active
      OBVIOUS
    <3>2. session'[s] = [session[s] EXCEPT !.life = "closing", !.queue = <<>>, !.owed = o, !.active = a]
      BY <2>2, <3>1 DEF DisposeAll
    <3>3. session[s] \in SessionType /\ o \in SUBSET Requests
      BY <1>1, <1>2, <3>1
    <3>4. a \in Requests \cup {Nobody} /\ a \in {Nobody, session[s].active}
      BY <3>1, <3>3 DEF SessionType
    <3>5. PICK e : e = <<>> /\ e \in Seq(Requests) /\ ToSet(e) = {}
      BY EmptyQueue
    <3>6. PICK y : y = session'[s]
      OBVIOUS
    <3>7. y = [session[s] EXCEPT !.life = "closing", !.queue = e, !.owed = o, !.active = a]
      BY <3>2, <3>5, <3>6
    <3>8. y \in SessionType /\ y.life = "closing" /\ y.queue = e /\ y.active = a
      BY <3>3, <3>4, <3>5, <3>7 DEF SessionType, Lives5, Dead
    <3>9. Holds(y) \subseteq Holds(session[s])
      BY <3>4, <3>5, <3>8 DEF Holds
    <3>10. QED
      BY <2>2, <3>6, <3>8, <3>9
  <2>3. QED
    BY <2>1, <2>2
<1>4. session' \in [Sessions -> SessionType]
  BY <1>3 DEF DisposeAll
<1>5. PICK S : S = {r \in Requests : ~Settled(r) /\ \E s \in these : r \in Pending(s)}
  OBVIOUS
<1>6. AreSettled(S, "stopped", request, request')
  BY <1>5 DEF DisposeAll, AreSettled
<1>7. /\ request' \in [Requests -> RequestType]
      /\ \A r \in Requests : /\ request'[r].to = request[r].to
                             /\ request'[r].at = request[r].at
                             /\ r \in S => request'[r].verdict = "stopped"
                             /\ r \notin S => request'[r] = request[r]
  BY <1>1, <1>6, VerdictOnly
<1>8. \A r \in Requests : request'[r].verdict = "none" =>
        request[r].verdict = "none" /\ \A s \in these : r \notin Holds(session[s])
  BY <1>2, <1>5, <1>7 DEF Settled
<1>9. LetGo(session, request, running, session', request', running')
  BY <1>1, <1>3, <1>4, <1>7, <1>8 DEF LetGo, Dead
<1>10. QED
  BY <1>3, <1>9, LetGoSound DEF Fewer

\* pruneStale() rejects what it takes out of the queue.
LEMMA PruneSound ==
  ASSUME HostsAssumption, PromptsSound(session, request, running), NEW s \in Sessions, NEW n \in Nat,
         PruneStale(s, n)
  PROVE  PromptsSound(session', request', running') /\ Fewer(session, session')
<1>1. /\ session \in [Sessions -> SessionType] /\ request \in [Requests -> RequestType]
      /\ running' = running /\ session[s] \in SessionType
  BY DEF PromptsSound, HeadlessTyped, PruneStale
<1>2. session[s].queue \in Seq(Requests) /\ n <= Len(session[s].queue)
  BY <1>1 DEF SessionType, PruneStale
<1>3. PICK old, rest : /\ old = ToSet(SubSeq(session[s].queue, 1, n))
                       /\ rest = SubSeq(session[s].queue, n + 1, Len(session[s].queue))
  OBVIOUS
<1>4. rest \in Seq(Requests) /\ ToSet(session[s].queue) = old \cup ToSet(rest)
  BY <1>2, <1>3, PruneFacts
<1>5. PICK y : y = [session[s] EXCEPT !.queue = rest]
  OBVIOUS
<1>6. /\ session' = [session EXCEPT ![s] = y]
      /\ request' = [r \in Requests |->
                       IF r \in old THEN [request[r] EXCEPT !.verdict = "stale"] ELSE request[r]]
  BY <1>3, <1>5 DEF PruneStale
<1>7. /\ y \in SessionType /\ y.queue = rest /\ y.active = session[s].active
      /\ y.life = session[s].life /\ y.id = session[s].id
  BY <1>1, <1>4, <1>5 DEF SessionType
<1>8. Holds(y) \subseteq Holds(session[s]) /\ Holds(session[s]) \subseteq Holds(y) \cup old
  BY <1>4, <1>7 DEF Holds
<1>9. AreSettled(old, "stale", request, request')
  BY <1>6 DEF AreSettled
<1>10. /\ request' \in [Requests -> RequestType]
       /\ \A r \in Requests : /\ request'[r].to = request[r].to
                              /\ request'[r].at = request[r].at
                              /\ r \in old => request'[r].verdict = "stale"
                              /\ r \notin old => request'[r] = request[r]
  BY <1>1, <1>9, VerdictOnly
<1>11. /\ session' \in [Sessions -> SessionType] /\ session'[s] = y
       /\ \A u \in Sessions \ {s} : session'[u] = session[u]
  BY <1>1, <1>6, <1>7
<1>12. \A u \in Sessions : /\ Holds(session'[u]) \subseteq Holds(session[u])
                           /\ Holds(session[u]) \subseteq Holds(session'[u]) \cup old
                           /\ session'[u].active = session[u].active
                           /\ session'[u].life = session[u].life /\ session'[u].id = session[u].id
  BY <1>7, <1>8, <1>11
<1>13. \A r \in Requests : request'[r].verdict = "none" => request[r].verdict = "none" /\ r \notin old
  BY <1>10
<1>14. LetGo(session, request, running, session', request', running')
  BY <1>1, <1>10, <1>11, <1>12, <1>13 DEF LetGo
<1>15. QED
  BY <1>12, <1>14, LetGoSound DEF Fewer

\* Steps of one session's life.
LifeStep(s, i, life, expired) ==
  /\ i \in Ids \cup {Nobody} /\ life \in Lives5 /\ expired \in BOOLEAN
  /\ life \in Dead <=> session[s].life \in Dead
  /\ session' = [session EXCEPT ![s] = [session[s] EXCEPT !.id = i, !.life = life, !.expired = expired]]
  /\ request' = request /\ running' = running

LEMMA LifeSound ==
  ASSUME PromptsSound(session, request, running), NEW s \in Sessions,
         NEW i, NEW life, NEW expired, LifeStep(s, i, life, expired)
  PROVE  /\ PromptsSound(session', request', running')
         /\ session'[s].life = life /\ session'[s].id = i
         /\ \A u \in Sessions \ {s} : session'[u] = session[u]
<1>1. session \in [Sessions -> SessionType] /\ session[s] \in SessionType
  BY DEF PromptsSound, HeadlessTyped
<1>2. PICK y : y = [session[s] EXCEPT !.id = i, !.life = life, !.expired = expired]
  OBVIOUS
<1>3. /\ y \in SessionType /\ y.queue = session[s].queue /\ y.active = session[s].active
      /\ y.life = life /\ y.id = i
  BY <1>1, <1>2 DEF SessionType, LifeStep
<1>4. /\ session' \in [Sessions -> SessionType] /\ session'[s] = y
      /\ \A u \in Sessions \ {s} : session'[u] = session[u]
  BY <1>1, <1>2, <1>3 DEF LifeStep
<1>5. \A u \in Sessions : /\ session'[u].queue = session[u].queue /\ session'[u].active = session[u].active
                          /\ session'[u].life \in Dead <=> session[u].life \in Dead
  BY <1>3, <1>4 DEF LifeStep
<1>6. PromptsSound(session', request, running)
  BY <1>4, <1>5, SessionsAlike
<1>7. QED
  BY <1>3, <1>4, <1>6 DEF LifeStep

\* The manager's lists need no more when no session comes to life.
LEMMA ListedKept ==
  ASSUME Listed, Fewer(session, session'),
         sessions' \in [Ids -> Sessions \cup {Nobody}], creating' \in SUBSET Ids,
         \A s \in Sessions : /\ session'[s].life = "starting" => session[s].id \in creating'
                             /\ session'[s].life = "up" => sessions'[session[s].id] = sessions[session[s].id]
  PROVE  Listed'
<1>1. ASSUME NEW s \in Sessions
      PROVE  /\ session'[s].life = "starting" => session'[s].id \in creating'
             /\ session'[s].life = "up" => session'[s].id \in Ids /\ sessions'[session'[s].id] = s
  BY <1>1 DEF Listed, Fewer
<1>2. ASSUME NEW s \in Sessions, NEW t \in Sessions, session'[s].life \in {"starting", "up"},
             session'[t].life \in {"starting", "up"}, session'[s].id = session'[t].id
      PROVE  s = t
  BY <1>2 DEF Listed, Fewer
<1>3. QED
  BY <1>1, <1>2 DEF Listed

LEMMA UnlistSound ==
  ASSUME HostsAssumption, Listed, NEW these \in SUBSET Sessions, Unlist(these), UNCHANGED creating,
         Fewer(session, session'),
         \A s \in Sessions : session'[s].life \in {"starting", "up"} => s \notin these
  PROVE  Listed'
<1>1. sessions \in [Ids -> Sessions \cup {Nobody}] /\ creating \in SUBSET Ids
  BY DEF Listed
<1>2. sessions' \in [Ids -> Sessions \cup {Nobody}]
  BY <1>1 DEF Unlist
<1>3. ASSUME NEW s \in Sessions
      PROVE  /\ session'[s].life = "starting" => session[s].id \in creating'
             /\ session'[s].life = "up" => sessions'[session[s].id] = sessions[session[s].id]
  <2>1. CASE session'[s].life = "starting"
    BY <2>1 DEF Listed, Fewer
  <2>2. CASE session'[s].life = "up"
    <3>1. session[s].id \in Ids /\ sessions[session[s].id] = s /\ s \notin these
      BY <2>2 DEF Listed, Fewer
    <3>2. QED
      BY <2>2, <3>1 DEF Unlist
  <2>3. QED
    BY <2>1, <2>2
<1>4. QED
  BY <1>1, <1>2, <1>3, ListedKept

LEMMA SpawnSound ==
  ASSUME HostsAssumption, PromptsSound(session, request, running), Listed,
         NEW s \in Sessions, NEW i \in Ids, Spawn(s, i)
  PROVE  PromptsSound(session', request', running') /\ Listed'
<1>1. session \in [Sessions -> SessionType] /\ session[s] \in SessionType
  BY DEF PromptsSound, HeadlessTyped
<1>2. LifeStep(s, i, "starting", session[s].expired)
  BY <1>1 DEF Spawn, SessionType, LifeStep, Lives5, Dead
<1>3. /\ PromptsSound(session', request', running')
      /\ session'[s].life = "starting" /\ session'[s].id = i
      /\ \A u \in Sessions \ {s} : session'[u] = session[u]
  BY <1>2, LifeSound
<1>4. /\ creating' = creating \cup {i} /\ sessions' = sessions /\ sessions[i] = Nobody /\ i \notin creating
  BY DEF Spawn
<1>5. \A u \in Sessions : session[u].life \in {"starting", "up"} => session[u].id # i
  BY <1>4 DEF Listed, HostsAssumption
<1>6. Listed'
  <2>1. sessions' \in [Ids -> Sessions \cup {Nobody}] /\ creating' \in SUBSET Ids
    BY <1>4 DEF Listed
  <2>2. ASSUME NEW u \in Sessions
        PROVE  /\ session'[u].life = "starting" => session'[u].id \in creating'
               /\ session'[u].life = "up" => session'[u].id \in Ids /\ sessions'[session'[u].id] = u
    <3>1. CASE u = s
      BY <1>3, <1>4, <3>1
    <3>2. CASE u # s
      BY <1>3, <1>4, <3>2 DEF Listed
    <3>3. QED
      BY <3>1, <3>2
  <2>3. ASSUME NEW u \in Sessions, NEW t \in Sessions, session'[u].life \in {"starting", "up"},
               session'[t].life \in {"starting", "up"}, session'[u].id = session'[t].id
        PROVE  u = t
    BY <1>3, <1>5, <2>3 DEF Listed
  <2>4. QED
    BY <2>1, <2>2, <2>3 DEF Listed
<1>7. QED
  BY <1>3, <1>6

LEMMA StartedSound ==
  ASSUME HostsAssumption, PromptsSound(session, request, running), Listed,
         NEW s \in Sessions, Started(s)
  PROVE  PromptsSound(session', request', running') /\ Listed'
<1>1. session \in [Sessions -> SessionType] /\ session[s] \in SessionType
  BY DEF PromptsSound, HeadlessTyped
<1>2. PICK i : i = session[s].id
  OBVIOUS
<1>3. session[s].life = "starting" /\ i \in creating /\ creating \in SUBSET Ids
  BY <1>2 DEF Started, Listed
<1>4. LifeStep(s, i, "up", session[s].expired)
  BY <1>1, <1>2 DEF Started, SessionType, LifeStep, Lives5, Dead
<1>5. /\ PromptsSound(session', request', running')
      /\ session'[s].life = "up" /\ session'[s].id = i
      /\ \A u \in Sessions \ {s} : session'[u] = session[u]
  BY <1>4, LifeSound
<1>6. /\ creating' = creating \ {i} /\ sessions' = [sessions EXCEPT ![i] = s]
  BY <1>2 DEF Started
<1>7. \A u \in Sessions \ {s} : session[u].life \in {"starting", "up"} => session[u].id # i
  BY <1>2, <1>3 DEF Listed
<1>8. Listed'
  <2>1. sessions' \in [Ids -> Sessions \cup {Nobody}] /\ creating' \in SUBSET Ids
    BY <1>6 DEF Listed
  <2>2. ASSUME NEW u \in Sessions
        PROVE  /\ session'[u].life = "starting" => session'[u].id \in creating'
               /\ session'[u].life = "up" => session'[u].id \in Ids /\ sessions'[session'[u].id] = u
    <3>1. CASE u = s
      BY <1>3, <1>5, <1>6, <3>1 DEF Listed
    <3>2. CASE u # s
      BY <1>5, <1>6, <1>7, <3>2 DEF Listed
    <3>3. QED
      BY <3>1, <3>2
  <2>3. ASSUME NEW u \in Sessions, NEW t \in Sessions, session'[u].life \in {"starting", "up"},
               session'[t].life \in {"starting", "up"}, session'[u].id = session'[t].id
        PROVE  u = t
    BY <1>5, <1>7, <2>3 DEF Listed
  <2>4. QED
    BY <2>1, <2>2, <2>3 DEF Listed
<1>9. QED
  BY <1>5, <1>8

LEMMA SpawnFailsSound ==
  ASSUME HostsAssumption, PromptsSound(session, request, running), Listed,
         NEW s \in Sessions, SpawnFails(s)
  PROVE  PromptsSound(session', request', running') /\ Listed'
<1>1. session \in [Sessions -> SessionType] /\ session[s] \in SessionType
  BY DEF PromptsSound, HeadlessTyped
<1>2. PICK i : i = session[s].id
  OBVIOUS
<1>3. session[s].life = "starting" /\ creating' = creating \ {i} /\ sessions' = sessions
  BY <1>2 DEF SpawnFails
<1>4. /\ PromptsSound(session', request', running') /\ Fewer(session, session')
      /\ session'[s].life \notin {"starting", "up"}
  <2>1. CASE host = "pi"
    <3>1. DisposeAll({s})
      BY <2>1 DEF SpawnFails
    <3>2. QED
      BY <3>1, DisposeAllSound
  <2>2. CASE host # "pi"
    <3>1. i \in Ids \cup {Nobody} /\ session[s].expired \in BOOLEAN
      BY <1>1, <1>2 DEF SessionType
    <3>2. LifeStep(s, i, "failed", session[s].expired)
      BY <1>1, <1>2, <1>3, <2>2, <3>1 DEF SpawnFails, SessionType, LifeStep, Lives5, Dead
    <3>4. /\ PromptsSound(session', request', running')
          /\ session'[s].life = "failed" /\ session'[s].id = i
          /\ \A u \in Sessions \ {s} : session'[u] = session[u]
      BY <3>2, LifeSound
    <3>5. QED
      BY <3>4 DEF Fewer
  <2>3. QED
    BY <2>1, <2>2
<1>5. \A u \in Sessions : session[u].life = "starting" /\ session[u].id = i => u = s
  BY <1>2, <1>3 DEF Listed
<1>6. \A u \in Sessions : session'[u].life = "starting" => session[u].id \in creating'
  BY <1>3, <1>4, <1>5 DEF Listed, Fewer
<1>7. sessions' \in [Ids -> Sessions \cup {Nobody}] /\ creating' \in SUBSET Ids
  BY <1>3 DEF Listed
<1>8. QED
  BY <1>3, <1>4, <1>6, <1>7, ListedKept

\* The steps that leave the manager alone.
LEMMA OwnStepSound ==
  ASSUME PromptsSound(session, request, running), NEW s \in Sessions,
         Expire(s) \/ HandlersClosed(s) \/ SessionStopped(s)
  PROVE  PromptsSound(session', request', running') /\ Fewer(session, session')
<1>1. session \in [Sessions -> SessionType] /\ session[s] \in SessionType
  BY DEF PromptsSound, HeadlessTyped
<1>2. PICK life, expired :
        /\ LifeStep(s, session[s].id, life, expired)
        /\ life \in {"starting", "up"} => life = session[s].life
  <2>1. CASE Expire(s)
    BY <1>1, <2>1 DEF Expire, SessionType, LifeStep
  <2>2. CASE HandlersClosed(s)
    <3>1. LifeStep(s, session[s].id, "stopping", session[s].expired)
      BY <1>1, <2>2 DEF HandlersClosed, SessionType, LifeStep, Lives5, Dead
    <3>2. QED
      BY <3>1
  <2>3. CASE SessionStopped(s)
    <3>1. LifeStep(s, session[s].id, "gone", session[s].expired)
      BY <1>1, <2>3 DEF SessionStopped, SessionType, LifeStep, Lives5, Dead
    <3>2. QED
      BY <3>1
  <2>4. QED
    BY <2>1, <2>2, <2>3
<1>3. /\ PromptsSound(session', request', running')
      /\ session'[s].life = life /\ session'[s].id = session[s].id
      /\ \A u \in Sessions \ {s} : session'[u] = session[u]
  BY <1>2, LifeSound
<1>4. QED
  BY <1>2, <1>3 DEF Fewer

\* The manager's steps that dispose of sessions.
LEMMA DisposingSound ==
  ASSUME HostsAssumption, PromptsSound(session, request, running), Listed,
         (\E i \in Ids : StopOne(i)) \/ ManagerStop \/ CheckLifetimes
  PROVE  PromptsSound(session', request', running') /\ Listed'
<1>1. PICK these \in SUBSET Sessions : Unlist(these) /\ DisposeAll(these) /\ UNCHANGED creating
  <2>1. sessions \in [Ids -> Sessions \cup {Nobody}]
    BY DEF Listed
  <2>2. ASSUME NEW i \in Ids, StopOne(i)
        PROVE  \E these \in SUBSET Sessions : Unlist(these) /\ DisposeAll(these) /\ UNCHANGED creating
    <3>1. {sessions[i]} \in SUBSET Sessions
      BY <2>1, <2>2 DEF StopOne
    <3>2. QED
      BY <2>2, <3>1 DEF StopOne
  <2>3. ASSUME ManagerStop
        PROVE  \E these \in SUBSET Sessions : Unlist(these) /\ DisposeAll(these) /\ UNCHANGED creating
    <3>1. PICK all : all = {sessions[i] : i \in Ids} \ {Nobody}
      OBVIOUS
    <3>2. Unlist(all) /\ DisposeAll(all) /\ UNCHANGED creating
      BY <2>3, <3>1 DEF ManagerStop
    <3>3. all \in SUBSET Sessions
      BY <2>1, <3>1
    <3>4. QED
      BY <3>2, <3>3
  <2>4. ASSUME CheckLifetimes
        PROVE  \E these \in SUBSET Sessions : Unlist(these) /\ DisposeAll(these) /\ UNCHANGED creating
    <3>1. PICK over : over = {s \in Sessions : session[s].expired /\ \E i \in Ids : sessions[i] = s}
      OBVIOUS
    <3>2. Unlist(over) /\ DisposeAll(over) /\ UNCHANGED creating
      BY <2>4, <3>1 DEF CheckLifetimes
    <3>3. over \in SUBSET Sessions
      BY <3>1
    <3>4. QED
      BY <3>2, <3>3
  <2>5. QED
    BY <2>2, <2>3, <2>4
<1>2. /\ PromptsSound(session', request', running') /\ Fewer(session, session')
      /\ \A s \in Sessions : session'[s].life \in {"starting", "up"} => s \notin these
  BY <1>1, DisposeAllSound
<1>3. Listed'
  BY <1>1, <1>2, UnlistSound
<1>4. QED
  BY <1>2, <1>3

\* The other steps leave the manager's lists alone.
LEMMA UnmanagedSound ==
  ASSUME Listed, Fewer(session, session'), UNCHANGED managerVars
  PROVE  Listed'
<1>1. sessions' = sessions /\ creating' = creating
  BY DEF managerVars
<1>2. \A s \in Sessions : session'[s].life = "starting" => session[s].id \in creating'
  BY <1>1 DEF Listed, Fewer
<1>3. QED
  BY <1>1, <1>2, ListedKept DEF Listed

LEMMA HeadlessInitSound ==
  ASSUME HostsAssumption, HeadlessInit
  PROVE  HeadlessInv
<1>1. Unborn \in SessionType /\ Unborn.life = "none" /\ Holds(Unborn) = {}
  BY EmptyQueue DEF Unborn, SessionType, Lives5, Holds
<1>2. /\ session \in [Sessions -> SessionType] /\ \A s \in Sessions : session[s] = Unborn
      /\ running = {} /\ sessions \in [Ids -> Sessions \cup {Nobody}] /\ creating = {} /\ host \in Hosts
  BY <1>1 DEF HeadlessInit
<1>3. request \in [Requests -> RequestType] /\ \A r \in Requests : request[r].at = "new"
  BY DEF HeadlessInit, RequestType
<1>4. PromptsSound(session, request, running)
  BY <1>1, <1>2, <1>3 DEF PromptsSound, HeadlessTyped, Held, Owed, Running, OnlyStaged
<1>5. Listed
  BY <1>1, <1>2 DEF Listed
<1>6. QED
  BY <1>2, <1>4, <1>5 DEF HeadlessInv

LEMMA HostKept ==
  ASSUME PromptsSound(session', request', running'), Listed', host \in Hosts, host' = host
  PROVE  HeadlessInv'
BY DEF HeadlessInv, PromptsSound, HeadlessTyped, Held, Owed, Running, OnlyStaged, Lossy

LEMMA HeadlessStep ==
  ASSUME HostsAssumption, HeadlessInv, [HeadlessNext]_headlessVars
  PROVE  HeadlessInv'
<1>1. PromptsSound(session, request, running) /\ Listed /\ host \in Hosts
  BY DEF HeadlessInv
<1>2. ASSUME PromptsSound(session', request', running'), Fewer(session, session'), UNCHANGED managerVars
      PROVE  HeadlessInv'
  <2>1. Listed'
    BY <1>1, <1>2, UnmanagedSound
  <2>2. QED
    BY <1>1, <1>2, <2>1, HostKept DEF managerVars
<1>3. ASSUME NEW r \in Requests, NEW s \in Sessions, Arrive(r, s)
      PROVE  HeadlessInv'
  <2>1. UNCHANGED managerVars
    BY <1>3 DEF Arrive
  <2>2. QED
    BY <1>1, <1>2, <1>3, <2>1, ArriveSound
<1>4. ASSUME NEW r \in Requests, Staged(r) \/ StagingFails(r)
      PROVE  HeadlessInv'
  <2>1. UNCHANGED managerVars
    BY <1>4 DEF Staged, StagingFails
  <2>2. QED
    BY <1>1, <1>2, <1>4, <2>1, StagedSound
<1>5. ASSUME NEW r \in Requests, HandlerCloses(r)
      PROVE  HeadlessInv'
  <2>1. UNCHANGED managerVars
    BY <1>5 DEF HandlerCloses
  <2>2. QED
    BY <1>1, <1>2, <1>5, <2>1, HandlerClosesSound
<1>6. ASSUME NEW r \in Requests, NEW verdict \in {"ok", "failed"}, TurnEnds(r, verdict)
      PROVE  HeadlessInv'
  <2>1. UNCHANGED managerVars
    BY <1>6 DEF TurnEnds
  <2>2. QED
    BY <1>1, <1>2, <1>6, <2>1, TurnEndsSound
<1>7. ASSUME NEW s \in Sessions, NEW i \in Ids, Spawn(s, i)
      PROVE  HeadlessInv'
  <2>1. host' = host
    BY <1>7 DEF Spawn
  <2>2. QED
    BY <1>1, <1>7, <2>1, SpawnSound, HostKept
<1>8. ASSUME NEW s \in Sessions, Started(s) \/ SpawnFails(s)
      PROVE  HeadlessInv'
  <2>1. host' = host
    BY <1>8 DEF Started, SpawnFails
  <2>2. QED
    BY <1>1, <1>8, <2>1, StartedSound, SpawnFailsSound, HostKept
<1>9. ASSUME NEW s \in Sessions, Wake(s)
      PROVE  HeadlessInv'
  <2>1. UNCHANGED managerVars
    BY <1>9 DEF Wake
  <2>2. QED
    BY <1>1, <1>2, <1>9, <2>1, WakeSound
<1>10. ASSUME NEW s \in Sessions, Expire(s) \/ HandlersClosed(s) \/ SessionStopped(s)
       PROVE  HeadlessInv'
  <2>1. UNCHANGED managerVars
    BY <1>10 DEF Expire, HandlersClosed, SessionStopped
  <2>2. QED
    BY <1>1, <1>2, <1>10, <2>1, OwnStepSound
<1>11. ASSUME NEW s \in Sessions, NEW n \in 1..Cardinality(Requests), PruneStale(s, n)
       PROVE  HeadlessInv'
  <2>1. UNCHANGED managerVars
    BY <1>11 DEF PruneStale
  <2>2. n \in Nat
    OBVIOUS
  <2>3. QED
    BY <1>1, <1>2, <1>11, <2>1, <2>2, PruneSound
<1>12. ASSUME (\E i \in Ids : StopOne(i)) \/ ManagerStop \/ CheckLifetimes
       PROVE  HeadlessInv'
  <2>1. host' = host
    BY <1>12 DEF StopOne, ManagerStop, CheckLifetimes
  <2>2. QED
    BY <1>1, <1>12, <2>1, DisposingSound, HostKept
<1>13. ASSUME UNCHANGED headlessVars
       PROVE  HeadlessInv'
  <2>1. /\ session' = session /\ request' = request /\ running' = running /\ sessions' = sessions
        /\ creating' = creating /\ host' = host
    BY <1>13 DEF headlessVars, managerVars
  <2>2. QED
    BY <1>1, <2>1 DEF HeadlessInv, Listed, PromptsSound, HeadlessTyped, Held, Owed, Running, OnlyStaged, Lossy
<1>14. QED
  BY <1>3, <1>4, <1>5, <1>6, <1>7, <1>8, <1>9, <1>10, <1>11, <1>12, <1>13 DEF HeadlessNext

LEMMA HeadlessInvariant == HeadlessSpec => []HeadlessInv
<1>1. HeadlessInit => HeadlessInv
  BY HostsAssumption, HeadlessInitSound
<1>2. HeadlessInv /\ [HeadlessNext]_headlessVars => HeadlessInv'
  BY HostsAssumption, HeadlessStep
<1>3. QED
  BY <1>1, <1>2, PTL DEF HeadlessSpec

LEMMA SerialFromInv ==
  ASSUME HeadlessInv
  PROVE  TurnsAreSerial
BY DEF TurnsAreSerial, HeadlessInv, Listed, PromptsSound, Running

\* Whatever prompts, wake-ups, expiry and disposal do, a session of either
\* headless host never has two turns running and an id never has two living
\* sessions (managed-session.ts: drain; the managers' spawn).
THEOREM TurnsStaySerial == HeadlessSpec => []TurnsAreSerial
<1>1. HeadlessInv => TurnsAreSerial
  BY SerialFromInv
<1>2. QED
  BY <1>1, HeadlessInvariant, PTL

\* The same, and a disposal leaves no prompt behind (dispose), where a host that
\* takes attachments asks again once they are written, as Claude Code's does and
\* PI's does not.
THEOREM SessionsStaySerial ==
  ASSUME "pi" \notin Attaching
  PROVE  HeadlessSpec => []SessionsAreSerial
<1>1. HeadlessInv => SessionsAreSerial
  <2>1. SUFFICES ASSUME HeadlessInv PROVE TurnsAreSerial /\ DisposeMissesNothing
    BY DEF SessionsAreSerial
  <2>2. DisposeMissesNothing
    BY <2>1 DEF DisposeMissesNothing, HeadlessInv, PromptsSound, Owed, Settled, Dead, Lossy
  <2>3. QED
    BY <2>1, <2>2, SerialFromInv
<1>2. QED
  BY <1>1, HeadlessInvariant, PTL

-----------------------------------------------------------------------------

(***************************************************************************)
(* The OpenClaw account leaves nothing behind, however many starts, aborts *)
(* and stops overlap and however many closes fail.                         *)
(***************************************************************************)

\* What the extensions of a start may have heard.
NotHeard   == <<>>
HeardStart == <<"started">>
HeardEnd   == <<"started", "stopping">>

GatewayTyped ==
  /\ activeStart \in Callers /\ gsvc \in Callers /\ gtools \in Callers
  /\ gnc \in Callers /\ gext \in Callers
  /\ cleanup \in {"none", "stopping", "service", "tools", "draining"}
  /\ call \in [Callers -> {"no", "awaiting", "joined", "rejoin", "returned", "threw"}]
  /\ phase \in [AccountStarts -> {"idle", "entering", "loading", "connecting", "starting", "hooks",
                                  "running", "failing", "stopping", "stale", "leaving", "over"}]
  /\ aborted \in [AccountStarts -> BOOLEAN] /\ late \in [AccountStarts -> BOOLEAN]
  /\ bus \in [AccountStarts -> {"none", "registering", "up", "down"}]
  /\ conn \in [AccountStarts -> {"none", "open", "closed"}]
  /\ wiped \in [AccountStarts -> BOOLEAN]
  /\ heard \in [AccountStarts -> {NotHeard, HeardStart, HeardEnd}]
  /\ status \in Callers /\ closeFails \in Nat

\* What the module's variables hold, one start made; and extensions beside a
\* service have heard of its start, and of no stop before the cleanup asks them.
SlotsAgree ==
  /\ gsvc \in {None, gnc} /\ gtools \in {None, gnc}
  /\ gnc = None \/ gext \in {None, gnc}
  /\ gsvc # None /\ gext # None /\ cleanup # "stopping" => heard[gext] = HeardStart

\* The cleanup takes down what it passes, and a start becomes the gateway's
\* only when there is nothing left for it to take down.
CleanedUp ==
  /\ cleanup \in {"tools", "draining"} => gsvc = None
  /\ cleanup = "draining" => gtools = None
  /\ activeStart # None /\ cleanup # "none" =>
       gsvc = None /\ gtools = None /\ gnc = None /\ cleanup # "stopping"
  /\ \A s \in AccountStarts :
       call[s] = "returned" => gsvc = None /\ gtools = None /\ gnc = None /\ cleanup # "stopping"

\* What the start that is the gateway's has put there.
OwnerSound(s) ==
  activeStart = s =>
    /\ phase[s] \in {"loading", "connecting"} => gnc = None
    /\ phase[s] \in {"connecting", "starting"} => gext = s
    /\ phase[s] \in {"starting", "hooks", "running", "failing"} => gnc = s

\* What a start has made, by where it is.
StartSound(s) ==
  /\ phase[s] \in {"idle", "entering", "loading", "connecting"} =>
       conn[s] = "none" /\ bus[s] = "none" /\ heard[s] = NotHeard
  /\ phase[s] = "stale" => conn[s] = "open" /\ bus[s] = "none" /\ heard[s] = NotHeard
  /\ phase[s] \in {"starting", "hooks", "running", "failing", "stopping"} => bus[s] # "none"
  /\ phase[s] = "starting" => heard[s] = NotHeard
  /\ late[s] => phase[s] \in {"leaving", "stopping", "over"}
  /\ heard[s] = HeardStart =>
       /\ activeStart = s /\ gsvc = s /\ gext = s /\ cleanup = "none"
       /\ bus[s] = "up" /\ phase[s] \in {"hooks", "running"}
  /\ late[s] => bus[s] # "none"
  /\ gnc = s => bus[s] # "none" /\ conn[s] = "open"
  /\ conn[s] = "open" => gnc = s \/ phase[s] = "stale" \/ (wiped[s] /\ bus[s] = "none")
  /\ bus[s] = "up" => conn[s] = "open"
  /\ wiped[s] => conn[s] = "closed" \/ (phase[s] = "over" /\ heard[s] = NotHeard /\ bus[s] = "none")

GatewaySound ==
  /\ SlotsAgree /\ CleanedUp
  /\ \A s \in AccountStarts : OwnerSound(s) /\ StartSound(s)

GatewayInv == GatewayTyped /\ GatewaySound


LEMMA GatewayQuiet ==
  ASSUME GatewayInv, ~Resuming
  PROVE  /\ \A s \in AccountStarts : call[s] # "returned" /\ call[s] # "threw"
         /\ activeStart # None => cleanup = "none"
<1>1. \A s \in AccountStarts : call[s] # "returned" /\ call[s] # "threw"
  BY DEF Resuming
<1>2. activeStart # None => cleanup = "none"
  BY DEF Resuming, Passing, GatewayInv, GatewayTyped, GatewaySound, CleanedUp
<1> QED BY <1>1, <1>2

\* What BeginCleanup appends to a start's hooks.
LEMMA StoppingAppended == Append(<<"started">>, "stopping") = <<"started", "stopping">>
<1>1. /\ <<"started">> \in Seq({"started", "stopping"}) /\ Len(<<"started">>) = 1
      /\ <<"started">>[1] = "started"
  OBVIOUS
<1>2. /\ <<"started", "stopping">> \in Seq({"started", "stopping"})
      /\ Len(<<"started", "stopping">>) = 2
      /\ <<"started", "stopping">>[1] = "started" /\ <<"started", "stopping">>[2] = "stopping"
  OBVIOUS
<1>3. ASSUME NEW S, NEW q \in Seq(S), NEW e \in S, NEW r \in Seq(S),
             Len(q) = 1, Len(r) = 2, r[1] = q[1], r[2] = e
      PROVE  Append(q, e) = r
  <2>1. /\ Append(q, e) \in Seq(S) /\ Len(Append(q, e)) = Len(q) + 1
        /\ \A i \in 1..Len(q) : Append(q, e)[i] = q[i]
        /\ Append(q, e)[Len(q) + 1] = e
    BY AppendProperties
  <2>2. \A i \in 1..Len(r) : r[i] = Append(q, e)[i]
    BY <1>3, <2>1
  <2>3. Append(q, e) \in Seq(S) /\ Len(r) = Len(Append(q, e))
    BY <2>1, <1>3
  <2> QED BY <2>2, <2>3, SeqEqual
<1> QED BY <1>1, <1>2, <1>3

LEMMA HooksInOrder ==
  /\ Append(NotHeard, "started") = HeardStart
  /\ Append(HeardStart, "stopping") = HeardEnd
  /\ NotHeard # HeardStart /\ NotHeard # HeardEnd /\ HeardStart # HeardEnd
<1>1. Append(NotHeard, "started") = HeardStart
  BY DEF NotHeard, HeardStart
<1>2. NotHeard # HeardStart
  BY DEF NotHeard, HeardStart
<1>3. NotHeard # HeardEnd
  BY DEF NotHeard, HeardEnd
<1>4. HeardStart # HeardEnd
  BY DEF HeardStart, HeardEnd
<1>5. Append(HeardStart, "stopping") = HeardEnd
  BY StoppingAppended DEF HeardStart, HeardEnd
<1> QED BY <1>1, <1>2, <1>3, <1>4, <1>5

\* A cleanup that begins, once it is known what the extensions have heard.
TellsTheEnd ==
  /\ activeStart' = None
  /\ IF gsvc # None /\ gext # None
     THEN /\ cleanup' = "stopping" /\ gext' = gext
          /\ heard' = [heard EXCEPT ![gext] = HeardEnd]
     ELSE cleanup' = "service" /\ gext' = None /\ heard' = heard

LEMMA CleanupTells ==
  ASSUME GatewayInv, cleanup = "none", BeginCleanup
  PROVE  TellsTheEnd
<1>1. gsvc # None /\ gext # None => heard[gext] = HeardStart
  BY DEF GatewayInv, GatewaySound, SlotsAgree
<1> QED BY <1>1, HooksInOrder DEF BeginCleanup, TellsTheEnd

LEMMA GatewayInitial == GatewayInit => GatewayInv
<1> SUFFICES ASSUME GatewayInit PROVE GatewayInv
  OBVIOUS
<1>1. GatewayTyped
  BY GatewayAssumption, HooksInOrder DEF GatewayInit, NotHeard, GatewayTyped, Callers, None
<1>2. GatewaySound
  BY GatewayAssumption, HooksInOrder DEF GatewayInit, NotHeard, GatewaySound, SlotsAgree, CleanedUp, OwnerSound, StartSound, Callers, None
<1> QED BY <1>1, <1>2 DEF GatewayInv


LEMMA RejoinSound ==
  ASSUME GatewayInv, NEW c \in Callers, Rejoin(c) PROVE GatewayInv'
<1>0. cleanup = "none" /\ BeginCleanup => TellsTheEnd
  BY CleanupTells
<1>1. CASE cleanup # "none"
  <2> USE <1>1, GatewayAssumption DEF GatewayInv, GatewaySound, GatewayTyped, Callers, None, Rejoin
  <2>1. GatewayTyped'
    BY DEF startVars
  <2>2. SlotsAgree' /\ CleanedUp'
    BY DEF SlotsAgree, CleanedUp
  <2>3. \A r \in AccountStarts : OwnerSound(r)' /\ StartSound(r)'
    BY DEF startVars, OwnerSound, StartSound
  <2> QED BY <2>1, <2>2, <2>3
<1>2. CASE cleanup = "none" /\ GatewayUp
  <2>0. /\ TellsTheEnd /\ call' = [call EXCEPT ![c] = "awaiting"]
        /\ UNCHANGED <<gsvc, gtools, gnc, startVars, bus, conn, wiped, status, closeFails>>
    BY <1>0, <1>2 DEF Rejoin
  <2> USE <1>2, GatewayAssumption DEF GatewayInv, GatewaySound, GatewayTyped, Callers, None, TellsTheEnd
  <2>1. GatewayTyped'
    BY <2>0 DEF startVars
  <2>2. SlotsAgree'
    BY <2>0 DEF SlotsAgree
  <2>3. CleanedUp'
    BY <2>0 DEF CleanedUp
  <2>4. ASSUME NEW r \in AccountStarts PROVE OwnerSound(r)' /\ StartSound(r)'
    BY <2>0, HooksInOrder DEF startVars, SlotsAgree, OwnerSound, StartSound
  <2> QED BY <2>1, <2>2, <2>3, <2>4
<1>3. CASE cleanup = "none" /\ ~GatewayUp
  <2>0. gsvc = None /\ gtools = None /\ gnc = None /\ gext = None
    BY <1>3 DEF GatewayUp
  <2> USE <1>3, GatewayAssumption DEF GatewayInv, GatewaySound, GatewayTyped, Callers, None, Rejoin
  <2>1. GatewayTyped'
    BY DEF startVars
  <2>2. SlotsAgree' /\ CleanedUp'
    BY <2>0 DEF SlotsAgree, CleanedUp
  <2>3. \A r \in AccountStarts : OwnerSound(r)' /\ StartSound(r)'
    BY DEF startVars, OwnerSound, StartSound
  <2> QED BY <2>1, <2>2, <2>3
<1> QED BY <1>1, <1>2, <1>3


LEMMA ExtensionsStoppedSound ==
  ASSUME GatewayInv, ExtensionsStopped PROVE GatewayInv'
<1> USE GatewayAssumption DEF GatewayInv, GatewaySound, GatewayTyped, Callers, None
<1>1. GatewayTyped'
  BY DEF ExtensionsStopped, slotVars, startVars, worldVars
<1>2. SlotsAgree' /\ CleanedUp'
  BY DEF ExtensionsStopped, slotVars, startVars, worldVars, SlotsAgree, CleanedUp, OwnerSound, StartSound
<1>3. ASSUME NEW r \in AccountStarts PROVE OwnerSound(r)' /\ StartSound(r)'
  BY DEF ExtensionsStopped, slotVars, startVars, worldVars, SlotsAgree, CleanedUp, OwnerSound, StartSound
<1> QED BY <1>1, <1>2, <1>3


LEMMA ServiceStoppedSound ==
  ASSUME GatewayInv, ServiceStopped PROVE GatewayInv'
<1> USE GatewayAssumption DEF GatewayInv, GatewaySound, GatewayTyped, Callers, None
<1>1. GatewayTyped'
  BY DEF ServiceStopped, slotVars, startVars, worldVars
<1>2. SlotsAgree' /\ CleanedUp'
  BY DEF ServiceStopped, slotVars, startVars, worldVars, SlotsAgree, CleanedUp, OwnerSound, StartSound
<1>3. ASSUME NEW r \in AccountStarts PROVE OwnerSound(r)' /\ StartSound(r)'
  BY DEF ServiceStopped, slotVars, startVars, worldVars, SlotsAgree, CleanedUp, OwnerSound, StartSound
<1> QED BY <1>1, <1>2, <1>3


LEMMA ToolsClosedSound ==
  ASSUME GatewayInv, ToolsClosed PROVE GatewayInv'
<1> USE GatewayAssumption DEF GatewayInv, GatewaySound, GatewayTyped, Callers, None
<1>1. GatewayTyped'
  BY DEF ToolsClosed, slotVars, startVars, worldVars
<1>2. SlotsAgree' /\ CleanedUp'
  BY DEF ToolsClosed, slotVars, startVars, worldVars, SlotsAgree, CleanedUp, OwnerSound, StartSound
<1>3. ASSUME NEW r \in AccountStarts PROVE OwnerSound(r)' /\ StartSound(r)'
  BY DEF ToolsClosed, slotVars, startVars, worldVars, SlotsAgree, CleanedUp, OwnerSound, StartSound
<1> QED BY <1>1, <1>2, <1>3


LEMMA ConnectionDrainedSound ==
  ASSUME GatewayInv, ConnectionDrained PROVE GatewayInv'
<1> USE GatewayAssumption DEF GatewayInv, GatewaySound, GatewayTyped, Callers, None
<1>1. GatewayTyped'
  BY DEF ConnectionDrained, Settle, Closed, BusIs, slotVars, startVars, worldVars
<1>2. SlotsAgree' /\ CleanedUp'
  BY DEF ConnectionDrained, Settle, Closed, BusIs, slotVars, startVars, worldVars, SlotsAgree, CleanedUp, OwnerSound, StartSound
<1>3. ASSUME NEW r \in AccountStarts PROVE OwnerSound(r)' /\ StartSound(r)'
  BY DEF ConnectionDrained, Settle, Closed, BusIs, slotVars, startVars, worldVars, SlotsAgree, CleanedUp, OwnerSound, StartSound
<1> QED BY <1>1, <1>2, <1>3


LEMMA DrainFailsSound ==
  ASSUME GatewayInv, DrainFails PROVE GatewayInv'
<1> USE GatewayAssumption DEF GatewayInv, GatewaySound, GatewayTyped, Callers, None
<1>1. GatewayTyped'
  BY DEF DrainFails, Settle, slotVars, startVars, worldVars
<1>2. SlotsAgree' /\ CleanedUp'
  BY DEF DrainFails, Settle, slotVars, startVars, worldVars, SlotsAgree, CleanedUp, OwnerSound, StartSound
<1>3. ASSUME NEW r \in AccountStarts PROVE OwnerSound(r)' /\ StartSound(r)'
  BY DEF DrainFails, Settle, slotVars, startVars, worldVars, SlotsAgree, CleanedUp, OwnerSound, StartSound
<1> QED BY <1>1, <1>2, <1>3


LEMMA StopAccountSound ==
  ASSUME GatewayInv, ~Resuming, StopAccount PROVE GatewayInv'
<1>0. cleanup = "none" /\ BeginCleanup => TellsTheEnd
  BY CleanupTells
<1> USE GatewayAssumption DEF GatewayInv, GatewaySound, GatewayTyped, Callers, None
<1>1. GatewayTyped'
  BY <1>0, HooksInOrder DEF StopAccount, Cleanup, TellsTheEnd, slotVars, startVars, worldVars
<1>2. SlotsAgree' /\ CleanedUp'
  BY <1>0, GatewayQuiet, HooksInOrder DEF StopAccount, Cleanup, TellsTheEnd, slotVars, startVars, worldVars, SlotsAgree, CleanedUp, OwnerSound, StartSound
<1>3. ASSUME NEW r \in AccountStarts PROVE OwnerSound(r)' /\ StartSound(r)'
  BY <1>0, GatewayQuiet, HooksInOrder DEF StopAccount, Cleanup, TellsTheEnd, slotVars, startVars, worldVars, SlotsAgree, CleanedUp, OwnerSound, StartSound
<1> QED BY <1>1, <1>2, <1>3


LEMMA BeginStartSound ==
  ASSUME GatewayInv, NEW s \in AccountStarts, ~Resuming, BeginStart(s) PROVE GatewayInv'
<1>0. cleanup = "none" /\ BeginCleanup => TellsTheEnd
  BY CleanupTells
<1> USE GatewayAssumption DEF GatewayInv, GatewaySound, GatewayTyped, Callers, None
<1>1. GatewayTyped'
  BY <1>0, HooksInOrder DEF BeginStart, Cleanup, TellsTheEnd, To, slotVars, startVars, worldVars
<1>2. SlotsAgree' /\ CleanedUp'
  BY <1>0, GatewayQuiet, HooksInOrder DEF BeginStart, Cleanup, TellsTheEnd, To, slotVars, startVars, worldVars, SlotsAgree, CleanedUp, OwnerSound, StartSound
<1>3. ASSUME NEW r \in AccountStarts PROVE OwnerSound(r)' /\ StartSound(r)'
  BY <1>0, GatewayQuiet, HooksInOrder DEF BeginStart, Cleanup, TellsTheEnd, To, slotVars, startVars, worldVars, SlotsAgree, CleanedUp, OwnerSound, StartSound
<1> QED BY <1>1, <1>2, <1>3


LEMMA EnteredSound ==
  ASSUME GatewayInv, NEW s \in AccountStarts, Entered(s) PROVE GatewayInv'
<1> USE GatewayAssumption DEF GatewayInv, GatewaySound, GatewayTyped, Callers, None
<1>1. GatewayTyped'
  BY DEF Entered, To, slotVars, startVars, worldVars
<1>2. SlotsAgree' /\ CleanedUp'
  BY DEF Entered, To, slotVars, startVars, worldVars, SlotsAgree, CleanedUp, OwnerSound, StartSound
<1>3. ASSUME NEW r \in AccountStarts PROVE OwnerSound(r)' /\ StartSound(r)'
  <2>1. call[s] = "returned" => gsvc = None /\ gnc = None
    BY DEF CleanedUp
  <2>2. OwnerSound(r)'
    BY <2>1 DEF Entered, To, worldVars, OwnerSound
  <2>3. heard[s] = NotHeard
    BY DEF Entered, StartSound
  <2>4. StartSound(r)'
    BY <2>1, <2>3, HooksInOrder DEF Entered, To, worldVars, StartSound
  <2> QED BY <2>2, <2>4
<1> QED BY <1>1, <1>2, <1>3


LEMMA LoadedSound ==
  ASSUME GatewayInv, NEW s \in AccountStarts, Loaded(s) PROVE GatewayInv'
<1> USE GatewayAssumption DEF GatewayInv, GatewaySound, GatewayTyped, Callers, None
<1>1. GatewayTyped'
  BY DEF Loaded, To, Mine, slotVars, startVars, worldVars
<1>2. SlotsAgree' /\ CleanedUp'
  BY DEF Loaded, To, Mine, slotVars, startVars, worldVars, SlotsAgree, CleanedUp, OwnerSound, StartSound
<1>3. ASSUME NEW r \in AccountStarts PROVE OwnerSound(r)' /\ StartSound(r)'
  BY DEF Loaded, To, Mine, slotVars, startVars, worldVars, SlotsAgree, CleanedUp, OwnerSound, StartSound
<1> QED BY <1>1, <1>2, <1>3


LEMMA ConnectedSound ==
  ASSUME GatewayInv, NEW s \in AccountStarts, ~Resuming, Connected(s) PROVE GatewayInv'
<1> USE GatewayAssumption DEF GatewayInv, GatewaySound, GatewayTyped, Callers, None
<1>1. GatewayTyped'
  BY DEF Connected, To, Mine, BusIs, slotVars, startVars, worldVars
<1>2. SlotsAgree' /\ CleanedUp'
  BY GatewayQuiet DEF Connected, To, Mine, BusIs, slotVars, startVars, worldVars, SlotsAgree, CleanedUp, OwnerSound, StartSound
<1>3. ASSUME NEW r \in AccountStarts PROVE OwnerSound(r)' /\ StartSound(r)'
  BY GatewayQuiet DEF Connected, To, Mine, BusIs, slotVars, startVars, worldVars, SlotsAgree, CleanedUp, OwnerSound, StartSound
<1> QED BY <1>1, <1>2, <1>3


LEMMA StaleClosedSound ==
  ASSUME GatewayInv, NEW s \in AccountStarts, StaleClosed(s) PROVE GatewayInv'
<1> USE GatewayAssumption DEF GatewayInv, GatewaySound, GatewayTyped, Callers, None
<1>1. GatewayTyped'
  BY DEF StaleClosed, To, Closed, BusIs, slotVars, startVars, worldVars
<1>2. SlotsAgree' /\ CleanedUp'
  BY DEF StaleClosed, To, Closed, BusIs, slotVars, startVars, worldVars, SlotsAgree, CleanedUp, OwnerSound, StartSound
<1>3. ASSUME NEW r \in AccountStarts PROVE OwnerSound(r)' /\ StartSound(r)'
  BY DEF StaleClosed, To, Closed, BusIs, slotVars, startVars, worldVars, SlotsAgree, CleanedUp, OwnerSound, StartSound
<1> QED BY <1>1, <1>2, <1>3


LEMMA ServiceStartedSound ==
  ASSUME GatewayInv, NEW s \in AccountStarts, ~Resuming, ServiceStarted(s) PROVE GatewayInv'
<1>1. heard' = IF Mine(s) THEN [heard EXCEPT ![s] = HeardStart] ELSE heard
  BY HooksInOrder DEF ServiceStarted, GatewayInv, GatewaySound, StartSound
<1>2. /\ conn[s] = "open" /\ phase[s] = "starting" /\ bus' = [bus EXCEPT ![s] = "up"]
      /\ phase' = [phase EXCEPT ![s] = IF Mine(s) THEN "hooks" ELSE "stopping"]
      /\ gsvc' = IF Mine(s) THEN s ELSE gsvc
      /\ activeStart' = activeStart /\ gnc' = gnc /\ gext' = gext /\ cleanup' = cleanup
      /\ late' = late /\ conn' = conn /\ wiped' = wiped
  BY DEF ServiceStarted, To, BusIs
<1>3. GatewayTyped /\ GatewaySound /\ s \in AccountStarts /\ StartSound(s) /\ OwnerSound(s)
  BY DEF GatewayInv, GatewaySound
<1>4. /\ gnc = s /\ bus[s] # "none" /\ ~late[s] /\ heard[s] = NotHeard
      /\ wiped[s] => conn[s] = "closed"
  BY <1>2, <1>3 DEF StartSound, GatewayTyped
<1>5. Mine(s) => gnc = s /\ gext = s /\ cleanup = "none"
  BY <1>2, <1>3, GatewayAssumption, GatewayQuiet DEF Mine, OwnerSound, None
<1>6. GatewayTyped'
  BY <1>1, <1>2, <1>3 DEF GatewayTyped, ServiceStarted, Callers
<1>7. SlotsAgree' /\ CleanedUp'
  BY <1>1, <1>2, <1>3, <1>5, HooksInOrder, GatewayQuiet, GatewayAssumption
     DEF ServiceStarted, GatewaySound, SlotsAgree, CleanedUp, GatewayTyped, Mine, Callers, None
<1>8. OwnerSound(s)' /\ StartSound(s)'
  <2>1. /\ heard'[s] = (IF Mine(s) THEN HeardStart ELSE NotHeard) /\ bus'[s] = "up"
        /\ phase'[s] = (IF Mine(s) THEN "hooks" ELSE "stopping")
    BY <1>1, <1>2, <1>3, <1>4 DEF GatewayTyped
  <2> QED BY <1>2, <1>4, <1>5, <2>1, HooksInOrder DEF OwnerSound, StartSound, Mine
<1>9. ASSUME NEW r \in AccountStarts, r # s PROVE OwnerSound(r)' /\ StartSound(r)'
  <2>1. heard'[r] = heard[r] /\ phase'[r] = phase[r] /\ bus'[r] = bus[r]
    BY <1>1, <1>2, <1>3, <1>9 DEF GatewayTyped
  <2>2. OwnerSound(r) /\ StartSound(r)
    BY <1>3 DEF GatewaySound
  <2>3. heard[r] = HeardStart => ~Mine(s)
    BY <1>9, <2>2 DEF Mine, StartSound
  <2> QED BY <1>2, <2>1, <2>2, <2>3 DEF OwnerSound, StartSound
<1> QED BY <1>6, <1>7, <1>8, <1>9 DEF GatewayInv, GatewaySound


LEMMA ServiceStartFailsSound ==
  ASSUME GatewayInv, NEW s \in AccountStarts, ServiceStartFails(s) PROVE GatewayInv'
<1> USE GatewayAssumption DEF GatewayInv, GatewaySound, GatewayTyped, Callers, None
<1>1. GatewayTyped'
  BY DEF ServiceStartFails, To, slotVars, startVars, worldVars
<1>2. SlotsAgree' /\ CleanedUp'
  BY DEF ServiceStartFails, To, slotVars, startVars, worldVars, SlotsAgree, CleanedUp, OwnerSound, StartSound
<1>3. ASSUME NEW r \in AccountStarts PROVE OwnerSound(r)' /\ StartSound(r)'
  BY DEF ServiceStartFails, To, slotVars, startVars, worldVars, SlotsAgree, CleanedUp, OwnerSound, StartSound
<1> QED BY <1>1, <1>2, <1>3


LEMMA FailedStoppedSound ==
  ASSUME GatewayInv, NEW s \in AccountStarts, ~Resuming, FailedStopped(s) PROVE GatewayInv'
<1>0. cleanup = "none" /\ BeginCleanup => TellsTheEnd
  BY CleanupTells
<1> USE GatewayAssumption DEF GatewayInv, GatewaySound, GatewayTyped, Callers, None
<1>1. GatewayTyped'
  BY <1>0, HooksInOrder DEF FailedStopped, To, BusIs, Cleanup, TellsTheEnd, slotVars, startVars, worldVars
<1>2. SlotsAgree' /\ CleanedUp'
  BY <1>0, GatewayQuiet, HooksInOrder DEF FailedStopped, To, BusIs, Cleanup, TellsTheEnd, slotVars, startVars, worldVars, SlotsAgree, CleanedUp, OwnerSound, StartSound
<1>3. ASSUME NEW r \in AccountStarts PROVE OwnerSound(r)' /\ StartSound(r)'
  <2>1. OwnerSound(r)'
    BY <1>0, GatewayQuiet, HooksInOrder DEF FailedStopped, To, BusIs, Cleanup, TellsTheEnd, slotVars, startVars, worldVars, SlotsAgree, CleanedUp, OwnerSound, StartSound
  <2>2. StartSound(r)'
    BY <1>0, GatewayQuiet, HooksInOrder DEF FailedStopped, To, BusIs, Cleanup, TellsTheEnd, slotVars, startVars, worldVars, SlotsAgree, CleanedUp, OwnerSound, StartSound
  <2> QED BY <2>1, <2>2
<1> QED BY <1>1, <1>2, <1>3


LEMMA AbortedStartingSound ==
  ASSUME GatewayInv, NEW s \in AccountStarts, ~Resuming, AbortedStarting(s) PROVE GatewayInv'
<1> USE GatewayAssumption DEF GatewayInv, GatewaySound, GatewayTyped, Callers, None
<1>1. GatewayTyped'
  BY DEF AbortedStarting, To, Mine, slotVars, startVars, worldVars
<1>2. SlotsAgree' /\ CleanedUp'
  BY GatewayQuiet DEF AbortedStarting, To, Mine, slotVars, startVars, worldVars, SlotsAgree, CleanedUp, OwnerSound, StartSound
<1>3. ASSUME NEW r \in AccountStarts PROVE OwnerSound(r)' /\ StartSound(r)'
  BY GatewayQuiet DEF AbortedStarting, To, Mine, slotVars, startVars, worldVars, SlotsAgree, CleanedUp, OwnerSound, StartSound
<1> QED BY <1>1, <1>2, <1>3


LEMMA LateStartedSound ==
  ASSUME GatewayInv, NEW s \in AccountStarts, LateStarted(s) PROVE GatewayInv'
<1> USE GatewayAssumption DEF GatewayInv, GatewaySound, GatewayTyped, Callers, None
<1>1. GatewayTyped'
  BY DEF LateStarted, BusIs, slotVars, startVars, worldVars
<1>2. SlotsAgree' /\ CleanedUp'
  BY DEF LateStarted, BusIs, slotVars, startVars, worldVars, SlotsAgree, CleanedUp, OwnerSound, StartSound
<1>3. ASSUME NEW r \in AccountStarts PROVE OwnerSound(r)' /\ StartSound(r)'
  BY DEF LateStarted, BusIs, slotVars, startVars, worldVars, SlotsAgree, CleanedUp, OwnerSound, StartSound
<1> QED BY <1>1, <1>2, <1>3


LEMMA LateStoppedSound ==
  ASSUME GatewayInv, NEW s \in AccountStarts, LateStopped(s) PROVE GatewayInv'
<1> USE GatewayAssumption DEF GatewayInv, GatewaySound, GatewayTyped, Callers, None
<1>1. GatewayTyped'
  BY DEF LateStopped, BusIs, slotVars, startVars, worldVars
<1>2. SlotsAgree' /\ CleanedUp'
  BY DEF LateStopped, BusIs, slotVars, startVars, worldVars, SlotsAgree, CleanedUp, OwnerSound, StartSound
<1>3. ASSUME NEW r \in AccountStarts PROVE OwnerSound(r)' /\ StartSound(r)'
  BY DEF LateStopped, BusIs, slotVars, startVars, worldVars, SlotsAgree, CleanedUp, OwnerSound, StartSound
<1> QED BY <1>1, <1>2, <1>3


LEMMA OwnStoppedSound ==
  ASSUME GatewayInv, NEW s \in AccountStarts, OwnStopped(s) PROVE GatewayInv'
<1> USE GatewayAssumption DEF GatewayInv, GatewaySound, GatewayTyped, Callers, None
<1>1. GatewayTyped'
  BY DEF OwnStopped, To, BusIs, slotVars, startVars, worldVars
<1>2. SlotsAgree' /\ CleanedUp'
  BY DEF OwnStopped, To, BusIs, slotVars, startVars, worldVars, SlotsAgree, CleanedUp, OwnerSound, StartSound
<1>3. ASSUME NEW r \in AccountStarts PROVE OwnerSound(r)' /\ StartSound(r)'
  BY DEF OwnStopped, To, BusIs, slotVars, startVars, worldVars, SlotsAgree, CleanedUp, OwnerSound, StartSound
<1> QED BY <1>1, <1>2, <1>3


LEMMA HooksOverSound ==
  ASSUME GatewayInv, NEW s \in AccountStarts, HooksOver(s) PROVE GatewayInv'
<1> USE GatewayAssumption DEF GatewayInv, GatewaySound, GatewayTyped, Callers, None
<1>1. GatewayTyped'
  BY DEF HooksOver, To, slotVars, startVars, worldVars
<1>2. SlotsAgree' /\ CleanedUp'
  BY DEF HooksOver, To, slotVars, startVars, worldVars, SlotsAgree, CleanedUp, OwnerSound, StartSound
<1>3. ASSUME NEW r \in AccountStarts PROVE OwnerSound(r)' /\ StartSound(r)'
  BY DEF HooksOver, To, slotVars, startVars, worldVars, SlotsAgree, CleanedUp, OwnerSound, StartSound
<1> QED BY <1>1, <1>2, <1>3


LEMMA AbortAccountSound ==
  ASSUME GatewayInv, NEW s \in AccountStarts, AbortAccount(s) PROVE GatewayInv'
<1> USE GatewayAssumption DEF GatewayInv, GatewaySound, GatewayTyped, Callers, None
<1>1. GatewayTyped'
  BY DEF AbortAccount, slotVars, startVars, worldVars
<1>2. SlotsAgree' /\ CleanedUp'
  BY DEF AbortAccount, slotVars, startVars, worldVars, SlotsAgree, CleanedUp, OwnerSound, StartSound
<1>3. ASSUME NEW r \in AccountStarts PROVE OwnerSound(r)' /\ StartSound(r)'
  BY DEF AbortAccount, slotVars, startVars, worldVars, SlotsAgree, CleanedUp, OwnerSound, StartSound
<1> QED BY <1>1, <1>2, <1>3


LEMMA AbortSeenSound ==
  ASSUME GatewayInv, NEW s \in AccountStarts, ~Resuming, AbortSeen(s) PROVE GatewayInv'
<1>0. cleanup = "none" /\ BeginCleanup => TellsTheEnd
  BY CleanupTells
<1> USE GatewayAssumption DEF GatewayInv, GatewaySound, GatewayTyped, Callers, None
<1>1. GatewayTyped'
  BY <1>0, HooksInOrder DEF AbortSeen, To, Mine, Cleanup, TellsTheEnd, slotVars, startVars, worldVars
<1>2. SlotsAgree' /\ CleanedUp'
  BY <1>0, GatewayQuiet, HooksInOrder DEF AbortSeen, To, Mine, Cleanup, TellsTheEnd, slotVars, startVars, worldVars, SlotsAgree, CleanedUp, OwnerSound, StartSound
<1>3. ASSUME NEW r \in AccountStarts PROVE OwnerSound(r)' /\ StartSound(r)'
  <2>1. OwnerSound(r)'
    BY <1>0, GatewayQuiet, HooksInOrder DEF AbortSeen, To, Mine, Cleanup, TellsTheEnd, slotVars, startVars, worldVars, SlotsAgree, CleanedUp, OwnerSound, StartSound
  <2>2. StartSound(r)'
    BY <1>0, GatewayQuiet, HooksInOrder DEF AbortSeen, To, Mine, Cleanup, TellsTheEnd, slotVars, startVars, worldVars, SlotsAgree, CleanedUp, OwnerSound, StartSound
  <2> QED BY <2>1, <2>2
<1> QED BY <1>1, <1>2, <1>3


LEMMA LeftSound ==
  ASSUME GatewayInv, NEW s \in AccountStarts, Left(s) PROVE GatewayInv'
<1> USE GatewayAssumption DEF GatewayInv, GatewaySound, GatewayTyped, Callers, None
<1>1. GatewayTyped'
  BY DEF Left, To, slotVars, startVars, worldVars
<1>2. SlotsAgree' /\ CleanedUp'
  BY DEF Left, To, slotVars, startVars, worldVars, SlotsAgree, CleanedUp, OwnerSound, StartSound
<1>3. ASSUME NEW r \in AccountStarts PROVE OwnerSound(r)' /\ StartSound(r)'
  BY DEF Left, To, slotVars, startVars, worldVars, SlotsAgree, CleanedUp, OwnerSound, StartSound
<1> QED BY <1>1, <1>2, <1>3


LEMMA GatewayStep == GatewayInv /\ [GatewayNext]_gatewayVars => GatewayInv'
<1> SUFFICES ASSUME GatewayInv, [GatewayNext]_gatewayVars PROVE GatewayInv'
  OBVIOUS
<1>1. ASSUME NEW c \in Callers, Rejoin(c) PROVE GatewayInv'
  BY <1>1, RejoinSound
<1>2. CASE CleanupGoesOn
  BY <1>2, ExtensionsStoppedSound, ServiceStoppedSound, ToolsClosedSound, ConnectionDrainedSound,
     DrainFailsSound DEF CleanupGoesOn
<1>3. CASE ~Resuming /\ StopAccount
  BY <1>3, StopAccountSound
<1>4. ASSUME NEW s \in AccountStarts, Entered(s) \/ Loaded(s) \/ Left(s) PROVE GatewayInv'
  BY <1>4, EnteredSound, LoadedSound, LeftSound
<1>5. ASSUME NEW s \in AccountStarts, ~Resuming,
             \/ BeginStart(s) \/ Connected(s) \/ StaleClosed(s) \/ ServiceStarted(s)
             \/ ServiceStartFails(s) \/ FailedStopped(s) \/ AbortedStarting(s) \/ OwnStopped(s)
             \/ HooksOver(s) \/ AbortSeen(s) \/ LateStarted(s) \/ LateStopped(s) \/ AbortAccount(s)
      PROVE GatewayInv'
  BY <1>5, BeginStartSound, ConnectedSound, StaleClosedSound, ServiceStartedSound,
     ServiceStartFailsSound, FailedStoppedSound, AbortedStartingSound, OwnStoppedSound,
     HooksOverSound, AbortSeenSound, LateStartedSound, LateStoppedSound, AbortAccountSound
<1>6. CASE UNCHANGED gatewayVars
  BY <1>6 DEF gatewayVars, slotVars, startVars, worldVars, GatewayInv, GatewayTyped, GatewaySound,
     SlotsAgree, CleanedUp, OwnerSound, StartSound, Callers
<1> QED BY <1>1, <1>2, <1>3, <1>4, <1>5, <1>6 DEF GatewayNext

LEMMA GatewayInvariant == GatewaySpec => []GatewayInv
<1> QED BY GatewayInitial, GatewayStep, PTL DEF GatewaySpec

LEMMA GatewaySafe == GatewayInv => NothingLeftBehind
<1> SUFFICES ASSUME GatewayInv PROVE NothingLeftBehind
  OBVIOUS
<1> USE DEF GatewayInv, GatewaySound
<1>1. {s \in AccountStarts : bus[s] = "up"} \subseteq {gnc}
  BY GatewayAssumption DEF StartSound
<1>2. {gsvc, gtools, gnc, gext} \ {None} \subseteq {IF gnc = None THEN gext ELSE gnc}
  BY DEF SlotsAgree
<1>3. ASSUME NEW A, NEW x, A \subseteq {x} PROVE Cardinality(A) <= 1
  <2>1. IsFiniteSet({x}) /\ Cardinality({x}) = 1
    BY FS_Singleton
  <2>2. A \in SUBSET {x}
    BY <1>3
  <2> QED BY <2>1, <2>2, FS_Subset
<1>4. \A s \in AccountStarts : conn[s] = "open" =>
        gnc = s \/ phase[s] = "stale" \/ (wiped[s] /\ bus[s] = "none")
  BY DEF StartSound
<1>5. WipedWhenClosed
  BY DEF StartSound, WipedWhenClosed, NotHeard
<1> QED BY <1>1, <1>2, <1>3, <1>4, <1>5 DEF NothingLeftBehind, NothingOrphaned

\* Two services never serve the account's address at once, the gateway never
\* holds what two starts made, and a connection that is open, or whose
\* credentials are kept, is one that a cleanup still finds (gateway.ts:
\* activeStart, runCleanup, startNatsGateway).
THEOREM LittleIsLeftBehind == GatewaySpec => []NothingLeftBehind
<1> QED BY GatewayInvariant, GatewaySafe, PTL

\* The extensions of a start that heard started() hear stopping(), once, before
\* the service leaves the bus and before the start is over (gateway.ts: runCleanup,
\* the hooks of a start that is still the gateway's).
THEOREM TheEndIsHeard == GatewaySpec => []ExtensionsHearTheEnd
<1>1. GatewayInv => ExtensionsHearTheEnd
  BY HooksInOrder DEF GatewayInv, GatewayTyped, GatewaySound, StartSound, ExtensionsHearTheEnd,
     NotHeard, HeardStart, HeardEnd
<1> QED BY <1>1, GatewayInvariant, PTL
=============================================================================
