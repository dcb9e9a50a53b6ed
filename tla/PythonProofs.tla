------------------------------ MODULE PythonProofs ------------------------------
(***************************************************************************)
(* What the run of MCPython checks of the Python SDKs on small instances,  *)
(* for every value of the constants: the tasks of a service (PyService)    *)
(* and the streams of a client (PyStream).                                 *)
(***************************************************************************)
EXTENDS PyService, PyStream, FiniteSetTheorems, TLAPS

(***************************************************************************)
(* The service.                                                            *)
(***************************************************************************)

Kinds == {"ack", "more", "error", "end"}
Places == Running \cup {"away", "queued", "waiting", "granted", "dropped", "gone"}
Intake == {"serving", "heartbeat"}

Typed ==
  /\ limit \in Limits /\ starts \in 1..PyStarts /\ slots \in Int
  /\ phase \in {"serving", "heartbeat", "gathering", "stopped"}
  /\ heartbeat \in BOOLEAN
  /\ stopper \in Prompts \cup {Outside} /\ dispatched \in Prompts \cup {Outside}
  /\ queue \in Seq(Prompts)
  /\ stage \in [Prompts -> Places]
  /\ era \in [Prompts -> 1..starts]
  /\ cancelled \in [Prompts -> BOOLEAN] /\ keepalive \in [Prompts -> BOOLEAN]
  /\ frames \in [Prompts -> Seq(Kinds)]

\* A request is in the queue once, and there only before it is taken.
QueueSound ==
  /\ \A i \in DOMAIN queue : stage[queue[i]] = "queued"
  /\ \A i, j \in DOMAIN queue : queue[i] = queue[j] => i = j

\* Nobody waits for a slot of a semaphore that is gone.
WaitsForCurrent ==
  \A p \in Prompts : stage[p] \in {"waiting", "granted"} => Concurrent /\ era[p] = starts

\* Once the endpoint is gone nothing is left that has not begun.
EndpointGone ==
  phase \notin Intake =>
    ~heartbeat /\ \A p \in Prompts : stage[p] \notin {"queued", "waiting", "granted"}

CallerOnly == phase = "stopped" /\ Concurrent => Tasks \subseteq {stopper}

Holding == {p \in Prompts : era[p] = starts /\ stage[p] \in Running \cup {"granted"}}

\* What the caller of a prompt at st has been sent, and when its keep-alive
\* task, which sends on its own, may still run.
NotBegun == {"away", "queued", "waiting", "granted", "dropped", "admitting", "intercepting"}
Open(f) == \A i \in DOMAIN f : f[i] \notin {"error", "end"}
Acked(f) == f # <<>> /\ f[1] = "ack"

Framed(st, ka, f) ==
  /\ st \in NotBegun => f = <<>> /\ ~ka
  /\ ka => st \in {"handling", "failing", "answered", "closing"}
  /\ st \in {"handling", "failing", "answered"} \/ ka => Open(f)
  /\ st = "handling" \/ ka => Acked(f)
  /\ st = "closing" => \A i \in DOMAIN f : f[i] # "end" /\ (f[i] = "error" => i = Len(f))
  /\ \A i \in DOMAIN f : f[i] = "end" => i = Len(f)
  /\ \A i \in DOMAIN f : f[i] = "error" => Len(f) <= i + 1
  /\ st \in {"ended", "gone"} <=> (f # <<>> /\ Last(f) = "end")
  /\ (\E i \in DOMAIN f : f[i] = "more") => f[1] = "ack"

FramesSound == \A p \in Prompts : Framed(stage[p], keepalive[p], frames[p])

ServiceInv ==
  /\ Typed /\ QueueSound /\ WaitsForCurrent /\ EndpointGone /\ CallerOnly
  /\ SlotsConserved /\ FramesSound

USE DEF Places, Intake, Running

LEMMA PromptsFinite == IsFiniteSet(Prompts)
<1>1. PICK n \in 0..Cardinality(Prompts) : Prompts = 1..n
  BY PyServiceAssumption
<1>2. n \in Nat
  OBVIOUS
<1>3. QED
  BY <1>1, <1>2, FS_Interval

\* One frame more.
OneMore(f, g, k) ==
  /\ Len(g) = Len(f) + 1 /\ Len(f) \in Nat
  /\ DOMAIN g = 1..(Len(f) + 1) /\ DOMAIN f = 1..Len(f)
  /\ g # <<>> /\ Last(g) = k /\ g[Len(f) + 1] = k
  /\ \A i \in 1..Len(f) : g[i] = f[i]
  /\ (f = <<>> <=> Len(f) = 0)

LEMMA Sends ==
  ASSUME NEW f \in Seq(Kinds), NEW k \in Kinds
  PROVE  Append(f, k) \in Seq(Kinds) /\ OneMore(f, Append(f, k), k)
BY DEF Last, OneMore

LEMMA FramedMore ==
  ASSUME NEW f \in Seq(Kinds), NEW st, NEW ka \in BOOLEAN, Framed(st, ka, f),
         st = "handling" \/ ka
  PROVE  Framed(st, ka, Append(f, "more"))
<1> DEFINE g == Append(f, "more")
<1>1. OneMore(f, g, "more")
  BY Sends DEF Kinds
<1>2. Open(f) /\ Acked(f) /\ st \in {"handling", "failing", "answered", "closing"}
  BY DEF Framed
<1> HIDE DEF g
<1>3. Open(g) /\ Acked(g) /\ Last(g) = "more"
  BY <1>1, <1>2 DEF OneMore, Open, Acked
<1>4. Framed(st, ka, g)
  BY <1>2, <1>3 DEF Framed, Open, Acked, NotBegun
<1>5. QED
  BY <1>4 DEF g

LEMMA FramedAck ==
  ASSUME NEW f \in Seq(Kinds), Framed("intercepting", FALSE, f)
  PROVE  Framed("handling", TRUE, Append(f, "ack"))
<1> DEFINE g == Append(f, "ack")
<1>1. OneMore(f, g, "ack") /\ f = <<>>
  BY Sends DEF Kinds, Framed, NotBegun
<1> HIDE DEF g
<1>2. DOMAIN g = 1..1 /\ g[1] = "ack" /\ g # <<>> /\ Last(g) = "ack"
  BY <1>1 DEF OneMore
<1>3. Framed("handling", TRUE, g)
  BY <1>2 DEF Framed, Open, Acked, NotBegun
<1>4. QED
  BY <1>3 DEF g

LEMMA FramedError ==
  ASSUME NEW f \in Seq(Kinds), NEW st \in {"admitting", "failing"}, NEW ka, Framed(st, ka, f)
  PROVE  Framed("closing", FALSE, Append(f, "error"))
<1> DEFINE g == Append(f, "error")
<1>1. OneMore(f, g, "error")
  BY Sends DEF Kinds
<1>2. Open(f)
  BY DEF Framed, Open, NotBegun
<1> HIDE DEF g
<1>3. /\ \A i \in DOMAIN g : g[i] # "end" /\ (g[i] = "error" => i = Len(g))
      /\ Len(g) \in Nat /\ DOMAIN g = 1..Len(g) /\ Last(g) = "error"
  BY <1>1, <1>2 DEF OneMore, Open
<1>4. (\E i \in DOMAIN g : g[i] = "more") => g[1] = "ack"
  BY <1>1 DEF OneMore, Framed
<1>5. Framed("closing", FALSE, g)
  BY <1>3, <1>4 DEF Framed, NotBegun
<1>6. QED
  BY <1>5 DEF g

LEMMA FramedEnd ==
  ASSUME NEW f \in Seq(Kinds), NEW ka, Framed("closing", ka, f)
  PROVE  Framed("ended", FALSE, Append(f, "end"))
<1> DEFINE g == Append(f, "end")
<1>1. OneMore(f, g, "end")
  BY Sends DEF Kinds
<1>2. \A i \in DOMAIN f : f[i] # "end" /\ (f[i] = "error" => i = Len(f))
  BY DEF Framed
<1> HIDE DEF g
<1>3. /\ \A i \in DOMAIN g : g[i] = "end" => i = Len(g)
      /\ \A i \in DOMAIN g : g[i] = "error" => Len(g) <= i + 1
      /\ g # <<>> /\ Last(g) = "end"
  BY <1>1, <1>2 DEF OneMore
<1>4. (\E i \in DOMAIN g : g[i] = "more") => g[1] = "ack"
  BY <1>1 DEF OneMore, Framed
<1>5. Framed("ended", FALSE, g)
  BY <1>3, <1>4 DEF Framed, NotBegun
<1>6. QED
  BY <1>5 DEF g

\* The steps of a prompt that send nothing.
LEMMA FramedQuiet ==
  ASSUME NEW f, NEW st, NEW ka, NEW su, NEW kb, Framed(st, ka, f),
         \/ st \in NotBegun /\ su \in NotBegun /\ kb = ka
         \/ st = "intercepting" /\ su = "failing" /\ kb = ka
         \/ st = "handling" /\ su \in {"answered", "failing"} /\ kb = ka
         \/ st = "answered" /\ su = "closing" /\ kb = FALSE
         \/ st \in {"admitting", "intercepting", "handling"} /\ su = "closing" /\ kb = ka
         \/ st = "ended" /\ su = "gone" /\ kb = ka
  PROVE  Framed(su, kb, f)
BY DEF Framed, Open, Acked, NotBegun
-----------------------------------------------------------------------------
\* A step of one prompt, in the task that serves it or in its keep-alive.
Works(p) ==
  /\ UNCHANGED <<service, intake>>
  /\ \/ UNCHANGED stage
     \/ stage[p] \in Running /\ \E su \in Running : stage' = [stage EXCEPT ![p] = su]
  /\ cancelled' \in [Prompts -> BOOLEAN]
  /\ \E kb \in BOOLEAN : keepalive' = [keepalive EXCEPT ![p] = kb]
  /\ \E g \in Seq(Kinds) : frames' = [frames EXCEPT ![p] = g]
  /\ Framed(stage'[p], keepalive'[p], frames'[p])

WorkSteps(p) ==
  \/ AdmitPrompt(p) \/ Intercepted(p) \/ HandlerSends(p) \/ HandlerEnds(p) \/ KeepAlive(p)
  \/ KeepAliveStopped(p) \/ Cancelled(p) \/ Terminate(p)

\* One that moves a prompt from one place to another and sends something.
LEMMA MovesOn ==
  ASSUME Typed, NEW p \in Prompts, stage[p] \in Running, NEW su \in Running,
         NEW kb \in BOOLEAN, NEW g \in Seq(Kinds), UNCHANGED <<service, intake>>,
         stage' = [stage EXCEPT ![p] = su], keepalive' = [keepalive EXCEPT ![p] = kb],
         frames' = [frames EXCEPT ![p] = g], cancelled' \in [Prompts -> BOOLEAN],
         Framed(su, kb, g)
  PROVE  Works(p)
<1>1. stage'[p] = su /\ keepalive'[p] = kb /\ frames'[p] = g
  BY DEF Typed
<1>2. QED
  BY <1>1 DEF Works

LEMMA WorkIsWork ==
  ASSUME Typed, FramesSound, NEW p \in Prompts, WorkSteps(p)
  PROVE  Works(p)
<1> DEFINE f == frames[p]  ka == keepalive[p]
<1>1. /\ f \in Seq(Kinds) /\ ka \in BOOLEAN /\ Framed(stage[p], ka, f)
      /\ frames = [frames EXCEPT ![p] = f] /\ keepalive = [keepalive EXCEPT ![p] = ka]
      /\ stage \in [Prompts -> Places] /\ cancelled \in [Prompts -> BOOLEAN]
  BY DEF Typed, FramesSound
<1>2. /\ Append(f, "more") \in Seq(Kinds) /\ Append(f, "ack") \in Seq(Kinds)
      /\ Append(f, "error") \in Seq(Kinds) /\ Append(f, "end") \in Seq(Kinds)
  BY <1>1, Sends DEF Kinds
<1>3. ASSUME NEW k, Send(p, k) PROVE frames' = [frames EXCEPT ![p] = Append(f, k)]
  BY <1>3 DEF Send
<1> HIDE DEF f, ka
<1>4. CASE AdmitPrompt(p)
  <2>1. stage[p] = "admitting" /\ UNCHANGED <<service, intake, cancelled, keepalive>>
    BY <1>4 DEF AdmitPrompt
  <2>2. CASE To(p, "intercepting") /\ UNCHANGED frames
    <3>1. Framed("intercepting", ka, f)
      BY <1>1, <2>1, FramedQuiet DEF NotBegun
    <3>2. QED
      BY <1>1, <2>1, <2>2, <3>1, MovesOn DEF To
  <2>3. CASE To(p, "closing") /\ Send(p, "error")
    <3>1. ka = FALSE
      BY <1>1, <2>1 DEF Framed, NotBegun
    <3>2. Framed("closing", FALSE, Append(f, "error"))
      BY <1>1, <2>1, FramedError
    <3>3. QED
      BY <1>1, <1>2, <1>3, <2>1, <2>3, <3>1, <3>2, MovesOn DEF To
  <2>4. QED
    BY <1>4, <2>2, <2>3 DEF AdmitPrompt
<1>5. CASE Intercepted(p)
  <2>1. stage[p] = "intercepting" /\ UNCHANGED <<service, intake, cancelled>>
    BY <1>5 DEF Intercepted
  <2>2. CASE To(p, "handling") /\ Send(p, "ack") /\ keepalive' = [keepalive EXCEPT ![p] = TRUE]
    <3>1. ka = FALSE
      BY <1>1, <2>1 DEF Framed, NotBegun
    <3>2. Framed("handling", TRUE, Append(f, "ack"))
      BY <1>1, <2>1, <3>1, FramedAck
    <3>3. QED
      BY <1>1, <1>2, <1>3, <2>1, <2>2, <3>2, MovesOn DEF To
  <2>3. CASE To(p, "failing") /\ UNCHANGED <<frames, keepalive>>
    <3>1. Framed("failing", ka, f)
      BY <1>1, <2>1, FramedQuiet
    <3>2. QED
      BY <1>1, <2>1, <2>3, <3>1, MovesOn DEF To
  <2>4. QED
    BY <1>5, <2>2, <2>3 DEF Intercepted
<1>6. CASE HandlerSends(p) \/ KeepAlive(p)
  <2>1. /\ stage[p] = "handling" \/ ka
        /\ Send(p, "more") /\ UNCHANGED <<service, intake, stage, cancelled, keepalive>>
    BY <1>6 DEF HandlerSends, KeepAlive, ka
  <2>2. Framed(stage[p], ka, Append(f, "more"))
    BY <1>1, <2>1, FramedMore
  <2>3. frames'[p] = Append(f, "more") /\ stage'[p] = stage[p] /\ keepalive'[p] = ka
    BY <1>3, <2>1 DEF Typed, ka
  <2>4. QED
    BY <1>1, <1>2, <1>3, <2>1, <2>2, <2>3 DEF Works
<1>7. CASE HandlerEnds(p)
  <2>1. stage[p] = "handling" /\ UNCHANGED <<service, intake, cancelled, keepalive, frames>>
    BY <1>7 DEF HandlerEnds
  <2>2. PICK how \in {"answered", "failing"} : To(p, how)
    BY <1>7 DEF HandlerEnds
  <2>3. Framed(how, ka, f)
    BY <1>1, <2>1, FramedQuiet
  <2>4. QED
    BY <1>1, <2>1, <2>2, <2>3, MovesOn DEF To
<1>8. CASE KeepAliveStopped(p)
  <2>1. /\ stage[p] \in {"failing", "answered"} /\ UNCHANGED <<service, intake>>
        /\ keepalive' = [keepalive EXCEPT ![p] = FALSE] /\ To(p, "closing")
        /\ cancelled' \in [Prompts -> BOOLEAN]
    BY <1>1, <1>8 DEF KeepAliveStopped
  <2>2. CASE stage[p] = "failing"
    <3>1. Framed("closing", FALSE, Append(f, "error"))
      BY <1>1, <2>2, FramedError
    <3>2. Send(p, "error")
      BY <1>8, <2>2 DEF KeepAliveStopped
    <3>3. QED
      BY <1>1, <1>2, <1>3, <2>1, <3>1, <3>2, MovesOn DEF To
  <2>3. CASE stage[p] = "answered"
    <3>1. Framed("closing", FALSE, f)
      BY <1>1, <2>3, FramedQuiet
    <3>2. UNCHANGED frames
      BY <1>8, <2>3 DEF KeepAliveStopped
    <3>3. QED
      BY <1>1, <2>1, <3>1, <3>2, MovesOn DEF To
  <2>4. QED
    BY <2>1, <2>2, <2>3
<1>9. CASE Cancelled(p)
  <2>1. /\ stage[p] \in {"admitting", "intercepting", "handling"} /\ To(p, "closing")
        /\ UNCHANGED <<service, intake, keepalive, frames>>
        /\ cancelled' \in [Prompts -> BOOLEAN]
    BY <1>1, <1>9 DEF Cancelled
  <2>2. Framed("closing", ka, f)
    BY <1>1, <2>1, FramedQuiet
  <2>3. QED
    BY <1>1, <2>1, <2>2, MovesOn DEF To
<1>10. CASE Terminate(p)
  <2>1. /\ stage[p] = "closing" /\ Send(p, "end") /\ To(p, "ended")
        /\ keepalive' = [keepalive EXCEPT ![p] = FALSE]
        /\ UNCHANGED <<service, intake, cancelled>>
    BY <1>10 DEF Terminate
  <2>2. Framed("ended", FALSE, Append(f, "end"))
    BY <1>1, <2>1, FramedEnd
  <2>3. QED
    BY <1>1, <1>2, <1>3, <2>1, <2>2, MovesOn DEF To
<1>11. QED
  BY <1>4, <1>5, <1>6, <1>7, <1>8, <1>9, <1>10 DEF WorkSteps

\* It leaves the queue, the slots and stop() alone.
LEMMA WorkKeeps ==
  ASSUME ServiceInv, NEW p \in Prompts, Works(p)
  PROVE  ServiceInv'
<1>1. /\ UNCHANGED <<limit, phase, starts, stopper, heartbeat, queue, dispatched, slots, era>>
      /\ Typed /\ QueueSound /\ WaitsForCurrent /\ EndpointGone /\ CallerOnly
      /\ SlotsConserved /\ FramesSound
  BY DEF Works, service, intake, ServiceInv
<1>2. Typed'
  <2>1. frames' \in [Prompts -> Seq(Kinds)]
    BY <1>1 DEF Works, Typed
  <2>2. keepalive' \in [Prompts -> BOOLEAN] /\ cancelled' \in [Prompts -> BOOLEAN]
    BY <1>1 DEF Works, Typed
  <2>3. stage' \in [Prompts -> Places]
    BY <1>1 DEF Works, Typed
  <2>4. QED
    BY <1>1, <2>1, <2>2, <2>3 DEF Typed
<1>3. \A q \in Prompts : stage'[q] = stage[q] \/ (stage[q] \in Running /\ stage'[q] \in Running)
  BY <1>1 DEF Works, Typed
<1>4. QueueSound'
  <2>1. \A i \in DOMAIN queue : queue[i] \in Prompts
    BY <1>1 DEF Typed
  <2>2. QED
    BY <1>1, <1>3, <2>1 DEF QueueSound
<1>5. WaitsForCurrent' /\ EndpointGone'
  BY <1>1, <1>3 DEF WaitsForCurrent, EndpointGone, Concurrent
<1>6. CallerOnly' /\ Holding' = Holding
  BY <1>1, <1>3 DEF CallerOnly, Tasks, Holding, Concurrent
<1>7. SlotsConserved'
  BY <1>1, <1>6 DEF SlotsConserved, Holding, Concurrent
<1>8. FramesSound'
  <2>1. ASSUME NEW q \in Prompts PROVE Framed(stage'[q], keepalive'[q], frames'[q])
    <3>1. CASE q = p
      BY <3>1 DEF Works
    <3>2. CASE q # p
      <4>1. stage'[q] = stage[q] /\ keepalive'[q] = keepalive[q] /\ frames'[q] = frames[q]
        BY <1>1, <3>2 DEF Works, Typed
      <4>2. QED
        BY <1>1, <4>1 DEF FramesSound
    <3>3. QED
      BY <3>1, <3>2
  <2>2. QED
    BY <2>1 DEF FramesSound
<1>9. QED
  BY <1>2, <1>4, <1>5, <1>6, <1>7, <1>8 DEF ServiceInv
-----------------------------------------------------------------------------
\* Prompts that have been sent nothing change places, or one is over.
LEMMA FramesRest ==
  ASSUME Typed, FramesSound, UNCHANGED <<keepalive, frames>>,
         \A q \in Prompts :
           \/ stage'[q] = stage[q]
           \/ stage[q] \in NotBegun /\ stage'[q] \in NotBegun
           \/ stage[q] = "ended" /\ stage'[q] = "gone"
  PROVE  FramesSound'
<1>1. ASSUME NEW q \in Prompts PROVE Framed(stage'[q], keepalive[q], frames[q])
  <2>1. Framed(stage[q], keepalive[q], frames[q])
    BY DEF FramesSound
  <2>2. CASE stage'[q] = stage[q]
    BY <2>1, <2>2
  <2>3. CASE \/ stage[q] \in NotBegun /\ stage'[q] \in NotBegun
             \/ stage[q] = "ended" /\ stage'[q] = "gone"
    BY <2>1, <2>3, FramedQuiet
  <2>4. QED
    BY <2>2, <2>3
<1>2. QED
  BY <1>1 DEF FramesSound

LEMMA HoldingFinite ==
  ASSUME NEW T \in SUBSET Prompts
  PROVE  IsFiniteSet(T) /\ Cardinality(T) \in Nat
BY PromptsFinite, FS_Subset, FS_CardinalityType

LEMMA ArrivesKeeps ==
  ASSUME ServiceInv, NEW p \in Prompts, PromptArrives(p)
  PROVE  ServiceInv'
<1>1. /\ Typed /\ QueueSound /\ WaitsForCurrent /\ EndpointGone /\ CallerOnly
      /\ SlotsConserved /\ FramesSound
  BY DEF ServiceInv
<1>2. /\ phase \in Intake /\ stage[p] = "away" /\ stage' = [stage EXCEPT ![p] = "queued"]
      /\ queue' = Append(queue, p)
      /\ UNCHANGED <<limit, phase, starts, stopper, heartbeat, dispatched, slots, era,
                     cancelled, keepalive, frames>>
  BY DEF PromptArrives, To, service
<1>3. \A q \in Prompts : stage'[q] = IF q = p THEN "queued" ELSE stage[q]
  BY <1>1, <1>2 DEF Typed
<1>4. /\ queue \in Seq(Prompts) /\ DOMAIN queue = 1..Len(queue) /\ Len(queue) \in Nat
      /\ DOMAIN queue' = 1..(Len(queue) + 1) /\ queue'[Len(queue) + 1] = p
      /\ queue' \in Seq(Prompts) /\ \A i \in DOMAIN queue : queue'[i] = queue[i]
  BY <1>1, <1>2 DEF Typed
<1>5. Typed'
  BY <1>1, <1>2, <1>4 DEF Typed
<1>6. \A i \in DOMAIN queue : queue[i] \in Prompts /\ queue[i] # p
  BY <1>1, <1>2, <1>4 DEF QueueSound
<1>7. QueueSound'
  BY <1>1, <1>3, <1>4, <1>6 DEF QueueSound
<1>8. WaitsForCurrent' /\ EndpointGone'
  BY <1>1, <1>2, <1>3 DEF WaitsForCurrent, EndpointGone, Concurrent
<1>9. CallerOnly' /\ Holding' = Holding
  BY <1>1, <1>2, <1>3 DEF CallerOnly, Tasks, Holding, Concurrent
<1>10. SlotsConserved'
  BY <1>1, <1>2, <1>9 DEF SlotsConserved, Holding, Concurrent
<1>11. FramesSound'
  BY <1>1, <1>2, <1>3, FramesRest DEF NotBegun
<1>12. QED
  BY <1>5, <1>7, <1>8, <1>9, <1>10, <1>11 DEF ServiceInv

\* Above 1 a request that is taken takes a slot, or waits for one.
LEMMA TakeKeeps ==
  ASSUME ServiceInv, TakeRequest
  PROVE  ServiceInv'
<1>1. /\ Typed /\ QueueSound /\ WaitsForCurrent /\ EndpointGone /\ CallerOnly
      /\ SlotsConserved /\ FramesSound
  BY DEF ServiceInv
<1>2. PICK p : p = Head(queue)
  OBVIOUS
<1>3. /\ queue \in Seq(Prompts) /\ DOMAIN queue = 1..Len(queue) /\ Len(queue) \in Nat
      /\ queue # <<>> /\ phase \in Intake
  BY <1>1 DEF Typed, TakeRequest
<1>4. /\ p \in Prompts /\ stage[p] = "queued" /\ p = queue[1] /\ 1 \in DOMAIN queue
  BY <1>1, <1>2, <1>3 DEF QueueSound
<1>5. PICK free \in BOOLEAN : free = (~Concurrent \/ slots > 0)
  OBVIOUS
<1>6. PICK su \in {"admitting", "waiting"} : su = IF free THEN "admitting" ELSE "waiting"
  OBVIOUS
<1>7. /\ queue' = Tail(queue) /\ era' = [era EXCEPT ![p] = starts]
      /\ stage' = [stage EXCEPT ![p] = su]
      /\ slots' = IF Concurrent /\ free THEN slots - 1 ELSE slots
      /\ dispatched' \in Prompts \cup {Outside}
      /\ UNCHANGED <<limit, phase, starts, stopper, heartbeat, cancelled, keepalive, frames>>
  BY <1>2, <1>4, <1>5, <1>6 DEF TakeRequest, To, service
<1>8. \A q \in Prompts : /\ stage'[q] = IF q = p THEN su ELSE stage[q]
                         /\ era'[q] = IF q = p THEN starts ELSE era[q]
  BY <1>1, <1>7 DEF Typed
<1>9. Concurrent' = Concurrent
  BY <1>7 DEF Concurrent
<1>10. Typed'
  <2>1. queue' \in Seq(Prompts)
    BY <1>3, <1>7
  <2>2. stage' \in [Prompts -> Places] /\ slots' \in Int
    <3>1. slots' \in Int
      <4>1. slots \in Int /\ slots - 1 \in Int
        BY <1>1 DEF Typed
      <4>2. QED
        BY <1>7, <4>1
    <3>2. stage \in [Prompts -> Places] /\ su \in Places
      BY <1>1 DEF Typed
    <3>3. QED
      BY <1>7, <3>1, <3>2
  <2>3. era' \in [Prompts -> 1..starts]
    <3>1. starts \in 1..starts /\ era \in [Prompts -> 1..starts]
      BY <1>1, PyServiceAssumption DEF Typed
    <3>2. QED
      BY <1>7, <3>1
  <2>4. QED
    BY <1>1, <1>7, <2>1, <2>2, <2>3 DEF Typed
<1>11. QueueSound'
  <2>1. /\ DOMAIN queue' = 1..(Len(queue) - 1)
        /\ \A i \in 1..(Len(queue) - 1) : queue'[i] = queue[i + 1] /\ i + 1 \in DOMAIN queue
    BY <1>3, <1>7
  <2>2. \A i \in 1..(Len(queue) - 1) : queue[i + 1] # p
    BY <1>1, <1>3, <1>4, <2>1 DEF QueueSound
  <2>3. ASSUME NEW i \in DOMAIN queue' PROVE stage'[queue'[i]] = "queued"
    <3>1. queue'[i] = queue[i + 1] /\ i + 1 \in DOMAIN queue /\ queue[i + 1] # p
      BY <2>1, <2>2, <2>3
    <3>2. queue[i + 1] \in Prompts /\ stage[queue[i + 1]] = "queued"
      BY <1>1, <1>3, <3>1 DEF QueueSound
    <3>3. QED
      BY <1>8, <3>1, <3>2
  <2>4. ASSUME NEW i \in DOMAIN queue', NEW j \in DOMAIN queue', queue'[i] = queue'[j]
        PROVE  i = j
    <3>1. queue[i + 1] = queue[j + 1] /\ i + 1 \in DOMAIN queue /\ j + 1 \in DOMAIN queue
      BY <2>1, <2>4
    <3>2. i + 1 = j + 1
      BY <1>1, <3>1 DEF QueueSound
    <3>3. QED
      BY <2>1, <3>2
  <2>5. QED
    BY <2>3, <2>4 DEF QueueSound
<1>12. WaitsForCurrent' /\ EndpointGone'
  <2>1. su = "waiting" => Concurrent
    BY <1>5, <1>6
  <2>2. QED
    BY <1>1, <1>3, <1>7, <1>8, <1>9, <2>1 DEF WaitsForCurrent, EndpointGone
<1>13. CallerOnly'
  BY <1>3, <1>7 DEF CallerOnly
<1>14. SlotsConserved'
  <2>1. p \notin Holding /\ Holding \in SUBSET Prompts
    BY <1>4 DEF Holding
  <2>2. CASE Concurrent /\ free
    <3>1. Holding' = Holding \cup {p}
      BY <1>4, <1>6, <1>7, <1>8, <2>2 DEF Holding
    <3>2. Cardinality(Holding \cup {p}) = Cardinality(Holding) + 1
      BY <2>1, HoldingFinite, FS_AddElement
    <3>3. slots' = slots - 1 /\ slots + Cardinality(Holding) = limit /\ limit' = limit
      BY <1>1, <1>7, <2>2 DEF SlotsConserved, Holding
    <3>4. slots \in Int /\ Cardinality(Holding) \in Nat
      BY <1>1, <2>1, HoldingFinite DEF Typed
    <3>5. slots' + Cardinality(Holding') = limit'
      BY <3>1, <3>2, <3>3, <3>4
    <3>6. QED
      BY <3>5 DEF SlotsConserved, Holding
  <2>3. CASE Concurrent /\ ~free
    <3>1. Holding' = Holding
      BY <1>4, <1>6, <1>7, <1>8, <2>3 DEF Holding
    <3>2. QED
      BY <1>1, <1>7, <1>9, <2>3, <3>1 DEF SlotsConserved, Holding
  <2>4. CASE ~Concurrent
    BY <1>9, <2>4 DEF SlotsConserved
  <2>5. QED
    BY <2>2, <2>3, <2>4
<1>15. FramesSound'
  BY <1>1, <1>4, <1>6, <1>7, <1>8, FramesRest DEF NotBegun
<1>16. QED
  BY <1>10, <1>11, <1>12, <1>13, <1>14, <1>15 DEF ServiceInv

LEMMA SlotTakenKeeps ==
  ASSUME ServiceInv, NEW p \in Prompts, SlotTaken(p)
  PROVE  ServiceInv'
<1>1. /\ Typed /\ QueueSound /\ WaitsForCurrent /\ EndpointGone /\ CallerOnly
      /\ SlotsConserved /\ FramesSound
  BY DEF ServiceInv
<1>2. /\ phase \in Intake /\ stage[p] = "granted" /\ stage' = [stage EXCEPT ![p] = "admitting"]
      /\ dispatched' = Outside
      /\ UNCHANGED <<limit, phase, starts, stopper, heartbeat, queue, slots, era,
                     cancelled, keepalive, frames>>
  BY DEF SlotTaken, To, service
<1>3. \A q \in Prompts : stage'[q] = IF q = p THEN "admitting" ELSE stage[q]
  BY <1>1, <1>2 DEF Typed
<1>4. Typed'
  BY <1>1, <1>2 DEF Typed
<1>5. QueueSound'
  <2>1. \A i \in DOMAIN queue : queue[i] \in Prompts /\ queue[i] # p
    BY <1>1, <1>2 DEF QueueSound, Typed
  <2>2. QED
    BY <1>1, <1>2, <1>3, <2>1 DEF QueueSound
<1>6. WaitsForCurrent' /\ EndpointGone' /\ CallerOnly'
  BY <1>1, <1>2, <1>3 DEF WaitsForCurrent, EndpointGone, Concurrent, CallerOnly
<1>7. Holding' = Holding
  BY <1>2, <1>3 DEF Holding
<1>8. SlotsConserved'
  BY <1>1, <1>2, <1>7 DEF SlotsConserved, Holding, Concurrent
<1>9. FramesSound'
  BY <1>1, <1>2, <1>3, FramesRest DEF NotBegun
<1>10. QED
  BY <1>4, <1>5, <1>6, <1>8, <1>9 DEF ServiceInv

\* A task that is over gives its slot to one that waits, or back; a task of an
\* earlier start gives its own back to a semaphore nobody has.
LEMMA TaskDoneKeeps ==
  ASSUME ServiceInv, NEW p \in Prompts, TaskDone(p)
  PROVE  ServiceInv'
<1>1. /\ Typed /\ QueueSound /\ WaitsForCurrent /\ EndpointGone /\ CallerOnly
      /\ SlotsConserved /\ FramesSound
  BY DEF ServiceInv
<1>2. /\ stage[p] = "ended" /\ dispatched' \in Prompts \cup {Outside}
      /\ UNCHANGED <<limit, phase, starts, stopper, heartbeat, queue, era,
                     cancelled, keepalive, frames>>
  BY <1>1 DEF TaskDone, service, Typed
<1> DEFINE where == [stage EXCEPT ![p] = "gone"]
           waits == {q \in Prompts : where[q] = "waiting"}
<1>3. \A q \in Prompts : where[q] = IF q = p THEN "gone" ELSE stage[q]
  BY <1>1 DEF Typed
<1>4. \/ (~Concurrent \/ era[p] # starts) /\ stage' = where /\ slots' = slots
      \/ Concurrent /\ era[p] = starts /\ stage' = where /\ slots' = slots + 1
      \/ /\ Concurrent /\ era[p] = starts /\ slots' = slots
         /\ \E w \in Prompts : stage[w] = "waiting" /\ stage' = [where EXCEPT ![w] = "granted"]
  <2>1. CASE Concurrent /\ era[p] = starts
    <3>1. Released(where, slots)
      BY <2>1 DEF TaskDone
    <3>2. CASE waits = {}
      BY <2>1, <3>1, <3>2 DEF Released
    <3>3. CASE waits # {}
      <4>1. PICK w : w = CHOOSE q \in waits : TRUE
        OBVIOUS
      <4>2. w \in waits
        BY <3>3, <4>1
      <4>3. stage' = [where EXCEPT ![w] = "granted"] /\ slots' = slots
        BY <3>1, <3>3, <4>1 DEF Released
      <4>4. w \in Prompts /\ stage[w] = "waiting"
        BY <1>3, <4>2
      <4>5. QED
        BY <2>1, <4>3, <4>4
    <3>4. QED
      BY <3>2, <3>3
  <2>2. CASE ~(Concurrent /\ era[p] = starts)
    BY <2>2 DEF TaskDone
  <2>3. QED
    BY <2>1, <2>2
<1>5. where \in [Prompts -> Places]
  BY <1>1 DEF Typed
<1> HIDE DEF where
<1>6. /\ stage' \in [Prompts -> Places] /\ slots' \in Int /\ stage'[p] = "gone"
      /\ \A q \in Prompts \ {p} :
           \/ stage'[q] = stage[q]
           \/ stage[q] = "waiting" /\ stage'[q] = "granted"
  <2>1. CASE stage' = where /\ slots' \in {slots, slots + 1}
    BY <1>1, <1>3, <1>5, <2>1 DEF Typed
  <2>2. CASE slots' = slots /\ \E w \in Prompts : stage[w] = "waiting"
                                               /\ stage' = [where EXCEPT ![w] = "granted"]
    <3>1. PICK w \in Prompts : stage[w] = "waiting" /\ stage' = [where EXCEPT ![w] = "granted"]
      BY <2>2
    <3>2. w # p /\ \A q \in Prompts : stage'[q] = IF q = w THEN "granted" ELSE where[q]
      BY <1>2, <1>5, <3>1
    <3>3. stage' \in [Prompts -> Places] /\ slots' \in Int
      BY <1>1, <1>5, <2>2, <3>1 DEF Typed
    <3>4. QED
      BY <1>3, <3>1, <3>2, <3>3
  <2>3. QED
    BY <1>4, <2>1, <2>2
<1>7. Typed'
  BY <1>1, <1>2, <1>6 DEF Typed
<1>8. QueueSound'
  <2>1. \A i \in DOMAIN queue : queue[i] \in Prompts \ {p} /\ stage[queue[i]] = "queued"
    BY <1>1, <1>2 DEF QueueSound, Typed
  <2>2. QED
    BY <1>1, <1>2, <1>6, <2>1 DEF QueueSound
<1>9. WaitsForCurrent' /\ EndpointGone' /\ CallerOnly'
  BY <1>1, <1>2, <1>6 DEF WaitsForCurrent, EndpointGone, Concurrent, CallerOnly, Tasks
<1>10. SlotsConserved'
  <2>1. Holding \in SUBSET Prompts /\ Concurrent' = Concurrent
    BY <1>2 DEF Holding, Concurrent
  <2>2. CASE ~Concurrent
    BY <2>1, <2>2 DEF SlotsConserved
  <2>3. CASE Concurrent /\ era[p] # starts
    <3>1. Holding' = Holding
      BY <1>2, <1>3, <1>4, <2>3 DEF Holding
    <3>2. QED
      BY <1>1, <1>2, <1>4, <2>1, <2>3, <3>1 DEF SlotsConserved, Holding
  <2>4. CASE Concurrent /\ era[p] = starts
    <3>0. /\ p \in Holding /\ slots + Cardinality(Holding) = limit
          /\ Cardinality(Holding \ {p}) = Cardinality(Holding) - 1
          /\ Cardinality(Holding) \in Nat /\ slots \in Int
      <4>1. p \in Holding
        BY <1>2, <2>4 DEF Holding
      <4>2. Cardinality(Holding \ {p}) = Cardinality(Holding) - 1
        BY <2>1, <4>1, HoldingFinite, FS_RemoveElement
      <4>3. QED
        BY <1>1, <2>1, <2>4, <4>1, <4>2, HoldingFinite DEF SlotsConserved, Holding, Typed
    <3>1. CASE stage' = where /\ slots' = slots + 1
      <4>1. Holding' = Holding \ {p}
        BY <1>2, <1>3, <3>1 DEF Holding
      <4>2. slots' + Cardinality(Holding') = limit'
        BY <1>2, <3>0, <3>1, <4>1
      <4>3. QED
        BY <4>2 DEF SlotsConserved, Holding
    <3>2. CASE /\ slots' = slots
               /\ \E w \in Prompts : stage[w] = "waiting" /\ stage' = [where EXCEPT ![w] = "granted"]
      <4>1. PICK w \in Prompts : stage[w] = "waiting" /\ stage' = [where EXCEPT ![w] = "granted"]
        BY <3>2
      <4>2. w \notin Holding /\ w # p /\ era[w] = starts
        BY <1>1, <1>2, <4>1 DEF Holding, WaitsForCurrent
      <4>3. \A q \in Prompts : stage'[q] = IF q = w THEN "granted"
                                           ELSE IF q = p THEN "gone" ELSE stage[q]
        BY <1>3, <1>5, <4>1
      <4>4. Holding' = (Holding \ {p}) \cup {w}
        BY <1>2, <4>2, <4>3 DEF Holding
      <4>5. Cardinality((Holding \ {p}) \cup {w}) = Cardinality(Holding \ {p}) + 1
        <5>1. IsFiniteSet(Holding \ {p}) /\ w \notin Holding \ {p}
          BY <2>1, <4>2, HoldingFinite
        <5>2. QED
          BY <5>1, FS_AddElement
      <4>6. slots' + Cardinality(Holding') = limit'
        BY <1>2, <3>0, <3>2, <4>4, <4>5
      <4>7. QED
        BY <4>6 DEF SlotsConserved, Holding
    <3>3. QED
      BY <1>4, <2>4, <3>1, <3>2
  <2>5. QED
    BY <2>2, <2>3, <2>4
<1>11. FramesSound'
  BY <1>1, <1>2, <1>6, FramesRest DEF NotBegun
<1>12. QED
  BY <1>7, <1>8, <1>9, <1>10, <1>11 DEF ServiceInv

LEMMA StopCalledKeeps ==
  ASSUME ServiceInv, NEW by \in Prompts \cup {Outside}, StopCalled(by)
  PROVE  ServiceInv'
<1>1. /\ Typed /\ QueueSound /\ WaitsForCurrent /\ EndpointGone /\ CallerOnly
      /\ SlotsConserved /\ FramesSound
  BY DEF ServiceInv
<1>2. /\ phase' = "heartbeat" /\ stopper' = by /\ phase = "serving"
      /\ UNCHANGED <<limit, starts, heartbeat, queue, dispatched, slots, era, stage,
                     cancelled, keepalive, frames>>
  BY DEF StopCalled, intake, prompting
<1>3. Typed' /\ QueueSound' /\ WaitsForCurrent' /\ EndpointGone' /\ CallerOnly' /\ FramesSound'
  BY <1>1, <1>2 DEF Typed, QueueSound, WaitsForCurrent, EndpointGone, CallerOnly, FramesSound,
                    Concurrent
<1>4. SlotsConserved'
  BY <1>1, <1>2 DEF SlotsConserved, Concurrent
<1>5. QED
  BY <1>3, <1>4 DEF ServiceInv

\* What has not begun is dropped, and a slot given and not taken goes back.
LEMMA UnsubscribedKeeps ==
  ASSUME ServiceInv, Unsubscribed
  PROVE  ServiceInv'
<1>1. /\ Typed /\ QueueSound /\ WaitsForCurrent /\ EndpointGone /\ CallerOnly
      /\ SlotsConserved /\ FramesSound
  BY DEF ServiceInv
<1> DEFINE G == {p \in Prompts : stage[p] = "granted"}
<1>2. /\ heartbeat' = FALSE /\ queue' = <<>>
      /\ stage' = [p \in Prompts |-> IF stage[p] \in {"queued", "waiting", "granted"}
                                     THEN "dropped" ELSE stage[p]]
      /\ slots' = slots + Cardinality(G)
      /\ dispatched' \in Prompts \cup {Outside}
      /\ phase' = IF Concurrent /\ Tasks # {} THEN "gathering" ELSE "stopped"
      /\ UNCHANGED <<limit, starts, stopper, era, keepalive, frames>>
  BY <1>1 DEF Unsubscribed, Typed
<1>3. cancelled' \in [Prompts -> BOOLEAN]
  <2>1. cancelled' = [p \in Prompts |->
          cancelled[p] \/ (stage[p] \in Running \ {"ended"} /\ p # stopper)]
    BY DEF Unsubscribed
  <2>2. \A p \in Prompts : (cancelled[p] \/ (stage[p] \in Running \ {"ended"} /\ p # stopper))
                             \in BOOLEAN
    OBVIOUS
  <2>3. QED
    BY <2>1, <2>2
<1>4. Cardinality(G) \in Nat /\ G \in SUBSET Prompts
  BY HoldingFinite
<1>5. Typed'
  <2>1. stage' \in [Prompts -> Places] /\ queue' \in Seq(Prompts)
    BY <1>1, <1>2 DEF Typed
  <2>2. slots' \in Int
    BY <1>1, <1>2, <1>4 DEF Typed
  <2>3. QED
    BY <1>1, <1>2, <1>3, <2>1, <2>2 DEF Typed
<1>6. QueueSound'
  BY <1>2 DEF QueueSound
<1>7. WaitsForCurrent' /\ EndpointGone'
  BY <1>2 DEF WaitsForCurrent, EndpointGone
<1>8. CallerOnly'
  BY <1>2 DEF CallerOnly, Tasks, Concurrent
<1>9. SlotsConserved'
  <2>1. CASE ~Concurrent
    BY <1>2, <2>1 DEF SlotsConserved, Concurrent
  <2>2. CASE Concurrent
    <3>1. Holding' = Holding \ G
      BY <1>2 DEF Holding
    <3>2. G \subseteq Holding
      BY <1>1 DEF Holding, WaitsForCurrent
    <3>3. Holding \in SUBSET Prompts /\ Holding \cap G = G
      BY <3>2 DEF Holding
    <3>4. /\ Cardinality(Holding \ G) = Cardinality(Holding) - Cardinality(G)
          /\ Cardinality(Holding) \in Nat
      BY <3>3, HoldingFinite, FS_Difference
    <3>5. slots + Cardinality(Holding) = limit /\ slots \in Int
      BY <1>1, <2>2 DEF SlotsConserved, Holding, Typed
    <3>6. slots' + Cardinality(Holding') = limit'
      BY <1>2, <1>4, <3>1, <3>4, <3>5
    <3>7. QED
      BY <3>6 DEF SlotsConserved, Holding
  <2>3. QED
    BY <2>1, <2>2
<1>10. FramesSound'
  BY <1>1, <1>2, FramesRest DEF NotBegun
<1>11. QED
  BY <1>5, <1>6, <1>7, <1>8, <1>9, <1>10 DEF ServiceInv

LEMMA GatheredKeeps ==
  ASSUME ServiceInv, Gathered
  PROVE  ServiceInv'
<1>1. /\ Typed /\ QueueSound /\ WaitsForCurrent /\ EndpointGone /\ CallerOnly
      /\ SlotsConserved /\ FramesSound
  BY DEF ServiceInv
<1>2. /\ phase' = "stopped" /\ phase = "gathering" /\ Tasks \subseteq {stopper}
      /\ UNCHANGED <<limit, starts, stopper, heartbeat, queue, dispatched, slots, era, stage,
                     cancelled, keepalive, frames>>
  BY DEF Gathered, intake, prompting
<1>3. Typed' /\ QueueSound' /\ WaitsForCurrent' /\ EndpointGone' /\ CallerOnly' /\ FramesSound'
  BY <1>1, <1>2 DEF Typed, QueueSound, WaitsForCurrent, EndpointGone, CallerOnly, FramesSound,
                    Concurrent, Tasks
<1>4. SlotsConserved'
  BY <1>1, <1>2 DEF SlotsConserved, Concurrent
<1>5. QED
  BY <1>3, <1>4 DEF ServiceInv

\* A new semaphore, of which nobody holds a slot.
LEMMA StartAgainKeeps ==
  ASSUME ServiceInv, StartAgain
  PROVE  ServiceInv'
<1>1. /\ Typed /\ QueueSound /\ WaitsForCurrent /\ EndpointGone /\ CallerOnly
      /\ SlotsConserved /\ FramesSound
  BY DEF ServiceInv
<1>2. /\ phase = "stopped" /\ starts < PyStarts /\ phase' = "serving" /\ starts' = starts + 1
      /\ heartbeat' = TRUE /\ slots' = limit /\ stopper' = Outside /\ dispatched' = Outside
      /\ UNCHANGED <<limit, queue, era, stage, cancelled, keepalive, frames>>
  BY DEF StartAgain, prompting
<1>3. limit \in Nat /\ PyStarts \in Nat /\ starts \in 1..PyStarts
  BY <1>1, PyServiceAssumption DEF Typed
<1>4. \A p \in Prompts : era[p] \in 1..starts
  BY <1>1 DEF Typed
<1>5. era \in [Prompts -> 1..(starts + 1)] /\ starts + 1 \in 1..PyStarts
  <2>1. 1..starts \subseteq 1..(starts + 1)
    BY <1>3
  <2>2. QED
    BY <1>1, <1>2, <1>3, <2>1 DEF Typed
<1>6. Typed'
  BY <1>1, <1>2, <1>3, <1>5 DEF Typed
<1>7. QueueSound' /\ EndpointGone' /\ CallerOnly' /\ FramesSound'
  BY <1>1, <1>2 DEF QueueSound, EndpointGone, CallerOnly, FramesSound
<1>8. WaitsForCurrent'
  BY <1>1, <1>2 DEF EndpointGone, WaitsForCurrent
<1>9. SlotsConserved'
  <2>1. Holding' = {}
    BY <1>2, <1>3, <1>4 DEF Holding
  <2>2. Cardinality({}) = 0
    BY FS_EmptySet
  <2>3. slots' + Cardinality(Holding') = limit'
    BY <1>2, <1>3, <2>1, <2>2
  <2>4. QED
    BY <2>3 DEF SlotsConserved, Holding
<1>10. QED
  BY <1>6, <1>7, <1>8, <1>9 DEF ServiceInv

LEMMA ServiceInvInit == PyInit => ServiceInv
<1> SUFFICES ASSUME PyInit PROVE ServiceInv
  OBVIOUS
<1>1. limit \in Nat /\ limit \in Limits /\ starts = 1 /\ 1 \in 1..PyStarts
  BY PyServiceAssumption DEF PyInit
<1>2. Typed
  BY <1>1 DEF PyInit, Typed
<1>3. QueueSound /\ WaitsForCurrent /\ EndpointGone /\ CallerOnly
  BY DEF PyInit, QueueSound, WaitsForCurrent, EndpointGone, CallerOnly
<1>4. SlotsConserved
  <2>1. Holding = {}
    BY DEF PyInit, Holding
  <2>2. Cardinality({}) = 0
    BY FS_EmptySet
  <2>3. slots + Cardinality(Holding) = limit
    BY <1>1, <2>1, <2>2 DEF PyInit
  <2>4. QED
    BY <2>3 DEF SlotsConserved, Holding
<1>5. FramesSound
  BY DEF PyInit, FramesSound, Framed, NotBegun, Open, Acked
<1>6. QED
  BY <1>2, <1>3, <1>4, <1>5 DEF ServiceInv

LEMMA ServiceInvNext == ServiceInv /\ [PyNext]_pyVars => ServiceInv'
<1> SUFFICES ASSUME ServiceInv, [PyNext]_pyVars PROVE ServiceInv'
  OBVIOUS
<1>1. ASSUME NEW p \in Prompts,
             PromptArrives(p) \/ PromptSteps(p) \/ HandlerSends(p) \/ KeepAlive(p)
      PROVE  ServiceInv'
  <2>1. CASE PromptArrives(p)
    BY <2>1, ArrivesKeeps
  <2>2. CASE WorkSteps(p)
    BY <2>2, WorkIsWork, WorkKeeps DEF ServiceInv
  <2>3. CASE TaskDone(p)
    BY <2>3, TaskDoneKeeps
  <2>4. CASE SlotTaken(p)
    BY <2>4, SlotTakenKeeps
  <2>5. QED
    BY <1>1, <2>1, <2>2, <2>3, <2>4 DEF PromptSteps, WorkSteps
<1>2. CASE TakeRequest
  BY <1>2, TakeKeeps
<1>3. CASE StopSteps
  BY <1>3, UnsubscribedKeeps, GatheredKeeps DEF StopSteps
<1>4. CASE StartAgain
  BY <1>4, StartAgainKeeps
<1>5. ASSUME NEW by \in Prompts \cup {Outside}, StopCalled(by) PROVE ServiceInv'
  BY <1>5, StopCalledKeeps
<1>6. CASE UNCHANGED pyVars
  BY <1>6 DEF pyVars, ServiceInv, Typed, QueueSound, WaitsForCurrent, EndpointGone, CallerOnly,
              SlotsConserved, FramesSound, Concurrent, Tasks
<1>7. QED
  BY <1>1, <1>2, <1>3, <1>4, <1>5, <1>6 DEF PyNext

\* However a prompt's task ends (service.py: _on_prompt_request, stop), its
\* caller is told once, its slot goes back to the semaphore it came from, and
\* stop() returns with nothing left but the prompt that called it: for any
\* number of prompts, slots and starts.
THEOREM TasksSound == PySpec => []TasksLeaveNothing
<1>1. ServiceInv => TasksLeaveNothing
  <2>1. ServiceInv => StreamsEndOnce
    BY DEF ServiceInv, FramesSound, Framed, StreamsEndOnce
  <2>2. ServiceInv => SlotsConserved
    BY DEF ServiceInv
  <2>3. ServiceInv => StopIsComplete
    BY DEF ServiceInv, EndpointGone, CallerOnly, StopIsComplete
  <2>4. QED
    BY <2>1, <2>2, <2>3 DEF TasksLeaveNothing
<1>2. QED
  BY <1>1, ServiceInvInit, ServiceInvNext, PTL DEF PySpec
(***************************************************************************)
(* The streams of a client.                                                *)
(***************************************************************************)

Frames == Chunks \cup Marks
Routed == {"signing", "reading", "waiting", "yielded"}
Unasked == {"idle", "starting", "preparing", "signing"}

\* A reply: chunks, then an error or none, then the end.
WellMade(m) ==
  \A i \in DOMAIN m :
    \/ m[i].kind = "chunk" \/ i = Len(m)
    \/ m[i].kind = "error" /\ i + 1 = Len(m) /\ m[i + 1].kind = "end"

\* One stream: what its agent made is what its consumer was shown and what is
\* queued, for as long as it has a route.
StreamOK(routed, st, tl, sh, q, ar, out, m) ==
  /\ routed <=> st \in Routed
  /\ ar \/ q # <<>> => routed
  /\ out => st \notin Unasked
  /\ st \in Unasked => sh = <<>>
  /\ ~out => m = <<>>
  /\ routed => m = sh \o q
  /\ tl = "" <=> st # "over"
  /\ WellMade(m)
  /\ (\E i \in DOMAIN q : q[i].kind = "end") => ~ar

StreamSound(s) ==
  StreamOK(s \in routes, at[s], told[s], shown[s], inQueue[s], armed[s], s \in asked, made[s])

\* The inbox: start() is under way in the one stream that has the lock, and
\* streams get past it only when it is on.
MuxSound ==
  /\ \/ inbox \in {"off", "on"} /\ starter = {}
     \/ inbox \in {"subscribing", "flushing"}
        /\ \E s \in Streams : starter = {s} /\ at[s] = "starting"
  /\ subs = IF inbox \in {"flushing", "on"} THEN 1 ELSE 0
  /\ inbox # "on" => \A s \in Streams : at[s] \in {"idle", "starting", "over"}
  /\ asked # {} => inbox = "on"

StreamTyped ==
  /\ closed \in BOOLEAN /\ routes \in SUBSET Streams /\ asked \in SUBSET Streams
  /\ at \in [Streams -> Stages] /\ told \in [Streams -> Endings]
  /\ shown \in [Streams -> Seq(Chunks)]
  /\ inQueue \in [Streams -> Seq(Frames)] /\ made \in [Streams -> Seq(Frames)]
  /\ armed \in [Streams -> BOOLEAN] /\ maxed \in [Streams -> BOOLEAN]

StreamInv == StreamTyped /\ MuxSound /\ \A s \in Streams : StreamSound(s)

\* What a step of stream s leaves alone.
Alone(s) ==
  \A u \in Streams \ {s} :
    /\ at'[u] = at[u] /\ told'[u] = told[u] /\ shown'[u] = shown[u] /\ made'[u] = made[u]
    /\ inQueue'[u] = inQueue[u] /\ armed'[u] = armed[u] /\ maxed'[u] = maxed[u]
    /\ (u \in routes' <=> u \in routes) /\ (u \in asked' <=> u \in asked)

LEMMA EmptySeqIn == ASSUME NEW S PROVE <<>> \in Seq(S)
OBVIOUS

LEMMA SeqGrows == ASSUME NEW S, NEW T, S \subseteq T PROVE Seq(S) \subseteq Seq(T)
OBVIOUS

LEMMA AppendJoined ==
  ASSUME NEW s \in Seq(Frames), NEW t \in Seq(Frames), NEW e \in Frames
  PROVE  Append(s \o t, e) = s \o Append(t, e)
OBVIOUS

LEMMA HeadMoves ==
  ASSUME NEW S, NEW s \in Seq(S), NEW t \in Seq(S), t # <<>>
  PROVE  /\ Head(t) \in S /\ Tail(t) \in Seq(S)
         /\ s \o t = Append(s, Head(t)) \o Tail(t)
         /\ \A i \in DOMAIN Tail(t) : i + 1 \in DOMAIN t /\ Tail(t)[i] = t[i + 1]
OBVIOUS

LEMMA FrameMoves ==
  ASSUME NEW s \in Seq(Frames), NEW t \in Seq(Frames), t # <<>>,
         NEW e, e = Head(t), NEW r, r = Tail(t)
  PROVE  s \o t = Append(s, e) \o r
BY HeadMoves

LEMMA AppendIndex ==
  ASSUME NEW S, NEW t \in Seq(S), NEW e \in S
  PROVE  /\ Append(t, e) \in Seq(S) /\ Len(Append(t, e)) = Len(t) + 1 /\ Len(t) \in Nat
         /\ DOMAIN t = 1..Len(t) /\ DOMAIN Append(t, e) = 1..(Len(t) + 1)
         /\ \A i \in DOMAIN t : Append(t, e)[i] = t[i]
         /\ Append(t, e)[Len(t) + 1] = e
OBVIOUS

LEMMA FrameKinds ==
  /\ \A f \in Chunks : f.kind = "chunk"
  /\ \A f \in Marks : f.kind \in {"error", "end"}
  /\ \A f \in Frames : f.kind = "chunk" => f \in Chunks
BY DEF Chunks, Marks, Frames

LEMMA AloneKeeps ==
  ASSUME StreamInv, NEW s \in Streams, Alone(s), StreamSound(s)'
  PROVE  \A u \in Streams : StreamSound(u)'
<1>1. ASSUME NEW u \in Streams \ {s} PROVE StreamSound(u)'
  <2>1. StreamSound(u)
    BY DEF StreamInv
  <2>2. /\ at'[u] = at[u] /\ told'[u] = told[u] /\ shown'[u] = shown[u] /\ made'[u] = made[u]
        /\ inQueue'[u] = inQueue[u] /\ armed'[u] = armed[u]
        /\ (u \in routes') = (u \in routes) /\ (u \in asked') = (u \in asked)
    BY DEF Alone
  <2>3. QED
    BY <2>1, <2>2 DEF StreamSound
<1>2. QED
  BY <1>1

LEMMA MuxRests ==
  ASSUME StreamInv, NEW s \in Streams, Alone(s), UNCHANGED muxVars,
         asked' = asked \/ inbox = "on",
         inbox = "on" \/ (s \notin starter /\ at'[s] \in {"idle", "starting", "over"})
  PROVE  MuxSound'
<1>1. MuxSound /\ UNCHANGED <<inbox, starter, subs>> /\ \A u \in Streams \ {s} : at'[u] = at[u]
  BY DEF StreamInv, muxVars, Alone
<1>2. CASE inbox = "on"
  BY <1>1, <1>2 DEF MuxSound
<1>3. CASE inbox # "on"
  BY <1>1, <1>3 DEF MuxSound
<1>4. QED
  BY <1>2, <1>3

\* Where a stream is, the inbox is on: past start().
LEMMA PastStart ==
  ASSUME StreamInv, NEW s \in Streams, at[s] \notin {"idle", "starting", "over"}
  PROVE  inbox = "on" /\ s \notin starter
BY DEF StreamInv, MuxSound

\* A stream with a route ends.
LEMMA EndsSound ==
  ASSUME StreamInv, NEW s \in Streams, NEW how \in Endings \ {""}, at[s] \in Routed, Ends(s, how),
         UNCHANGED <<muxVars, shown, closed, asked, made>>, maxed' = maxed
  PROVE  StreamInv'
<1>1. StreamTyped /\ StreamSound(s)
  BY DEF StreamInv
<1>2. /\ at' = [at EXCEPT ![s] = "over"] /\ told' = [told EXCEPT ![s] = how]
      /\ armed' = [armed EXCEPT ![s] = FALSE] /\ routes' = routes \ {s}
      /\ inQueue' = [inQueue EXCEPT ![s] = <<>>]
  BY DEF Ends, Leaves, Goto, Cleanup
<1>3. /\ at'[s] = "over" /\ told'[s] = how /\ armed'[s] = FALSE /\ s \notin routes'
      /\ inQueue'[s] = <<>> /\ Alone(s)
  BY <1>1, <1>2 DEF StreamTyped, Alone
<1>4. StreamTyped'
  <2>1. at' \in [Streams -> Stages] /\ told' \in [Streams -> Endings]
    BY <1>1, <1>2 DEF StreamTyped, Stages
  <2>2. armed' \in [Streams -> BOOLEAN] /\ routes' \in SUBSET Streams
    BY <1>1, <1>2 DEF StreamTyped
  <2>3. inQueue' \in [Streams -> Seq(Frames)]
    <3>1. <<>> \in Seq(Frames)
      BY EmptySeqIn
    <3>2. QED
      BY <1>1, <1>2, <3>1 DEF StreamTyped
  <2>4. QED
    BY <1>1, <2>1, <2>2, <2>3 DEF StreamTyped
<1>5. StreamSound(s)'
  BY <1>1, <1>3 DEF StreamSound, StreamOK, Routed, Unasked
<1>6. MuxSound'
  BY <1>3, PastStart, MuxRests DEF Routed
<1>7. QED
  BY <1>3, <1>4, <1>5, <1>6, AloneKeeps DEF StreamInv

\* A stream moves on, or ends, without a route before or after.
LEMMA MovesSound ==
  ASSUME StreamInv, NEW s \in Streams, NEW where \in Stages, NEW how \in Endings,
         at' = [at EXCEPT ![s] = where],
         told' = [told EXCEPT ![s] = how],
         UNCHANGED <<routes, shown, inQueue, armed, maxed, closed, asked, made>>,
         at[s] \in Routed <=> where \in Routed,
         where \in Unasked => at[s] \in Unasked,
         how = "" <=> where # "over"
  PROVE  StreamTyped' /\ Alone(s) /\ \A u \in Streams : StreamSound(u)'
<1>1. StreamTyped /\ StreamSound(s)
  BY DEF StreamInv
<1>2. at'[s] = where /\ told'[s] = how /\ Alone(s)
  BY <1>1 DEF StreamTyped, Alone
<1>3. StreamTyped'
  BY <1>1 DEF StreamTyped
<1>4. StreamSound(s)'
  BY <1>1, <1>2 DEF StreamSound, StreamOK
<1>5. QED
  BY <1>2, <1>3, <1>4, AloneKeeps

LEMMA ToldRests ==
  ASSUME StreamInv, NEW s \in Streams, at[s] # "over", UNCHANGED told
  PROVE  told' = [told EXCEPT ![s] = ""]
<1>1. told \in [Streams -> Endings] /\ told[s] = ""
  BY DEF StreamInv, StreamTyped, StreamSound, StreamOK
<1>2. QED
  BY <1>1

LEMMA BeginStreamSound ==
  ASSUME StreamInv, NEW s \in Streams, BeginStream(s)
  PROVE  StreamInv'
<1>1. PICK where \in Stages, how \in Endings :
        /\ at' = [at EXCEPT ![s] = where] /\ told' = [told EXCEPT ![s] = how]
        /\ <<where, how>> \in {<<"over", "closed">>, <<"starting", "">>}
  <2>1. CASE closed
    BY <2>1 DEF BeginStream, Leaves, Goto, Stages, Endings
  <2>2. CASE ~closed
    <3>1. told' = [told EXCEPT ![s] = ""] /\ at' = [at EXCEPT ![s] = "starting"]
      BY <2>2, ToldRests DEF BeginStream, Goto
    <3>2. QED
      BY <3>1 DEF Stages, Endings
  <2>3. QED
    BY <2>1, <2>2
<1>2. /\ at[s] = "idle" /\ UNCHANGED <<routes, shown, inQueue, armed, maxed, closed, asked, made>>
      /\ UNCHANGED muxVars
  BY DEF BeginStream, timerVars
<1>3. /\ (where = "over" /\ how = "closed") \/ (where = "starting" /\ how = "")
      /\ where \in {"starting", "over"}
  BY <1>1
<1>4. StreamTyped' /\ Alone(s) /\ \A u \in Streams : StreamSound(u)'
  BY <1>1, <1>2, <1>3, MovesSound DEF Routed, Unasked
<1>5. s \notin starter /\ at'[s] = where
  BY <1>1, <1>2 DEF StreamInv, MuxSound, StreamTyped
<1>6. MuxSound'
  BY <1>2, <1>3, <1>4, <1>5, MuxRests
<1>7. QED
  BY <1>4, <1>6 DEF StreamInv

LEMMA StartedSound ==
  ASSUME StreamInv, NEW s \in Streams, Started(s)
  PROVE  StreamInv'
<1>1. PICK where \in Stages, how \in Endings :
        /\ at' = [at EXCEPT ![s] = where] /\ told' = [told EXCEPT ![s] = how]
        /\ <<where, how>> \in {<<"over", "closed">>, <<"preparing", "">>}
  <2>1. CASE closed
    BY <2>1 DEF Started, Leaves, Goto, Stages, Endings
  <2>2. CASE ~closed
    <3>1. told' = [told EXCEPT ![s] = ""] /\ at' = [at EXCEPT ![s] = "preparing"]
      BY <2>2, ToldRests DEF Started, Goto
    <3>2. QED
      BY <3>1 DEF Stages, Endings
  <2>3. QED
    BY <2>1, <2>2
<1>2. /\ at[s] = "starting" /\ inbox = "on" /\ UNCHANGED muxVars
      /\ UNCHANGED <<routes, shown, inQueue, armed, maxed, closed, asked, made>>
  BY DEF Started, timerVars
<1>3. (where = "over" /\ how = "closed") \/ (where = "preparing" /\ how = "")
  BY <1>1
<1>4. StreamTyped' /\ Alone(s) /\ \A u \in Streams : StreamSound(u)'
  BY <1>1, <1>2, <1>3, MovesSound DEF Routed, Unasked
<1>5. MuxSound'
  BY <1>2, <1>4, MuxRests
<1>6. QED
  BY <1>4, <1>5 DEF StreamInv

\* The steps of start() that only move the inbox.
LEMMA InboxMoves ==
  ASSUME StreamInv, NEW s \in Streams, TakeLock(s) \/ Subscribed(s) \/ Flushed(s)
  PROVE  StreamInv'
<1>1. UNCHANGED <<routes, at, told, shown, inQueue, armed, maxed, closed, asked, made>>
  BY DEF TakeLock, Subscribed, Flushed, readVars, timerVars
<1>2. StreamTyped' /\ \A u \in Streams : StreamSound(u)'
  BY <1>1 DEF StreamInv, StreamTyped, StreamSound
<1>3. MuxSound
  BY DEF StreamInv
<1>4. MuxSound'
  BY <1>1, <1>3 DEF MuxSound, TakeLock, Subscribed, Flushed
<1>5. QED
  BY <1>2, <1>4 DEF StreamInv

\* start() fails, or its prompt is cancelled there: the lock and the
\* subscription go with it.
LEMMA StartGivenUp ==
  ASSUME StreamInv, NEW s \in Streams, NEW how \in {"failed", "dropped"}, at[s] = "starting",
         Leaves(s, how), UndoStart(s),
         UNCHANGED <<routes, shown, inQueue, armed, maxed, closed, asked, made>>
  PROVE  StreamInv'
<1>1. at' = [at EXCEPT ![s] = "over"] /\ told' = [told EXCEPT ![s] = how]
  BY DEF Leaves, Goto
<1>2. "over" \in Stages /\ how \in Endings /\ how # ""
  BY DEF Stages, Endings
<1>3. StreamTyped' /\ Alone(s) /\ \A u \in Streams : StreamSound(u)'
  BY <1>1, <1>2, MovesSound DEF Routed, Unasked
<1>4. /\ at'[s] = "over" /\ \A u \in Streams \ {s} : at'[u] = at[u]
      /\ MuxSound /\ UNCHANGED asked
  BY <1>1 DEF StreamInv, StreamTyped
<1>5. /\ starter' = starter \ {s}
      /\ inbox' = IF s \in starter THEN "off" ELSE inbox
      /\ subs' = IF s \in starter /\ inbox = "flushing" THEN subs - 1 ELSE subs
  BY DEF UndoStart
<1>6. MuxSound'
  <2>1. CASE s \in starter
    <3>1. starter = {s} /\ inbox \in {"subscribing", "flushing"}
      BY <1>4, <2>1 DEF MuxSound
    <3>2. inbox' = "off" /\ starter' = {} /\ subs' = 0 /\ asked' = {}
      BY <1>4, <1>5, <2>1, <3>1 DEF MuxSound
    <3>3. QED
      BY <1>4, <3>1, <3>2 DEF MuxSound
  <2>2. CASE s \notin starter
    <3>1. inbox' = inbox /\ starter' = starter /\ subs' = subs
      BY <1>5, <2>2
    <3>2. \A u \in Streams : starter = {u} => u # s
      BY <2>2
    <3>3. QED
      BY <1>4, <3>1, <3>2 DEF MuxSound
  <2>3. QED
    BY <2>1, <2>2
<1>7. QED
  BY <1>3, <1>6 DEF StreamInv

LEMMA FlushFailsSound ==
  ASSUME StreamInv, NEW s \in Streams, FlushFails(s)
  PROVE  StreamInv'
BY StartGivenUp DEF FlushFails, timerVars

LEMMA FreshStream ==
  ASSUME NEW sh, NEW q, NEW m, sh = <<>>, q = <<>>, m = <<>>
  PROVE  /\ StreamOK(TRUE, "signing", "", sh, q, TRUE, FALSE, m)
         /\ StreamOK(FALSE, "idle", "", sh, q, FALSE, FALSE, m)
<1>1. m = sh \o q
  OBVIOUS
<1>2. WellMade(m) /\ ~\E i \in DOMAIN q : q[i].kind = "end"
  BY DEF WellMade
<1>3. QED
  BY <1>1, <1>2 DEF StreamOK, Routed, Unasked

LEMMA PreparedSound ==
  ASSUME StreamInv, NEW s \in Streams, Prepared(s)
  PROVE  StreamInv'
<1>1. /\ at[s] = "preparing" /\ UNCHANGED <<muxVars, shown, inQueue, closed, asked, made>>
      /\ inbox = "on" /\ StreamTyped /\ StreamSound(s)
  BY PastStart DEF Prepared, StreamInv
<1>2. ASSUME NEW how \in {"failed", "closed"}, Leaves(s, how), UNCHANGED <<routes, timerVars>>
      PROVE  StreamInv'
  <2>1. /\ at' = [at EXCEPT ![s] = "over"] /\ told' = [told EXCEPT ![s] = how]
        /\ UNCHANGED <<armed, maxed>>
    BY <1>2 DEF Leaves, Goto, timerVars
  <2>2. "over" \in Stages /\ how \in Endings /\ how # ""
    BY DEF Stages, Endings
  <2>3. StreamTyped' /\ Alone(s) /\ \A u \in Streams : StreamSound(u)'
    BY <1>1, <1>2, <2>1, <2>2, MovesSound DEF Routed, Unasked
  <2>4. MuxSound'
    BY <1>1, <2>3, MuxRests
  <2>5. QED
    BY <2>3, <2>4 DEF StreamInv
<1>3. ASSUME Goto(s, "signing"), UNCHANGED told, routes' = routes \cup {s},
             armed' = [armed EXCEPT ![s] = TRUE], UNCHANGED maxed
      PROVE  StreamInv'
  <2>1. /\ at' = [at EXCEPT ![s] = "signing"] /\ at'[s] = "signing" /\ Alone(s)
        /\ armed'[s] = TRUE /\ s \in routes'
    BY <1>1, <1>3 DEF Goto, StreamTyped, Alone
  <2>2. at' \in [Streams -> Stages] /\ armed' \in [Streams -> BOOLEAN]
    BY <1>1, <1>3, <2>1 DEF StreamTyped, Stages
  <2>3. StreamTyped'
    BY <1>1, <1>3, <2>2 DEF StreamTyped
  <2>4. /\ shown[s] = <<>> /\ inQueue[s] = <<>> /\ made[s] = <<>> /\ s \notin asked
        /\ told[s] = ""
    BY <1>1 DEF StreamSound, StreamOK, Unasked, Routed
  <2>5. /\ shown'[s] = <<>> /\ inQueue'[s] = <<>> /\ made'[s] = <<>> /\ s \notin asked'
        /\ told'[s] = ""
    BY <1>1, <1>3, <2>4
  <2>7. StreamSound(s)'
    <3>1. StreamOK(TRUE, "signing", "", shown'[s], inQueue'[s], TRUE, FALSE, made'[s])
      BY <2>5, FreshStream
    <3>2. QED
      BY <2>1, <2>5, <3>1 DEF StreamSound, StreamOK
  <2>8. MuxSound'
    BY <1>1, <2>1, MuxRests
  <2>9. QED
    BY <2>1, <2>3, <2>7, <2>8, AloneKeeps DEF StreamInv
<1>4. QED
  BY <1>2, <1>3 DEF Prepared

LEMMA PublishSound ==
  ASSUME StreamInv, NEW s \in Streams, Publish(s)
  PROVE  StreamInv'
<1>1. /\ at[s] = "signing" /\ UNCHANGED <<muxVars, shown, maxed, closed, made>>
      /\ inbox = "on" /\ StreamTyped /\ StreamSound(s)
  BY PastStart DEF Publish, StreamInv
<1>2. CASE Ends(s, "failed") /\ UNCHANGED asked
  BY <1>1, <1>2, EndsSound DEF Routed, Endings
<1>3. ASSUME Goto(s, "reading"), asked' = asked \cup {s}, UNCHANGED <<told, routes, armed, inQueue>>
      PROVE  StreamInv'
  <2>1. at' = [at EXCEPT ![s] = "reading"] /\ at'[s] = "reading" /\ Alone(s) /\ s \in asked'
    BY <1>1, <1>3 DEF Goto, StreamTyped, Alone
  <2>2. at' \in [Streams -> Stages]
    BY <1>1, <2>1 DEF StreamTyped, Stages
  <2>3. StreamTyped'
    BY <1>1, <1>3, <2>2 DEF StreamTyped
  <2>4. StreamSound(s)'
    BY <1>1, <1>3, <2>1 DEF StreamSound, StreamOK, Routed, Unasked
  <2>5. MuxSound'
    BY <1>1, <2>1, MuxRests
  <2>6. QED
    BY <2>1, <2>3, <2>4, <2>5, AloneKeeps DEF StreamInv
<1>4. QED
  BY <1>2, <1>3 DEF Publish

LEMMA ReplyGrows ==
  ASSUME NEW m \in Seq(Frames), NEW f \in Frames, WellMade(m),
         m = <<>> \/ m[Len(m)].kind \in IF f.kind = "end" THEN {"chunk", "error"} ELSE {"chunk"}
  PROVE  WellMade(Append(m, f))
<1> DEFINE r == Append(m, f)
<1>1. /\ Len(r) = Len(m) + 1 /\ Len(m) \in Nat /\ DOMAIN m = 1..Len(m)
      /\ DOMAIN r = 1..(Len(m) + 1)
      /\ \A i \in DOMAIN m : r[i] = m[i]
      /\ r[Len(m) + 1] = f
  BY AppendIndex
<1>2. m = <<>> <=> Len(m) = 0
  OBVIOUS
<1> HIDE DEF r
<1>3. SUFFICES ASSUME NEW i \in DOMAIN r
               PROVE  \/ r[i].kind = "chunk" \/ i = Len(r)
                      \/ r[i].kind = "error" /\ i + 1 = Len(r) /\ r[i + 1].kind = "end"
  BY DEF WellMade, r
<1>4. i \in 1..(Len(m) + 1)
  BY <1>1
<1>5. CASE i = Len(m) + 1
  BY <1>1, <1>5
<1>6. CASE i = Len(m) /\ i # 0
  <2>1. m # <<>> /\ i \in DOMAIN m /\ r[i] = m[Len(m)] /\ r[i + 1] = f /\ i + 1 = Len(r)
    BY <1>1, <1>2, <1>4, <1>6
  <2>2. r[i].kind = "chunk" \/ (r[i].kind = "error" /\ f.kind = "end")
    BY <2>1
  <2>3. QED
    BY <2>1, <2>2
<1>7. CASE i < Len(m)
  <2>1. i \in DOMAIN m /\ Len(m) \in DOMAIN m /\ m # <<>> /\ i # Len(m)
    BY <1>1, <1>2, <1>4, <1>7
  <2>2. m[i].kind = "chunk" \/ (i + 1 = Len(m) /\ m[i + 1].kind = "end")
    BY <2>1 DEF WellMade
  <2>3. m[Len(m)].kind # "end"
    BY <2>1
  <2>4. QED
    BY <1>1, <2>1, <2>2, <2>3
<1>8. QED
  BY <1>1, <1>4, <1>5, <1>6, <1>7

\* An agent replies no more after an error but the end, and nothing after that.
LEMMA LastSent ==
  ASSUME StreamInv, NEW s \in Streams, NEW f \in Frames, Sent(s, f)
  PROVE  \/ made[s] = <<>>
         \/ made[s][Len(made[s])].kind \in IF f.kind = "end" THEN {"chunk", "error"} ELSE {"chunk"}
<1>1. LastKind(s) \in IF f.kind = "end" THEN {"none", "chunk", "error"} ELSE {"none", "chunk"}
  BY DEF Sent
<1>2. CASE made[s] # <<>>
  <2>1. made[s][Len(made[s])].kind = LastKind(s)
    BY <1>2 DEF LastKind, Last
  <2>2. made[s][Len(made[s])].kind # "none"
    <3>1. made[s] \in Seq(Frames) /\ made[s] # <<>>
      BY <1>2 DEF StreamInv, StreamTyped
    <3>2. made[s][Len(made[s])] \in Frames
      BY <3>1
    <3>3. QED
      BY <3>2, FrameKinds DEF Frames
  <2>3. QED
    BY <1>1, <2>1, <2>2
<1>3. QED
  BY <1>2

\* A frame arrives, for a stream that has a route or has none any more.
LEMMA RouteSound ==
  ASSUME StreamInv, NEW s \in Streams, NEW f \in Frames, Route(s, f)
  PROVE  StreamInv'
<1>1. /\ s \in asked /\ UNCHANGED <<muxVars, routes, at, told, shown, maxed, closed, asked>>
      /\ made' = [made EXCEPT ![s] = Append(made[s], f)]
      /\ StreamTyped /\ StreamSound(s)
  BY DEF Route, Sent, StreamInv, readVars
<1>2. \/ made[s] = <<>>
      \/ made[s][Len(made[s])].kind \in IF f.kind = "end" THEN {"chunk", "error"} ELSE {"chunk"}
  BY LastSent DEF Route
<1>3. made[s] \in Seq(Frames) /\ shown[s] \in Seq(Frames) /\ inQueue[s] \in Seq(Frames)
  BY <1>1, SeqGrows DEF StreamTyped, Frames
<1>4. WellMade(Append(made[s], f))
  BY <1>1, <1>2, <1>3, ReplyGrows DEF StreamSound, StreamOK
<1>5. made'[s] = Append(made[s], f) /\ \A u \in Streams \ {s} : made'[u] = made[u]
  BY <1>1 DEF StreamTyped
<1>6. made' \in [Streams -> Seq(Frames)]
  <2>1. Append(made[s], f) \in Seq(Frames)
    BY <1>3, AppendIndex
  <2>2. QED
    BY <1>1, <2>1 DEF StreamTyped
<1>7. inbox = "on"
  BY <1>1 DEF StreamInv, MuxSound
<1>8. CASE s \notin routes
  <2>1. UNCHANGED <<inQueue, armed>>
    BY <1>8 DEF Route
  <2>2. StreamTyped' /\ Alone(s)
    BY <1>1, <1>5, <1>6, <2>1 DEF StreamTyped, Alone
  <2>3. StreamSound(s)'
    BY <1>1, <1>4, <1>5, <1>8, <2>1 DEF StreamSound, StreamOK
  <2>4. MuxSound'
    BY <1>1, <1>7, <2>2, MuxRests
  <2>5. QED
    BY <2>2, <2>3, <2>4, AloneKeeps DEF StreamInv
<1>9. CASE s \in routes
  <2>1. /\ inQueue' = [inQueue EXCEPT ![s] = Append(inQueue[s], f)]
        /\ armed' = [armed EXCEPT ![s] = armed[s] /\ f.kind # "end"]
    BY <1>9 DEF Route
  <2>2. /\ Append(inQueue[s], f) \in Seq(Frames)
        /\ Append(shown[s] \o inQueue[s], f) = shown[s] \o Append(inQueue[s], f)
    <3>1. Append(inQueue[s], f) \in Seq(Frames)
      BY <1>3, AppendIndex
    <3>2. Append(shown[s] \o inQueue[s], f) = shown[s] \o Append(inQueue[s], f)
      <4>1. PICK a \in Seq(Frames), b \in Seq(Frames) : a = shown[s] /\ b = inQueue[s]
        BY <1>3
      <4>2. Append(a \o b, f) = a \o Append(b, f)
        BY AppendJoined, Zenon
      <4>3. QED
        BY <4>1, <4>2
    <3>3. QED
      BY <3>1, <3>2
  <2>3. (armed[s] /\ f.kind # "end") \in BOOLEAN
    OBVIOUS
  <2>4. inQueue' \in [Streams -> Seq(Frames)] /\ armed' \in [Streams -> BOOLEAN]
    BY <1>1, <2>1, <2>2, <2>3 DEF StreamTyped
  <2>5. /\ inQueue'[s] = Append(inQueue[s], f)
        /\ armed'[s] = (armed[s] /\ f.kind # "end")
        /\ \A u \in Streams \ {s} : inQueue'[u] = inQueue[u] /\ armed'[u] = armed[u]
    BY <1>1, <2>1 DEF StreamTyped
  <2>6. StreamTyped' /\ Alone(s)
    BY <1>1, <1>5, <1>6, <2>4, <2>5 DEF StreamTyped, Alone
  <2>7. made[s] = shown[s] \o inQueue[s]
    BY <1>1, <1>9 DEF StreamSound, StreamOK
  <2>8. (\E i \in DOMAIN inQueue'[s] : inQueue'[s][i].kind = "end") => ~armed'[s]
    <3>1. SUFFICES ASSUME NEW i \in DOMAIN inQueue'[s], inQueue'[s][i].kind = "end", armed[s],
                          f.kind # "end"
                   PROVE  FALSE
      BY <2>5
    <3>2. /\ DOMAIN inQueue[s] = 1..Len(inQueue[s]) /\ Len(inQueue[s]) \in Nat
          /\ DOMAIN inQueue'[s] = 1..(Len(inQueue[s]) + 1)
          /\ \A j \in DOMAIN inQueue[s] : inQueue'[s][j] = inQueue[s][j]
          /\ inQueue'[s][Len(inQueue[s]) + 1] = f
      BY <1>3, <2>5, AppendIndex
    <3>3. i \in DOMAIN inQueue[s] /\ inQueue[s][i].kind = "end"
      BY <3>1, <3>2
    <3>4. QED
      BY <1>1, <3>1, <3>3 DEF StreamSound, StreamOK
  <2>9. StreamSound(s)'
    <3>1. made'[s] = shown'[s] \o inQueue'[s] /\ (armed'[s] => armed[s])
      BY <1>1, <1>5, <2>2, <2>5, <2>7
    <3>2. QED
      BY <1>1, <1>4, <1>5, <1>9, <2>8, <3>1 DEF StreamSound, StreamOK
  <2>10. MuxSound'
    BY <1>1, <1>7, <2>6, MuxRests
  <2>11. QED
    BY <2>6, <2>9, <2>10, AloneKeeps DEF StreamInv
<1>10. QED
  BY <1>8, <1>9

LEMMA MaxWaitFiresSound ==
  ASSUME StreamInv, NEW s \in Streams, MaxWaitFires(s)
  PROVE  StreamInv'
<1>1. /\ armed[s] /\ armed' = [armed EXCEPT ![s] = FALSE] /\ maxed' = [maxed EXCEPT ![s] = TRUE]
      /\ UNCHANGED <<muxVars, routes, at, told, shown, inQueue, closed, asked, made>>
      /\ StreamTyped /\ StreamSound(s)
  BY DEF MaxWaitFires, StreamInv, readVars
<1>2. armed'[s] = FALSE /\ Alone(s)
  BY <1>1 DEF StreamTyped, Alone
<1>3. StreamTyped'
  <2>1. armed' \in [Streams -> BOOLEAN] /\ maxed' \in [Streams -> BOOLEAN]
    BY <1>1 DEF StreamTyped
  <2>2. QED
    BY <1>1, <2>1 DEF StreamTyped
<1>4. StreamSound(s)'
  BY <1>1, <1>2 DEF StreamSound, StreamOK
<1>5. inbox = "on"
  <2>1. at[s] \in Routed
    BY <1>1 DEF StreamSound, StreamOK
  <2>2. QED
    BY <2>1, PastStart DEF Routed
<1>6. MuxSound'
  BY <1>1, <1>2, <1>5, MuxRests
<1>7. QED
  BY <1>2, <1>3, <1>4, <1>6, AloneKeeps DEF StreamInv

\* A stream that has a route goes on, with what it holds.
LEMMA GoesOn ==
  ASSUME StreamInv, NEW s \in Streams, NEW where \in Routed, at[s] \in Routed \ Unasked,
         where \notin Unasked, Goto(s, where),
         UNCHANGED <<muxVars, routes, told, shown, inQueue, armed, maxed, closed, asked, made>>
  PROVE  StreamInv'
<1>1. told' = [told EXCEPT ![s] = ""] /\ at' = [at EXCEPT ![s] = where]
  BY ToldRests DEF Goto, Routed
<1>2. StreamTyped' /\ Alone(s) /\ \A u \in Streams : StreamSound(u)'
  <2>1. where \in Stages /\ where # "over" /\ "" \in Endings
    BY DEF Stages, Routed, Endings
  <2>2. UNCHANGED <<routes, shown, inQueue, armed, maxed, closed, asked, made>>
    OBVIOUS
  <2>3. QED
    BY <1>1, <2>1, <2>2, MovesSound
<1>3. inbox = "on"
  BY PastStart DEF Routed
<1>4. MuxSound'
  BY <1>2, <1>3, MuxRests
<1>5. QED
  BY <1>2, <1>4 DEF StreamInv

\* A chunk leaves the queue for the consumer.
LEMMA ShowsSound ==
  ASSUME StreamInv, NEW s \in Streams, at[s] \in {"reading", "waiting"}, inQueue[s] # <<>>,
         Head(inQueue[s]).kind = "chunk",
         inQueue' = [inQueue EXCEPT ![s] = Tail(inQueue[s])], Goto(s, "yielded"),
         shown' = [shown EXCEPT ![s] = Append(shown[s], Head(inQueue[s]))],
         UNCHANGED <<muxVars, routes, told, armed, maxed, closed, asked, made>>
  PROVE  StreamInv'
<1>1. StreamTyped /\ StreamSound(s) /\ inbox = "on"
  BY PastStart DEF StreamInv
<1>2. PICK q \in Seq(Frames), sh \in Seq(Chunks) : q = inQueue[s] /\ sh = shown[s]
  BY <1>1 DEF StreamTyped
<1>3. PICK e : e = Head(q)
  OBVIOUS
<1>4. PICK q2 : q2 = Tail(q)
  OBVIOUS
<1>5. /\ e \in Frames /\ q2 \in Seq(Frames)
      /\ \A i \in DOMAIN q2 : i + 1 \in DOMAIN q /\ q2[i] = q[i + 1]
  BY <1>2, <1>3, <1>4, HeadMoves
<1>6. e \in Chunks
  BY <1>2, <1>3, <1>5, FrameKinds
<1>7. sh \o q = Append(sh, e) \o q2
  <2>1. sh \in Seq(Frames)
    BY SeqGrows DEF Frames
  <2>2. q # <<>>
    BY <1>2
  <2>3. QED
    BY <1>3, <1>4, <2>1, <2>2, FrameMoves
<1>8. Append(sh, e) \in Seq(Chunks)
  BY <1>6, AppendIndex
<1>9. /\ inQueue' = [inQueue EXCEPT ![s] = q2] /\ shown' = [shown EXCEPT ![s] = Append(sh, e)]
      /\ at' = [at EXCEPT ![s] = "yielded"]
  BY <1>2, <1>3, <1>4 DEF Goto
<1>10. StreamTyped'
  <2>1. at' \in [Streams -> Stages]
    BY <1>1, <1>9 DEF StreamTyped, Stages
  <2>2. shown' \in [Streams -> Seq(Chunks)] /\ inQueue' \in [Streams -> Seq(Frames)]
    BY <1>1, <1>5, <1>8, <1>9 DEF StreamTyped
  <2>3. QED
    BY <1>1, <2>1, <2>2 DEF StreamTyped
<1>11. inQueue'[s] = q2 /\ shown'[s] = Append(sh, e) /\ at'[s] = "yielded" /\ Alone(s)
  BY <1>1, <1>9 DEF StreamTyped, Alone
<1>12. StreamSound(s)'
  <2>1. /\ StreamOK(s \in routes, at[s], told[s], sh, q, armed[s], s \in asked, made[s])
        /\ at[s] \in {"reading", "waiting"}
    BY <1>1, <1>2 DEF StreamSound
  <2>2. (\E i \in DOMAIN q2 : q2[i].kind = "end") => ~armed[s]
    BY <1>5, <2>1 DEF StreamOK
  <2>3. s \in routes /\ made[s] = Append(sh, e) \o q2
    BY <1>7, <2>1 DEF StreamOK, Routed
  <2>4. StreamOK(s \in routes, "yielded", told[s], Append(sh, e), q2, armed[s], s \in asked, made[s])
    BY <2>1, <2>2, <2>3 DEF StreamOK, Routed, Unasked
  <2>5. QED
    BY <1>11, <2>4 DEF StreamSound
<1>13. MuxSound'
  BY <1>1, <1>11, MuxRests
<1>14. QED
  BY <1>10, <1>11, <1>12, <1>13, AloneKeeps DEF StreamInv

LEMMA ReadSound ==
  ASSUME StreamInv, NEW s \in Streams, Read(s)
  PROVE  StreamInv'
<1>1. at[s] \in {"reading", "waiting"} /\ UNCHANGED <<muxVars, maxed, closed, asked, made>>
  BY DEF Read
<1>2. ASSUME NEW how \in {"closed", "maxWait", "error", "done"}, Ends(s, how), UNCHANGED shown
      PROVE  StreamInv'
  BY <1>1, <1>2, EndsSound DEF Endings, Routed
<1>3. CASE Goto(s, "waiting") /\ UNCHANGED <<told, routes, armed, inQueue, shown>>
  BY <1>1, <1>3, GoesOn DEF Routed, Unasked
<1>4. ASSUME inQueue[s] # <<>>, Consume(s) PROVE StreamInv'
  <2>1. CASE Head(inQueue[s]).kind = "chunk"
    <3>1. /\ inQueue' = [inQueue EXCEPT ![s] = Tail(inQueue[s])] /\ Goto(s, "yielded")
          /\ shown' = [shown EXCEPT ![s] = Append(shown[s], Head(inQueue[s]))]
          /\ UNCHANGED <<told, routes, armed>>
      BY <1>4, <2>1 DEF Consume
    <3>2. QED
      BY <1>1, <1>4, <2>1, <3>1, ShowsSound
  <2>2. CASE Head(inQueue[s]).kind # "chunk"
    BY <1>2, <1>4, <2>2 DEF Consume
  <2>3. QED
    BY <2>1, <2>2
<1>5. QED
  BY <1>2, <1>3, <1>4 DEF Read

LEMMA AbandonSound ==
  ASSUME StreamInv, NEW s \in Streams, Abandon(s)
  PROVE  StreamInv'
<1>1. UNCHANGED <<shown, maxed, closed, asked, made>>
  BY DEF Abandon
<1>2. CASE at[s] \in {"signing", "waiting", "yielded"} /\ Ends(s, "dropped") /\ UNCHANGED muxVars
  BY <1>1, <1>2, EndsSound DEF Endings, Routed
<1>3. ASSUME at[s] = "preparing", Leaves(s, "dropped"), UNCHANGED <<muxVars, routes, armed, inQueue>>
      PROVE  StreamInv'
  <2>1. /\ at' = [at EXCEPT ![s] = "over"] /\ told' = [told EXCEPT ![s] = "dropped"]
        /\ inbox = "on" /\ "over" \in Stages /\ "dropped" \in Endings
    BY <1>3, PastStart DEF Leaves, Goto, Stages, Endings
  <2>2. StreamTyped' /\ Alone(s) /\ \A u \in Streams : StreamSound(u)'
    BY <1>1, <1>3, <2>1, MovesSound DEF Routed, Unasked
  <2>3. MuxSound'
    BY <1>1, <1>3, <2>1, <2>2, MuxRests
  <2>4. QED
    BY <2>2, <2>3 DEF StreamInv
<1>4. CASE /\ at[s] = "starting" /\ Leaves(s, "dropped")
           /\ UndoStart(s) /\ UNCHANGED <<flushFails, routes, armed, inQueue>>
  BY <1>1, <1>4, StartGivenUp
<1>5. QED
  BY <1>2, <1>3, <1>4 DEF Abandon

LEMMA StreamInvInit == PyStreamInit => StreamInv
<1> SUFFICES ASSUME PyStreamInit PROVE StreamInv
  OBVIOUS
<1>1. StreamTyped
  <2>1. /\ at \in [Streams -> Stages] /\ told \in [Streams -> Endings]
        /\ armed \in [Streams -> BOOLEAN] /\ maxed \in [Streams -> BOOLEAN]
    BY DEF PyStreamInit, Stages, Endings
  <2>2. <<>> \in Seq(Frames) /\ <<>> \in Seq(Chunks)
    BY EmptySeqIn
  <2>3. /\ shown \in [Streams -> Seq(Chunks)]
        /\ inQueue \in [Streams -> Seq(Frames)] /\ made \in [Streams -> Seq(Frames)]
    BY <2>2 DEF PyStreamInit
  <2>4. QED
    BY <2>1, <2>3 DEF PyStreamInit, StreamTyped
<1>2. MuxSound
  BY DEF PyStreamInit, MuxSound
<1>3. ASSUME NEW s \in Streams PROVE StreamSound(s)
  <2>1. /\ s \notin routes /\ at[s] = "idle" /\ told[s] = "" /\ shown[s] = <<>>
        /\ inQueue[s] = <<>> /\ armed[s] = FALSE /\ s \notin asked /\ made[s] = <<>>
    BY DEF PyStreamInit
  <2>2. StreamOK(FALSE, "idle", "", shown[s], inQueue[s], FALSE, FALSE, made[s])
    BY <2>1, FreshStream
  <2>3. QED
    BY <2>1, <2>2 DEF StreamSound, StreamOK
<1>4. QED
  BY <1>1, <1>2, <1>3 DEF StreamInv

LEMMA StreamInvNext == StreamInv /\ [PyStreamNext]_pyStreamVars => StreamInv'
<1> SUFFICES ASSUME StreamInv, [PyStreamNext]_pyStreamVars PROVE StreamInv'
  OBVIOUS
<1>1. ASSUME NEW s \in Streams, StreamMoves(s) PROVE StreamInv'
  BY <1>1, InboxMoves, StartedSound, PreparedSound, PublishSound, ReadSound DEF StreamMoves
<1>2. ASSUME NEW s \in Streams, BeginStream(s) \/ FlushFails(s) \/ MaxWaitFires(s) \/ Abandon(s)
      PROVE  StreamInv'
  BY <1>2, BeginStreamSound, FlushFailsSound, MaxWaitFiresSound, AbandonSound
<1>3. ASSUME NEW s \in Streams, Stall(s) PROVE StreamInv'
  BY <1>3, EndsSound DEF Stall, Endings, Routed
<1>4. ASSUME NEW s \in Streams, Advance(s) PROVE StreamInv'
  BY <1>4, GoesOn DEF Advance, Routed, Unasked, timerVars
<1>5. ASSUME NEW s \in Streams, NEW f \in Frames, Route(s, f) PROVE StreamInv'
  BY <1>5, RouteSound
<1>6. CASE CloseClient
  BY <1>6 DEF CloseClient, muxVars, readVars, timerVars, StreamInv, StreamTyped, MuxSound, StreamSound
<1>7. CASE UNCHANGED pyStreamVars
  BY <1>7 DEF pyStreamVars, muxVars, readVars, timerVars, StreamInv, StreamTyped, MuxSound, StreamSound
<1>8. QED
  BY <1>1, <1>2, <1>3, <1>4, <1>5, <1>6, <1>7 DEF PyStreamNext, Frames

\* Whichever prompt started the inbox of a Python connection, failed to or was
\* cancelled at it (_mux.py: start), there is one subscription at most, no
\* request names an inbox that is not flushed, and a route, a timer and a
\* queue are those of a stream that is open: for any number of streams, any
\* length of reply, any flushes that fail.
THEOREM InboxShared == PyStreamSpec => []InboxIsShared
<1>1. StreamInv => InboxIsShared
  <2> SUFFICES ASSUME StreamInv PROVE InboxIsShared
    OBVIOUS
  <2>1. /\ subs = (IF inbox \in {"flushing", "on"} THEN 1 ELSE 0)
        /\ asked # {} => inbox = "on"
    BY DEF StreamInv, MuxSound
  <2>2. Cardinality(starter) = (IF inbox \in {"subscribing", "flushing"} THEN 1 ELSE 0)
    BY FS_EmptySet, FS_Singleton DEF StreamInv, MuxSound
  <2>3. \A s \in Streams : (s \in routes <=> s \in HasRoute)
                          /\ (armed[s] \/ inQueue[s] # <<>> => s \in HasRoute)
    BY DEF StreamInv, StreamSound, StreamOK, HasRoute, Routed
  <2>4. routes = HasRoute
    BY <2>3 DEF StreamInv, StreamTyped, HasRoute
  <2>5. QED
    BY <2>1, <2>2, <2>3, <2>4 DEF InboxIsShared
<1>2. QED
  BY <1>1, StreamInvInit, StreamInvNext, PTL DEF PyStreamSpec

-----------------------------------------------------------------------------
(* Control goes before content. *)

Control(s) ==
  /\ closed \/ maxed[s] => shown'[s] = shown[s] /\ (told'[s] = "done" => told[s] = "done")
  /\ (\E i \in DOMAIN inQueue[s] : inQueue[s][i].kind = "end") /\ ~maxed[s] => ~maxed'[s]

\* A step that shows nothing and completes nothing.
LEMMA QuietControl ==
  ASSUME StreamInv, NEW s \in Streams, NEW u \in Streams, UNCHANGED <<shown, maxed>>,
         UNCHANGED told \/ \E how \in Endings \ {"done"} : told' = [told EXCEPT ![u] = how]
  PROVE  Control(s)
<1>1. told \in [Streams -> Endings]
  BY DEF StreamInv, StreamTyped
<1>2. told'[s] = "done" => told[s] = "done"
  BY <1>1
<1>3. QED
  BY <1>2 DEF Control

LEMMA EndsQuietly ==
  ASSUME NEW u \in Streams, NEW how \in Endings \ {"done"}, Ends(u, how) \/ Leaves(u, how)
  PROVE  \E h \in Endings \ {"done"} : told' = [told EXCEPT ![u] = h]
BY DEF Ends, Leaves

LEMMA ReadControl ==
  ASSUME StreamInv, NEW s \in Streams, NEW u \in Streams, Read(u)
  PROVE  Control(s)
<1>1. UNCHANGED maxed
  BY DEF Read
<1>2. CASE /\ ~closed /\ ~maxed[u] /\ inQueue[u] # <<>> /\ Consume(u)
  <2>1. shown \in [Streams -> Seq(Chunks)] /\ told \in [Streams -> Endings]
    BY DEF StreamInv, StreamTyped
  <2>2. CASE s = u
    BY <1>1, <1>2, <2>2 DEF Control
  <2>3. CASE s # u
    <3>1. shown'[s] = shown[s] /\ told'[s] = told[s]
      BY <1>2, <2>1, <2>3 DEF Consume, Ends, Leaves
    <3>2. QED
      BY <1>1, <3>1 DEF Control
  <2>4. QED
    BY <2>2, <2>3
<1>3. ASSUME NEW how \in {"closed", "maxWait"}, Ends(u, how), UNCHANGED shown
      PROVE  Control(s)
  BY <1>1, <1>3, EndsQuietly, QuietControl DEF Endings
<1>4. CASE UNCHANGED told /\ UNCHANGED shown
  BY <1>1, <1>4, QuietControl
<1>5. QED
  BY <1>2, <1>3, <1>4 DEF Read

LEMMA StepControl ==
  ASSUME StreamInv, PyStreamNext, NEW s \in Streams
  PROVE  Control(s)
<1>1. ASSUME NEW u \in Streams, BeginStream(u) \/ Started(u) \/ FlushFails(u) \/ Stall(u)
      PROVE  Control(s)
  <2>1. UNCHANGED <<shown, maxed>>
    BY <1>1 DEF BeginStream, Started, FlushFails, Stall, timerVars
  <2>2. UNCHANGED told \/ \E how \in {"closed", "failed", "stalled"} : Leaves(u, how)
    BY <1>1 DEF BeginStream, Started, FlushFails, Stall, Ends
  <2>3. QED
    BY <2>1, <2>2, EndsQuietly, QuietControl DEF Endings
<1>2. ASSUME NEW u \in Streams, Prepared(u) \/ Publish(u) \/ Abandon(u)
      PROVE  Control(s)
  <2>1. UNCHANGED <<shown, maxed>>
    BY <1>2 DEF Prepared, Publish, Abandon, timerVars
  <2>2. UNCHANGED told \/ \E how \in {"closed", "failed", "dropped"} : Leaves(u, how)
    BY <1>2 DEF Prepared, Publish, Abandon, Ends
  <2>3. QED
    BY <2>1, <2>2, EndsQuietly, QuietControl DEF Endings
<1>3. ASSUME NEW u \in Streams,
             \/ TakeLock(u) \/ Subscribed(u) \/ Flushed(u) \/ Advance(u)
             \/ \E f \in Chunks \cup Marks : Route(u, f)
      PROVE  Control(s)
  <2>1. UNCHANGED <<shown, maxed, told>>
    BY <1>3 DEF TakeLock, Subscribed, Flushed, Advance, Route, timerVars, readVars
  <2>2. QED
    BY <2>1, QuietControl
<1>4. ASSUME NEW u \in Streams, MaxWaitFires(u) PROVE Control(s)
  <2>1. UNCHANGED <<told, shown>> /\ armed[u] /\ maxed' = [maxed EXCEPT ![u] = TRUE]
        /\ maxed \in [Streams -> BOOLEAN]
    BY <1>4 DEF MaxWaitFires, readVars, StreamInv, StreamTyped
  <2>2. CASE s = u
    <3>1. ~\E i \in DOMAIN inQueue[s] : inQueue[s][i].kind = "end"
      BY <2>1, <2>2 DEF StreamInv, StreamSound, StreamOK
    <3>2. QED
      BY <2>1, <3>1 DEF Control
  <2>3. CASE s # u
    BY <2>1, <2>3 DEF Control
  <2>4. QED
    BY <2>2, <2>3
<1>5. CASE CloseClient
  BY <1>5, QuietControl DEF CloseClient, readVars, timerVars
<1>6. QED
  BY <1>1, <1>2, <1>3, <1>4, <1>5, ReadControl DEF PyStreamNext, StreamMoves

\* A close and the end of a stream's time go before what is buffered, whoever
\* prompts and whatever is queued (agent.py: _wait_for_chunk), and the timer
\* cannot end a reply whose terminator has come (_mux.py: _on_msg).
THEOREM ControlGoesFirst == PyStreamSpec => ControlFirst
<1>1. StreamInv /\ [PyStreamNext]_pyStreamVars =>
        [\A s \in Streams :
           LET held == \E i \in DOMAIN inQueue[s] : inQueue[s][i].kind = "end" IN
           /\ closed \/ maxed[s] => shown'[s] = shown[s] /\ (told'[s] = "done" => told[s] = "done")
           /\ held /\ ~maxed[s] => ~maxed'[s]]_pyStreamVars
  BY StepControl DEF Control
<1>2. QED
  BY <1>1, StreamInvInit, StreamInvNext, PTL DEF PyStreamSpec, ControlFirst

-----------------------------------------------------------------------------
(* A stream keeps the contract of a reply. *)

Chunked(m) == [i \in {j \in DOMAIN m : m[j].kind = "chunk"} |-> m[i]]
Verdict(m) ==
  IF \E i \in DOMAIN m : m[i].kind = "error" THEN "failed"
  ELSE IF \E i \in DOMAIN m : m[i].kind = "end" THEN "complete"
  ELSE "open"
ToldAs(end) ==
  CASE end = "" -> "nothing" [] end = "done" -> "done" [] end = "error" -> "error"
    [] OTHER -> "gaveUp"

\* A step of the contract, or none.
ReplyMove(p, v, sh, end, p2, v2, sh2, end2) ==
  \/ p2 = p /\ v2 = v /\ sh2 = sh /\ end2 = end
  \/ v = "open" /\ (\E c \in Chunks : p2 = Append(p, c)) /\ v2 = v /\ sh2 = sh /\ end2 = end
  \/ v = "open" /\ v2 \in {"complete", "failed"} /\ p2 = p /\ sh2 = sh /\ end2 = end
  \/ /\ end = "nothing" /\ Len(sh) < Len(p) /\ sh2 = Append(sh, p[Len(sh) + 1])
     /\ p2 = p /\ v2 = v /\ end2 = end
  \/ end = "nothing" /\ v = "complete" /\ sh = p /\ end2 = "done" /\ p2 = p /\ v2 = v /\ sh2 = sh
  \/ end = "nothing" /\ v = "failed" /\ end2 = "error" /\ p2 = p /\ v2 = v /\ sh2 = sh
  \/ end = "nothing" /\ end2 = "gaveUp" /\ p2 = p /\ v2 = v /\ sh2 = sh

LEMMA FunctionIsSeq ==
  ASSUME NEW S, NEW k \in Nat, NEW f, f \in [1..k -> S]
  PROVE  f \in Seq(S) /\ Len(f) = k
OBVIOUS

LEMMA AllChunks ==
  ASSUME NEW m \in Seq(Frames), \A i \in DOMAIN m : m[i].kind = "chunk"
  PROVE  Chunked(m) = m /\ Verdict(m) = "open"
<1>1. {j \in DOMAIN m : m[j].kind = "chunk"} = DOMAIN m
  OBVIOUS
<1>2. [i \in DOMAIN m |-> m[i]] = m
  OBVIOUS
<1>3. QED
  BY <1>1, <1>2 DEF Chunked, Verdict

\* Chunks first: where they end.
LEMMA ReplyShape ==
  ASSUME NEW m \in Seq(Frames), WellMade(m)
  PROVE  \E k \in 0..Len(m) :
           /\ {j \in DOMAIN m : m[j].kind = "chunk"} = 1..k
           /\ Chunked(m) \in [1..k -> Chunks]
           /\ \A i \in 1..k : Chunked(m)[i] = m[i]
<1>1. PICK n \in Nat : n = Len(m) /\ DOMAIN m = 1..n
  OBVIOUS
<1>2. \A i \in 1..n :
        \/ m[i].kind = "chunk" \/ i = n
        \/ m[i].kind = "error" /\ i + 1 = n /\ m[i + 1].kind = "end"
  <2>1. \A i \in DOMAIN m :
          \/ m[i].kind = "chunk" \/ i = Len(m)
          \/ m[i].kind = "error" /\ i + 1 = Len(m) /\ m[i + 1].kind = "end"
    BY Zenon DEF WellMade
  <2>2. QED
    BY <1>1, <2>1, Zenon
<1>3. PICK k \in 0..n : {j \in DOMAIN m : m[j].kind = "chunk"} = 1..k
  <2>1. CASE n = 0
    BY <1>1, <2>1
  <2>2. CASE n # 0 /\ m[n].kind = "chunk"
    <3>1. \A i \in 1..n : m[i].kind = "chunk"
      BY <1>1, <1>2, <2>2
    <3>2. QED
      BY <1>1, <3>1
  <2>3. CASE n # 0 /\ m[n].kind # "chunk"
    <3>1. CASE n = 1
      <4>1. {j \in DOMAIN m : m[j].kind = "chunk"} = 1..0
        BY <1>1, <2>3, <3>1
      <4>2. QED
        BY <1>1, <4>1
    <3>2. CASE n > 1 /\ m[n - 1].kind = "chunk"
      <4>1. ASSUME NEW i \in 1..n PROVE m[i].kind = "chunk" <=> i <= n - 1
        <5>1. i = n \/ i = n - 1 \/ (i < n - 1 /\ i + 1 # n /\ i # n)
          BY <4>1
        <5>2. CASE i = n
          BY <1>1, <2>3, <5>2
        <5>3. CASE i = n - 1
          BY <1>1, <3>2, <5>3
        <5>4. CASE i < n - 1 /\ i + 1 # n /\ i # n
          BY <1>1, <1>2, <4>1, <5>4
        <5>5. QED
          BY <5>1, <5>2, <5>3, <5>4
      <4>2. {j \in DOMAIN m : m[j].kind = "chunk"} = 1..(n - 1)
        BY <1>1, <4>1
      <4>3. QED
        BY <1>1, <3>2, <4>2
    <3>3. CASE n > 1 /\ m[n - 1].kind # "chunk"
      <4>1. ASSUME NEW i \in 1..n PROVE m[i].kind = "chunk" <=> i <= n - 2
        <5>1. i = n \/ i = n - 1 \/ (i <= n - 2 /\ i + 1 # n /\ i # n)
          BY <4>1
        <5>2. CASE i = n
          BY <1>1, <2>3, <5>2
        <5>3. CASE i = n - 1
          BY <1>1, <3>3, <5>3
        <5>4. CASE i <= n - 2 /\ i + 1 # n /\ i # n
          BY <1>1, <1>2, <4>1, <5>4
        <5>5. QED
          BY <5>1, <5>2, <5>3, <5>4
      <4>2. {j \in DOMAIN m : m[j].kind = "chunk"} = 1..(n - 2)
        BY <1>1, <4>1
      <4>3. QED
        BY <1>1, <3>3, <4>2
    <3>4. QED
      BY <1>1, <2>3, <3>1, <3>2, <3>3
  <2>4. QED
    BY <2>1, <2>2, <2>3
<1>4. \A i \in 1..k : m[i] \in Chunks
  <2>1. \A i \in 1..k : i \in DOMAIN m /\ m[i].kind = "chunk"
    BY <1>3
  <2>2. \A i \in DOMAIN m : m[i] \in Frames
    OBVIOUS
  <2>3. QED
    BY <2>1, <2>2, FrameKinds
<1>5. Chunked(m) = [i \in 1..k |-> m[i]]
  BY <1>3 DEF Chunked
<1>6. QED
  BY <1>1, <1>3, <1>4, <1>5

\* What a frame adds to a reply.
LEMMA ReplyMoves ==
  ASSUME NEW m \in Seq(Frames), NEW f \in Frames, WellMade(m),
         m = <<>> \/ m[Len(m)].kind \in IF f.kind = "end" THEN {"chunk", "error"} ELSE {"chunk"}
  PROVE  \A sh, end : ReplyMove(Chunked(m), Verdict(m), sh, end,
                               Chunked(Append(m, f)), Verdict(Append(m, f)), sh, end)
<1> DEFINE r == Append(m, f)
<1>1. /\ r \in Seq(Frames) /\ Len(r) = Len(m) + 1 /\ Len(m) \in Nat /\ DOMAIN m = 1..Len(m)
      /\ DOMAIN r = 1..(Len(m) + 1)
      /\ \A i \in DOMAIN m : r[i] = m[i]
      /\ r[Len(m) + 1] = f
  BY AppendIndex
<1>2. m = <<>> <=> Len(m) = 0
  OBVIOUS
<1> HIDE DEF r
<1>3. \A i \in 1..Len(m) :
        \/ m[i].kind = "chunk" \/ i = Len(m)
        \/ m[i].kind = "error" /\ i + 1 = Len(m) /\ m[i + 1].kind = "end"
  BY <1>1 DEF WellMade
<1>4. CASE m = <<>> \/ m[Len(m)].kind = "chunk"
  <2>1. ASSUME NEW i \in DOMAIN m PROVE m[i].kind = "chunk"
    <3>1. i \in 1..Len(m) /\ m[Len(m)].kind = "chunk"
      BY <1>1, <1>2, <1>4, <2>1
    <3>2. i + 1 = Len(m) => m[i + 1].kind # "end"
      BY <3>1
    <3>3. QED
      BY <1>3, <3>1, <3>2
  <2>2. Chunked(m) = m /\ Verdict(m) = "open"
    BY <2>1, AllChunks
  <2>3. CASE f.kind = "chunk"
    <3>1. \A i \in DOMAIN r : r[i].kind = "chunk"
      BY <1>1, <2>1, <2>3
    <3>2. Chunked(r) = r /\ Verdict(r) = "open"
      BY <1>1, <3>1, AllChunks
    <3>3. f \in Chunks
      BY <2>3, FrameKinds
    <3>4. QED
      BY <2>2, <3>2, <3>3 DEF ReplyMove, r
  <2>4. CASE f.kind # "chunk"
    <3>1. {j \in DOMAIN r : r[j].kind = "chunk"} = DOMAIN m
      BY <1>1, <2>1, <2>4
    <3>2. Chunked(r) = [i \in DOMAIN m |-> m[i]]
      BY <1>1, <3>1 DEF Chunked
    <3>3. [i \in DOMAIN m |-> m[i]] = m
      OBVIOUS
    <3>4. Verdict(r) \in {"complete", "failed"}
      <4>1. f.kind \in {"error", "end"}
        BY <2>4, FrameKinds DEF Frames
      <4>2. Len(m) + 1 \in DOMAIN r
        BY <1>1
      <4>3. QED
        BY <1>1, <4>1, <4>2 DEF Verdict
    <3>5. QED
      BY <2>2, <3>2, <3>3, <3>4 DEF ReplyMove, r
  <2>5. QED
    BY <2>3, <2>4
<1>5. CASE m # <<>> /\ m[Len(m)].kind = "error" /\ f.kind = "end"
  <2>1. Len(m) \in DOMAIN m /\ Len(m) \in DOMAIN r /\ r[Len(m)].kind = "error"
    BY <1>1, <1>2, <1>5
  <2>2. Verdict(m) = "failed" /\ Verdict(r) = "failed"
    BY <1>5, <2>1 DEF Verdict
  <2>3. {j \in DOMAIN r : r[j].kind = "chunk"} = {j \in DOMAIN m : m[j].kind = "chunk"}
    BY <1>1, <1>5
  <2>4. Chunked(r) = Chunked(m)
    BY <1>1, <2>3 DEF Chunked
  <2>5. QED
    BY <2>2, <2>4 DEF ReplyMove, r
<1>6. QED
  BY <1>4, <1>5

\* What the consumer reads next, e, in the reply m that it comes from.
ReadFrom(m, sh, q, e) == WellMade(m) /\ q # <<>> /\ m = sh \o q /\ e = Head(q)

LEMMA ReadMoves ==
  ASSUME NEW m \in Seq(Frames), NEW sh \in Seq(Chunks), NEW q \in Seq(Frames), NEW e,
         ReadFrom(m, sh, q, e)
  PROVE  /\ e.kind = "chunk" => Len(sh) < Len(Chunked(m)) /\ Chunked(m)[Len(sh) + 1] = e
         /\ e.kind = "end" => Verdict(m) = "complete" /\ Chunked(m) = sh
         /\ e.kind = "error" => Verdict(m) = "failed"
<1>0. WellMade(m) /\ q # <<>> /\ m = sh \o q /\ e = Head(q)
  BY DEF ReadFrom
<1>1. PICK l \in Nat : l = Len(sh) /\ DOMAIN sh = 1..l /\ \A i \in 1..l : sh[i] \in Chunks
  OBVIOUS
<1>2. PICK n \in Nat : n = Len(m) /\ DOMAIN m = 1..n
  OBVIOUS
<1>3. l + 1 \in 1..n /\ m[l + 1] = e /\ \A i \in 1..l : m[i] = sh[i]
  <2>1. sh \in Seq(Frames)
    BY SeqGrows DEF Frames
  <2>2. PICK d \in Nat \ {0} : d = Len(q) /\ q[1] = e
    BY <1>0
  <2>3. n = l + d
    BY <1>0, <1>1, <1>2, <2>1, <2>2
  <2>4. m[l + 1] = q[1]
    BY <1>0, <1>1, <2>1, <2>2
  <2>5. \A i \in 1..l : m[i] = sh[i]
    BY <1>0, <1>1, <2>1
  <2>6. l + 1 \in 1..n
    BY <2>3
  <2>7. m[l + 1] = e
    BY <2>2, <2>4, Zenon
  <2>8. QED
    BY <2>5, <2>6, <2>7
<1>4. \A i \in 1..l : m[i].kind = "chunk"
  BY <1>1, <1>3, FrameKinds
<1>5. PICK k \in 0..n :
        /\ {j \in DOMAIN m : m[j].kind = "chunk"} = 1..k
        /\ Chunked(m) \in [1..k -> Chunks]
        /\ \A i \in 1..k : Chunked(m)[i] = m[i]
  BY <1>0, <1>2, ReplyShape
<1>6. ASSUME e.kind = "chunk"
      PROVE  Len(sh) < Len(Chunked(m)) /\ Chunked(m)[Len(sh) + 1] = e
  <2>1. l + 1 \in 1..k
    BY <1>2, <1>3, <1>5, <1>6
  <2>2. Len(Chunked(m)) = k
    BY <1>5, FunctionIsSeq
  <2>3. Chunked(m)[l + 1] = e
    BY <1>3, <1>5, <2>1
  <2>4. QED
    BY <1>1, <2>1, <2>2, <2>3
<1>7. ASSUME e.kind = "end"
      PROVE  Verdict(m) = "complete" /\ Chunked(m) = sh
  <2>1. \A i \in 1..n :
          \/ m[i].kind = "chunk" \/ i = n
          \/ m[i].kind = "error" /\ i + 1 = n /\ m[i + 1].kind = "end"
    <3>1. \A i \in DOMAIN m :
            \/ m[i].kind = "chunk" \/ i = Len(m)
            \/ m[i].kind = "error" /\ i + 1 = Len(m) /\ m[i + 1].kind = "end"
      BY <1>0, Zenon DEF WellMade
    <3>2. QED
      BY <1>2, <3>1, Zenon
  <2>2. m[l + 1].kind = "end" /\ n = l + 1
    BY <1>3, <1>7, <2>1
  <2>3. {j \in DOMAIN m : m[j].kind = "chunk"} = 1..l
    BY <1>2, <1>4, <2>2
  <2>4. Verdict(m) = "complete"
    <3>1. \A i \in DOMAIN m : m[i].kind # "error"
      BY <1>2, <1>4, <2>2
    <3>2. l + 1 \in DOMAIN m
      BY <1>2, <1>3
    <3>3. QED
      BY <2>2, <3>1, <3>2 DEF Verdict
  <2>5. Chunked(m) = [i \in 1..l |-> sh[i]]
    BY <1>3, <2>3 DEF Chunked
  <2>6. [i \in DOMAIN sh |-> sh[i]] = sh
    OBVIOUS
  <2>7. QED
    BY <1>1, <2>4, <2>5, <2>6
<1>8. ASSUME e.kind = "error" PROVE Verdict(m) = "failed"
  <2>1. l + 1 \in DOMAIN m /\ m[l + 1].kind = "error"
    BY <1>2, <1>3, <1>8
  <2>2. QED
    BY <2>1 DEF Verdict
<1>9. QED
  BY <1>6, <1>7, <1>8

OneMove ==
  ReplyMove(Chunked(made[One]), Verdict(made[One]), shown[One], ToldAs(told[One]),
            Chunked(made'[One]), Verdict(made'[One]), shown'[One], ToldAs(told'[One]))

LEMMA OneRests ==
  ASSUME made'[One] = made[One], shown'[One] = shown[One], told'[One] = told[One]
  PROVE  OneMove
BY DEF OneMove, ReplyMove

LEMMA OneGivesUp ==
  ASSUME StreamInv, One \in Streams, NEW u \in Streams, at[u] # "over",
         NEW how \in Endings \ {"", "done", "error"}, Ends(u, how) \/ Leaves(u, how),
         UNCHANGED <<shown, made>>
  PROVE  OneMove
<1>1. told' = [told EXCEPT ![u] = how] /\ told \in [Streams -> Endings] /\ told[u] = ""
  BY DEF Ends, Leaves, StreamInv, StreamTyped, StreamSound, StreamOK
<1>2. CASE u = One
  <2>1. ToldAs(told[One]) = "nothing" /\ ToldAs(told'[One]) = "gaveUp"
    BY <1>1, <1>2 DEF ToldAs
  <2>2. QED
    BY <2>1 DEF OneMove, ReplyMove
<1>3. CASE u # One
  BY <1>1, <1>3, OneRests
<1>4. QED
  BY <1>2, <1>3

LEMMA NothingMade ==
  ASSUME NEW m, m = <<>>
  PROVE  Chunked(m) = <<>> /\ Verdict(m) = "open"
<1>1. m \in Seq(Frames)
  BY EmptySeqIn
<1>2. \A i \in DOMAIN m : m[i].kind = "chunk"
  OBVIOUS
<1>3. QED
  BY <1>1, <1>2, AllChunks

LEMMA OneRoutes ==
  ASSUME StreamInv, One \in Streams, NEW u \in Streams, NEW f \in Frames, Route(u, f)
  PROVE  OneMove
<1>1. UNCHANGED <<told, shown>> /\ made' = [made EXCEPT ![u] = Append(made[u], f)]
  BY DEF Route, Sent, readVars
<1>2. made \in [Streams -> Seq(Frames)]
  BY DEF StreamInv, StreamTyped
<1>3. CASE u = One
  <2>1. /\ made[One] \in Seq(Frames) /\ WellMade(made[One])
        /\ made'[One] = Append(made[One], f)
    BY <1>1, <1>2, <1>3 DEF StreamInv, StreamSound, StreamOK
  <2>2. \/ made[One] = <<>>
        \/ made[One][Len(made[One])].kind \in IF f.kind = "end" THEN {"chunk", "error"} ELSE {"chunk"}
    BY <1>3, LastSent DEF Route
  <2>3. \A sh, end : ReplyMove(Chunked(made[One]), Verdict(made[One]), sh, end,
                              Chunked(made'[One]), Verdict(made'[One]), sh, end)
    BY <2>1, <2>2, ReplyMoves
  <2>4. QED
    BY <1>1, <2>3 DEF OneMove
<1>4. CASE u # One
  <2>1. made'[One] = made[One]
    BY <1>1, <1>2, <1>4
  <2>2. QED
    BY <1>1, <2>1, OneRests
<1>5. QED
  BY <1>3, <1>4

LEMMA OneConsumes ==
  ASSUME StreamInv, One \in Streams, NEW u \in Streams, at[u] \in {"reading", "waiting"},
         inQueue[u] # <<>>, Consume(u), UNCHANGED made
  PROVE  OneMove
<1>1. /\ told \in [Streams -> Endings] /\ shown \in [Streams -> Seq(Chunks)]
      /\ inQueue \in [Streams -> Seq(Frames)] /\ made \in [Streams -> Seq(Frames)]
      /\ StreamSound(u)
  BY DEF StreamInv, StreamTyped
<1>2. CASE u # One
  <2>1. told'[One] = told[One] /\ shown'[One] = shown[One]
    BY <1>1, <1>2 DEF Consume, Ends, Leaves
  <2>2. QED
    BY <2>1, OneRests
<1>3. CASE u = One
  <2>1. /\ told[One] = "" /\ WellMade(made[One]) /\ made[One] = shown[One] \o inQueue[One]
    BY <1>1, <1>3 DEF StreamSound, StreamOK, Routed
  <2>2. PICK m \in Seq(Frames), sh \in Seq(Chunks), q \in Seq(Frames) :
          m = made[One] /\ sh = shown[One] /\ q = inQueue[One]
    BY <1>1
  <2>3. PICK e : e = Head(inQueue[One])
    OBVIOUS
  <2>4. ReadFrom(m, sh, q, e)
    BY <1>3, <2>1, <2>2, <2>3 DEF ReadFrom
  <2>5. /\ e.kind = "chunk" => Len(sh) < Len(Chunked(m)) /\ Chunked(m)[Len(sh) + 1] = e
        /\ e.kind = "end" => Verdict(m) = "complete" /\ Chunked(m) = sh
        /\ e.kind = "error" => Verdict(m) = "failed"
    BY <2>4, ReadMoves
  <2>6. made'[One] = m /\ ToldAs("") = "nothing" /\ ToldAs("done") = "done" /\ ToldAs("error") = "error"
    BY <2>2 DEF ToldAs
  <2>7. CASE e.kind = "chunk"
    <3>1. shown'[One] = Append(sh, e) /\ told'[One] = told[One]
      BY <1>1, <1>3, <2>2, <2>3, <2>7 DEF Consume
    <3>2. QED
      BY <2>1, <2>2, <2>5, <2>6, <2>7, <3>1 DEF OneMove, ReplyMove
  <2>8. CASE e.kind = "end"
    <3>1. shown'[One] = sh /\ told'[One] = "done"
      BY <1>1, <1>3, <2>2, <2>3, <2>8 DEF Consume, Ends, Leaves
    <3>2. QED
      BY <2>1, <2>2, <2>5, <2>6, <2>8, <3>1 DEF OneMove, ReplyMove
  <2>9. CASE e.kind = "error"
    <3>1. shown'[One] = sh /\ told'[One] = "error"
      BY <1>1, <1>3, <2>2, <2>3, <2>9 DEF Consume, Ends, Leaves
    <3>2. QED
      BY <2>1, <2>2, <2>5, <2>6, <2>9, <3>1 DEF OneMove, ReplyMove
  <2>10. QED
    BY <1>3, <2>3, <2>7, <2>8, <2>9 DEF Consume
<1>4. QED
  BY <1>2, <1>3

LEMMA StepKeepsReply ==
  ASSUME StreamInv, [PyStreamNext]_pyStreamVars, One \in Streams
  PROVE  OneMove
<1>1. ASSUME NEW u \in Streams, BeginStream(u) \/ Started(u) \/ FlushFails(u) \/ Stall(u)
      PROVE  OneMove
  <2>1. UNCHANGED <<shown, made>> /\ at[u] # "over"
    BY <1>1 DEF BeginStream, Started, FlushFails, Stall
  <2>2. UNCHANGED told \/ \E how \in {"closed", "failed", "stalled"} : Leaves(u, how)
    BY <1>1 DEF BeginStream, Started, FlushFails, Stall, Ends
  <2>3. QED
    BY <2>1, <2>2, OneGivesUp, OneRests DEF Endings
<1>2. ASSUME NEW u \in Streams, Prepared(u) \/ Publish(u) \/ Abandon(u)
      PROVE  OneMove
  <2>1. UNCHANGED <<shown, made>> /\ at[u] # "over"
    BY <1>2 DEF Prepared, Publish, Abandon
  <2>2. UNCHANGED told \/ \E how \in {"closed", "failed", "dropped"} : Leaves(u, how)
    BY <1>2 DEF Prepared, Publish, Abandon, Ends
  <2>3. QED
    BY <2>1, <2>2, OneGivesUp, OneRests DEF Endings
<1>3. ASSUME NEW u \in Streams,
             TakeLock(u) \/ Subscribed(u) \/ Flushed(u) \/ Advance(u) \/ MaxWaitFires(u)
      PROVE  OneMove
  <2>1. UNCHANGED <<shown, made, told>>
    BY <1>3 DEF TakeLock, Subscribed, Flushed, Advance, MaxWaitFires, timerVars, readVars
  <2>2. QED
    BY <2>1, OneRests
<1>4. ASSUME NEW u \in Streams, NEW f \in Frames, Route(u, f) PROVE OneMove
  BY <1>4, OneRoutes
<1>5. ASSUME NEW u \in Streams, Read(u) PROVE OneMove
  <2>1. at[u] \in {"reading", "waiting"} /\ UNCHANGED made /\ at[u] # "over"
    BY <1>5 DEF Read
  <2>2. CASE inQueue[u] # <<>> /\ Consume(u)
    BY <2>1, <2>2, OneConsumes
  <2>3. ASSUME NEW how \in {"closed", "maxWait"}, Ends(u, how), UNCHANGED shown PROVE OneMove
    BY <2>1, <2>3, OneGivesUp DEF Endings
  <2>4. CASE UNCHANGED <<told, shown>>
    BY <2>1, <2>4, OneRests
  <2>5. QED
    BY <1>5, <2>2, <2>3, <2>4 DEF Read
<1>6. CASE CloseClient
  BY <1>6, OneRests DEF CloseClient, readVars
<1>7. CASE UNCHANGED pyStreamVars
  BY <1>7, OneRests DEF pyStreamVars, readVars
<1>8. QED
  BY <1>1, <1>2, <1>3, <1>4, <1>5, <1>6, <1>7 DEF PyStreamNext, StreamMoves, Frames

\* A consumer of the Python SDK sees its reply's chunks in order, an end only
\* of a reply that is complete and that it has seen whole, an error only of one
\* that failed (agent.py: _stream_prompt): the contract of a reply, whatever
\* its length, whoever else prompts, closes or gives up.
THEOREM KeepsReply == ASSUME Streams # {} PROVE PyStreamSpec => KeepsPyContract
<1>1. One \in Streams
  BY DEF One
<1>2. PyStreamInit => Reply!ContractInit
  <2> SUFFICES ASSUME PyStreamInit PROVE Reply!ContractInit
    OBVIOUS
  <2>1. made[One] = <<>> /\ shown[One] = <<>> /\ told[One] = ""
    BY <1>1 DEF PyStreamInit
  <2>2. Chunked(made[One]) = <<>> /\ Verdict(made[One]) = "open"
    BY <2>1, NothingMade
  <2>3. QED
    BY <2>1, <2>2 DEF Reply!ContractInit, Chunked, Verdict
<1>3. OneMove => [Reply!ContractNext]_(Reply!contractVars)
  BY DEF OneMove, ReplyMove, Chunked, Verdict, ToldAs, Reply!ContractNext, Reply!contractVars,
         Reply!Produce, Reply!Conclude, Reply!Show, Reply!TellDone, Reply!TellError, Reply!GiveUp
<1>4. QED
  BY <1>1, <1>2, <1>3, StreamInvInit, StreamInvNext, StepKeepsReply, PTL
     DEF PyStreamSpec, KeepsPyContract, Reply!ContractSpec
=============================================================================
