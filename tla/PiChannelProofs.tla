---------------------------- MODULE PiChannelProofs ----------------------------
(***************************************************************************)
(* No NATS prompt and no local turn at the same time (PiChannel.tla), for  *)
(* any number of prompts and any bounds.  drainQueue hands over only       *)
(* outside a local turn, and agent_start opens one only beside no active   *)
(* prompt; everything else clears one of the two or leaves both.           *)
(***************************************************************************)
EXTENDS PiChannel, SequenceTheorems, TLAPS

(* drainQueue makes no prompt active while a local turn is open.           *)
LEMMA DrainKeepsTurns ==
  ASSUME NEW st, NEW q, NEW armed, OneTurnAtATime, local' = local, Drain(st, q, armed)
  PROVE  OneTurnAtATime'
  BY DEF Drain, MayHandOver, OneTurnAtATime

(* Every step keeps the turns apart.                                       *)
LEMMA NextKeepsTurns == OneTurnAtATime /\ [Next]_vars => OneTurnAtATime'
<1> SUFFICES ASSUME OneTurnAtATime, [Next]_vars PROVE OneTurnAtATime'
  OBVIOUS
<1>1. ASSUME NEW p \in Prompts, OnPrompt(p) PROVE OneTurnAtATime'
  BY <1>1, DrainKeepsTurns DEF OnPrompt
<1>2. CASE RetryInjection
  BY <1>2, DrainKeepsTurns DEF RetryInjection
<1>3. CASE Flushed
  BY <1>3, DrainKeepsTurns DEF Flushed
<1>4. CASE AgentStart
  BY <1>4 DEF AgentStart, OpensTurn, OneTurnAtATime
<1>5. CASE Shutdown \/ AgentSettled
  BY <1>5 DEF Shutdown, AgentSettled, OneTurnAtATime
<1>6. CASE Expire \/ ServiceStopped
  BY <1>6 DEF Expire, ServiceStopped, OneTurnAtATime
<1>7. ASSUME NEW p \in Prompts, Takes(p) \/ Refuses(p) PROVE OneTurnAtATime'
  BY <1>7 DEF Takes, Refuses, channelVars, OneTurnAtATime
<1>8. CASE Types \/ RunSettles
  BY <1>8 DEF Types, RunSettles, channelVars, OneTurnAtATime
<1>9. CASE UNCHANGED vars
  BY <1>9 DEF vars, channelVars, OneTurnAtATime
<1>10. QED
  BY <1>1, <1>2, <1>3, <1>4, <1>5, <1>6, <1>7, <1>8, <1>9 DEF Next

(* No NATS prompt is ever active inside a local turn (local-turns.ts).     *)
THEOREM TurnsApart == Spec => []OneTurnAtATime
<1>1. Init => OneTurnAtATime
  BY DEF Init, OneTurnAtATime
<1>2. QED
  BY <1>1, NextKeepsTurns, PTL DEF Spec

-----------------------------------------------------------------------------
(* Prompts get their own answers, in the order they came.  The queue is a  *)
(* part of the line of arrivals that holds whoever still waits; and while  *)
(* a run is under way, or its end not heard, the channel knows whose it    *)
(* is: a local turn is open, or a prompt active that PI was given.         *)
States == {"new", "pending", "answered", "failed"}

(* A prompt that was sent is in the line of arrivals, once.                *)
ArrivedOnce(st, arr) ==
  /\ \A i \in 1..Len(arr) : st[arr[i]] # "new"
  /\ \A i, j \in 1..Len(arr) : arr[i] = arr[j] => i = j

(* The queue is in the order of the line, also what was put back.          *)
InOrder(arr, q) ==
  \A i, j \in 1..Len(q) : \A a, b \in 1..Len(arr) :
    i < j /\ arr[a] = q[i] /\ arr[b] = q[j] => a < b

QueuedArrived(st, q) == \A i \in 1..Len(q) : st[q[i]] # "new"

PendingQueued(st, q, act) ==
  \A p \in Prompts : st[p] = "pending" /\ p # act => \E i \in 1..Len(q) : q[i] = p

Line(st, arr, q, act) ==
  /\ st \in [Prompts -> States] /\ arr \in Seq(Prompts) /\ q \in Seq(Prompts)
  /\ act \in Prompts \cup {None} /\ (act # None => st[act] # "new")
  /\ ArrivedOnce(st, arr) /\ InOrder(arr, q)
  /\ QueuedArrived(st, q) /\ PendingQueued(st, q, act)

(* None stands for no prompt (the assumption on the constants).            *)
LEMMA NoneIsNoPrompt == None \notin Prompts
  BY PiAssumption

(* What is left of a queue.                                                *)
LEMMA RestIs ==
  ASSUME NEW q \in Seq(Prompts), NEW k \in 1..Len(q) + 1
  PROVE  /\ Rest(q, k) \in Seq(Prompts)
         /\ Len(Rest(q, k)) = Len(q) - k + 1
         /\ \A i \in 1..Len(Rest(q, k)) : Rest(q, k)[i] = q[k + i - 1]
<1>1. Len(q) \in Nat /\ \A i \in k..Len(q) : q[i] \in Prompts
  BY LenProperties, ElementOfSeq
<1>2. k \in Int /\ Len(q) \in Int
  BY <1>1
<1> QED
  BY <1>1, <1>2, SubSeqProperties DEF Rest

(* Whoever arrives joins the line and the queue at their ends.             *)
LEMMA JoinsLine ==
  ASSUME NEW st, NEW arr, NEW q, NEW act, Line(st, arr, q, act),
         NEW p \in Prompts, st[p] = "new"
  PROVE  Line([st EXCEPT ![p] = "pending"], Append(arr, p), Append(q, p), act)
<1> DEFINE st2 == [st EXCEPT ![p] = "pending"]
           arr2 == Append(arr, p)
           q2 == Append(q, p)
<1>1. st2 \in [Prompts -> States] /\ arr2 \in Seq(Prompts) /\ q2 \in Seq(Prompts)
  BY DEF Line, States
<1>2. /\ Len(arr) \in Nat /\ Len(arr2) = Len(arr) + 1 /\ arr2[Len(arr) + 1] = p
      /\ \A i \in 1..Len(arr) : arr2[i] = arr[i] /\ arr[i] \in Prompts /\ arr[i] # p
  BY DEF Line, ArrivedOnce
<1>3. /\ Len(q) \in Nat /\ Len(q2) = Len(q) + 1 /\ q2[Len(q) + 1] = p
      /\ \A i \in 1..Len(q) : q2[i] = q[i] /\ q[i] \in Prompts /\ q[i] # p
  BY DEF Line, QueuedArrived
<1>4. st2[p] = "pending" /\ \A r \in Prompts \ {p} : st2[r] = st[r]
  BY DEF Line
<1> HIDE DEF st2, arr2, q2
<1>5. ArrivedOnce(st2, arr2)
  <2>1. \A i \in 1..Len(arr2) : st2[arr2[i]] # "new"
    BY <1>2, <1>4 DEF Line, ArrivedOnce
  <2>2. \A i, j \in 1..Len(arr2) : arr2[i] = arr2[j] => i = j
    BY <1>2 DEF Line, ArrivedOnce
  <2> QED
    BY <2>1, <2>2 DEF ArrivedOnce
<1>6. InOrder(arr2, q2)
  <2> SUFFICES ASSUME NEW i \in 1..Len(q2), NEW j \in 1..Len(q2),
                      NEW a \in 1..Len(arr2), NEW b \in 1..Len(arr2),
                      i < j, arr2[a] = q2[i], arr2[b] = q2[j]
               PROVE  a < b
    BY DEF InOrder
  <2>1. i \in 1..Len(q) /\ a \in 1..Len(arr)
    BY <1>2, <1>3
  <2>2. CASE j = Len(q) + 1
    BY <2>1, <2>2, <1>2, <1>3
  <2>3. CASE j \in 1..Len(q)
    <3>1. b \in 1..Len(arr)
      BY <2>3, <1>2, <1>3
    <3>2. InOrder(arr, q)
      BY DEF Line
    <3> QED
      BY <3>1, <3>2, <2>1, <2>3, <1>2, <1>3 DEF InOrder
  <2> QED
    BY <2>2, <2>3, <1>3
<1>7. QueuedArrived(st2, q2)
  BY <1>3, <1>4 DEF Line, QueuedArrived
<1>8. PendingQueued(st2, q2, act)
  <2> SUFFICES ASSUME NEW r \in Prompts, st2[r] = "pending", r # act
               PROVE  \E i \in 1..Len(q2) : q2[i] = r
    BY DEF PendingQueued
  <2>1. CASE r = p
    BY <2>1, <1>3
  <2>2. CASE r # p
    <3>1. PICK i \in 1..Len(q) : q[i] = r
      BY <2>2, <1>4 DEF Line, PendingQueued
    <3> QED
      BY <3>1, <1>3
  <2> QED
    BY <2>1, <2>2
<1> QED
  BY <1>1, <1>5, <1>6, <1>7, <1>8 DEF Line, st2, arr2, q2

(* The line when prompts have been settled and the queue lost its head.    *)
LEMMA LineKept ==
  ASSUME NEW st, NEW arr, NEW q, NEW act, Line(st, arr, q, act),
         NEW st2 \in [Prompts -> States],
         \A p \in Prompts : (st2[p] = "new") <=> (st[p] = "new"),
         NEW k \in 1..Len(q) + 1,
         NEW act2 \in Prompts \cup {None}, act2 # None => st[act2] # "new",
         PendingQueued(st2, Rest(q, k), act2)
  PROVE  Line(st2, arr, Rest(q, k), act2)
<1>1. /\ q \in Seq(Prompts) /\ Len(q) \in Nat
      /\ arr \in Seq(Prompts) /\ \A i \in 1..Len(arr) : arr[i] \in Prompts
      /\ \A i \in 1..Len(q) : q[i] \in Prompts
  BY DEF Line
<1>2. /\ Rest(q, k) \in Seq(Prompts) /\ Len(Rest(q, k)) = Len(q) - k + 1
      /\ \A i \in 1..Len(Rest(q, k)) : Rest(q, k)[i] = q[k + i - 1]
  BY <1>1, RestIs
<1>3. \A i \in 1..Len(Rest(q, k)) : k + i - 1 \in 1..Len(q)
  BY <1>1, <1>2
<1>4. ArrivedOnce(st2, arr)
  BY <1>1 DEF Line, ArrivedOnce
<1>5. QueuedArrived(st2, Rest(q, k))
  BY <1>1, <1>2, <1>3 DEF Line, QueuedArrived
<1>6. InOrder(arr, Rest(q, k))
  <2> SUFFICES ASSUME NEW i \in 1..Len(Rest(q, k)), NEW j \in 1..Len(Rest(q, k)),
                      NEW a \in 1..Len(arr), NEW b \in 1..Len(arr), i < j,
                      arr[a] = Rest(q, k)[i], arr[b] = Rest(q, k)[j]
               PROVE  a < b
    BY DEF InOrder
  <2> DEFINE x == k + i - 1
             y == k + j - 1
  <2>1. /\ arr[a] = q[x] /\ arr[b] = q[y] /\ x < y
        /\ x \in 1..Len(q) /\ y \in 1..Len(q)
    BY <1>1, <1>2, <1>3
  <2>2. InOrder(arr, q)
    BY DEF Line
  <2> HIDE DEF x, y
  <2> QED
    BY <2>1, <2>2 DEF InOrder
<1> QED
  BY <1>1, <1>2, <1>4, <1>5, <1>6 DEF Line

(* What drainQueue does to the line: it settles nobody but the prompts it  *)
(* fails, and what it takes from the queue it fails or hands over.         *)
LEMMA DrainTakes ==
  ASSUME NEW st \in [Prompts -> States], NEW q \in Seq(Prompts), NEW armed,
         active \in Prompts \cup {None}, Drain(st, q, armed)
  PROVE  /\ state' \in [Prompts -> States]
         /\ \A p \in Prompts :
              state'[p] = st[p] \/ (st[p] = "pending" /\ state'[p] = "failed")
         /\ \E k \in 1..Len(q) + 1 :
              /\ queue' = Rest(q, k)
              /\ \A i \in 1..k - 1 : state'[q[i]] # "pending" \/ q[i] = active'
         /\ \/ active' = active /\ injected' = injected
            \/ \E k \in 1..Len(q) :
                 /\ MayHandOver /\ active' = q[k]
                 /\ injected' = injected \cup {active'}
                 /\ \A i \in 1..k - 1 : state'[q[i]] # "pending"
<1>1. Len(q) \in Nat /\ (\A i \in 1..Len(q) : q[i] \in Prompts)
  OBVIOUS
<1>2. CASE ~MayHandOver /\ state' = st /\ queue' = q /\ UNCHANGED <<active, injected>>
  <2>1. Rest(q, 1) = q
    BY SubSeqFull DEF Rest
  <2>2. 1 \in 1..Len(q) + 1 /\ 1..1 - 1 = {}
    BY <1>1
  <2> QED
    BY <1>2, <2>1, <2>2
<1>3. ASSUME MayHandOver, NEW k \in 1..Len(q) + 1,
             state' = [p \in Prompts |->
                         IF st[p] = "pending" /\ \E i \in 1..k - 1 : q[i] = p
                         THEN "failed" ELSE st[p]],
             \/ k > Len(q) /\ queue' = <<>> /\ UNCHANGED <<active, injected>>
             \/ /\ k <= Len(q) /\ queue' = Rest(q, k + 1)
                /\ active' = q[k] /\ injected' = injected \cup {q[k]}
             \/ k <= Len(q) /\ queue' = PutBack(q, k) /\ UNCHANGED <<active, injected>>
      PROVE  /\ state' \in [Prompts -> States]
             /\ \A p \in Prompts :
                  state'[p] = st[p] \/ (st[p] = "pending" /\ state'[p] = "failed")
             /\ \E l \in 1..Len(q) + 1 :
                  /\ queue' = Rest(q, l)
                  /\ \A i \in 1..l - 1 : state'[q[i]] # "pending" \/ q[i] = active'
             /\ \/ active' = active /\ injected' = injected
                \/ \E l \in 1..Len(q) :
                     /\ MayHandOver /\ active' = q[l]
                     /\ injected' = injected \cup {active'}
                     /\ \A i \in 1..l - 1 : state'[q[i]] # "pending"
  <2>1. state' \in [Prompts -> States]
    BY <1>3 DEF States
  <2>2. \A p \in Prompts :
          state'[p] = st[p] \/ (st[p] = "pending" /\ state'[p] = "failed")
    BY <1>3
  <2>3. \A i \in 1..k - 1 : state'[q[i]] # "pending"
    BY <1>1, <1>3
  <2>4. CASE k > Len(q) /\ queue' = <<>> /\ UNCHANGED <<active, injected>>
    <3>1. k = Len(q) + 1
      BY <1>1, <2>4
    <3>2. Rest(q, k) = <<>>
      BY <1>1, <3>1, SubSeqEmpty DEF Rest
    <3> QED
      BY <2>1, <2>2, <2>3, <2>4, <3>2
  <2>5. CASE /\ k <= Len(q) /\ queue' = Rest(q, k + 1)
             /\ active' = q[k] /\ injected' = injected \cup {q[k]}
    <3>1. k \in 1..Len(q) /\ k + 1 \in 1..Len(q) + 1
      BY <1>1, <2>5
    <3>2. \A i \in 1..(k + 1) - 1 : state'[q[i]] # "pending" \/ q[i] = active'
      <4>1. \A i \in 1..(k + 1) - 1 : i \in 1..k - 1 \/ i = k
        BY <3>1
      <4> QED
        BY <4>1, <2>3, <2>5
    <3> QED
      BY <1>3, <2>1, <2>2, <2>3, <2>5, <3>1, <3>2
  <2>6. CASE k <= Len(q) /\ queue' = PutBack(q, k) /\ UNCHANGED <<active, injected>>
    BY <2>1, <2>2, <2>3, <2>6 DEF PutBack
  <2> QED
    BY <1>3, <2>4, <2>5, <2>6
<1> QED
  BY <1>2, <1>3 DEF Drain


LEMMA DrainKeepsLine ==
  ASSUME NEW st, NEW arr, NEW q, NEW armed, Line(st, arr, q, active), Drain(st, q, armed)
  PROVE  Line(state', arr, queue', active')
<1>1. /\ st \in [Prompts -> States] /\ q \in Seq(Prompts) /\ Len(q) \in Nat
      /\ active \in Prompts \cup {None}
      /\ \A i \in 1..Len(q) : q[i] \in Prompts
  BY DEF Line
<1>2. /\ state' \in [Prompts -> States]
      /\ \A p \in Prompts :
           state'[p] = st[p] \/ (st[p] = "pending" /\ state'[p] = "failed")
      /\ active' = active \/ (active = None /\ active' \in Prompts)
  BY <1>1, DrainTakes DEF MayHandOver
<1>3. PICK k \in 1..Len(q) + 1 :
        /\ queue' = Rest(q, k)
        /\ \A i \in 1..k - 1 : state'[q[i]] # "pending" \/ q[i] = active'
  BY <1>1, DrainTakes
<1>4. PendingQueued(state', Rest(q, k), active')
  <2> SUFFICES ASSUME NEW p \in Prompts, state'[p] = "pending", p # active'
               PROVE  \E i \in 1..Len(Rest(q, k)) : Rest(q, k)[i] = p
    BY DEF PendingQueued
  <2>1. st[p] = "pending" /\ p # active
    BY <1>1, <1>2, NoneIsNoPrompt
  <2>2. PICK i \in 1..Len(q) : q[i] = p
    BY <2>1 DEF Line, PendingQueued
  <2>3. i \in k..Len(q)
    BY <1>1, <1>3, <2>2
  <2>4. i - k + 1 \in 1..Len(Rest(q, k)) /\ Rest(q, k)[i - k + 1] = q[i]
    BY <1>1, <2>3, RestIs
  <2> QED
    BY <2>2, <2>4
<1>5. active' # None => st[active'] # "new"
  <2>1. \/ active' = active
        \/ \E m \in 1..Len(q) : active' = q[m]
    BY <1>1, DrainTakes
  <2> QED
    BY <2>1 DEF Line, QueuedArrived
<1> QED
  BY <1>1, <1>2, <1>3, <1>4, <1>5, LineKept

(* Whom drainQueue hands over, all who arrived before are settled.         *)
LEMMA DrainHandsInOrder ==
  ASSUME NEW st, NEW arr, NEW q, NEW armed, Line(st, arr, q, active), Drain(st, q, armed),
         NEW i \in 1..Len(arr), NEW j \in 1..Len(arr), i < j,
         active # arr[j], active' = arr[j]
  PROVE  state'[arr[i]] # "pending"
<1>1. /\ st \in [Prompts -> States] /\ q \in Seq(Prompts) /\ Len(q) \in Nat
      /\ Len(arr) \in Nat /\ arr[i] \in Prompts /\ arr[j] \in Prompts
      /\ active \in Prompts \cup {None}
      /\ \A m \in 1..Len(q) : q[m] \in Prompts
  BY DEF Line
<1>2. \A p \in Prompts :
        state'[p] = st[p] \/ (st[p] = "pending" /\ state'[p] = "failed")
  BY <1>1, DrainTakes
<1>3. PICK k \in 1..Len(q) :
        /\ MayHandOver /\ active' = q[k]
        /\ \A m \in 1..k - 1 : state'[q[m]] # "pending"
  BY <1>1, DrainTakes
<1> SUFFICES ASSUME state'[arr[i]] = "pending" PROVE FALSE
  OBVIOUS
<1>4. st[arr[i]] = "pending" /\ arr[i] # active
  BY <1>1, <1>2, <1>3, NoneIsNoPrompt DEF MayHandOver
<1>5. PICK m \in 1..Len(q) : q[m] = arr[i]
  BY <1>1, <1>4 DEF Line, PendingQueued
<1>6. CASE m < k
  BY <1>1, <1>3, <1>5, <1>6
<1>7. CASE m = k
  <2>1. arr[i] = arr[j]
    BY <1>3, <1>5, <1>7
  <2>2. \A a, b \in 1..Len(arr) : arr[a] = arr[b] => a = b
    BY DEF Line, ArrivedOnce
  <2> QED
    BY <1>1, <2>1, <2>2
<1>8. CASE k < m
  <2>1. InOrder(arr, q)
    BY DEF Line
  <2>2. j < i
    BY <1>3, <1>5, <1>8, <2>1 DEF InOrder
  <2> QED
    BY <1>1, <2>2
<1> QED
  BY <1>1, <1>6, <1>7, <1>8

-----------------------------------------------------------------------------
(* While the channel is up, the prompt it has active is with PI.           *)
WithPi ==
  phase = "up" /\ active # None => active \in injected \cup run \cup settled \cup refused

OneRunAtATime == pi = "running" => settled = {}

(* A run the channel has heard of, or whose end it has not: it knows whose.*)
RunsAreKnown ==
  phase = "up" /\ (pi = "running" \/ settled # {}) => local \/ active # None

(* The end of a run finds its own prompt active, or one that PI refused.   *)
EndsItsOwn ==
  phase = "up" /\ settled # {} /\ active # None => active \in settled \cup refused

Runs == WithPi /\ OneRunAtATime /\ RunsAreKnown /\ EndsItsOwn

ServedInv == Line(state, arrived, queue, active) /\ Runs

(* drainQueue, of whatever queue, hands over between two runs.             *)
LEMMA DrainKeepsRuns ==
  ASSUME NEW st \in [Prompts -> States], NEW q \in Seq(Prompts), NEW armed, Runs,
         active \in Prompts \cup {None}, Drain(st, q, armed),
         UNCHANGED <<phase, local, pi, run, settled, refused>>
  PROVE  Runs'
<1>1. \/ active' = active /\ injected' = injected
      \/ MayHandOver /\ injected' = injected \cup {active'}
  BY DrainTakes
<1>2. CASE active' = active /\ injected' = injected
  BY <1>2 DEF Runs, WithPi, OneRunAtATime, RunsAreKnown, EndsItsOwn
<1>3. CASE MayHandOver /\ injected' = injected \cup {active'}
  BY <1>3 DEF Runs, WithPi, OneRunAtATime, RunsAreKnown, EndsItsOwn, MayHandOver
<1> QED
  BY <1>1, <1>2, <1>3


(* Steps after which the line has the same order and the queue all who     *)
(* wait: prompts are settled, nobody becomes active.                       *)
LEMMA SettlingKeepsLine ==
  ASSUME Line(state, arrived, queue, active), UNCHANGED <<arrived, queue>>,
         state' \in [Prompts -> States], active' \in {active, None},
         \A p \in Prompts :
           \/ state'[p] = state[p] /\ (state[p] = "pending" => p # active \/ active' = active)
           \/ state[p] # "new" /\ state'[p] \in {"answered", "failed"}
  PROVE  Line(state', arrived', queue', active')
<1>1. /\ queue \in Seq(Prompts) /\ Len(queue) \in Nat
      /\ active' \in Prompts \cup {None} /\ (active' # None => state[active'] # "new")
  BY DEF Line
<1>2. Rest(queue, 1) = queue /\ 1 \in 1..Len(queue) + 1
  BY <1>1, SubSeqFull DEF Rest
<1>3. PendingQueued(state', queue, active')
  BY DEF Line, PendingQueued
<1>4. \A p \in Prompts : (state'[p] = "new") <=> (state[p] = "new")
  OBVIOUS
<1> QED
  BY <1>1, <1>2, <1>3, <1>4, LineKept

(* drainQueue, called with the line as it is.                              *)
LEMMA DrainKeepsServedInv ==
  ASSUME ServedInv, NEW armed, Drain(state, queue, armed),
         UNCHANGED <<phase, arrived, local, pi, run, settled, refused>>
  PROVE  ServedInv'
<1>1. /\ state \in [Prompts -> States] /\ queue \in Seq(Prompts)
      /\ active \in Prompts \cup {None}
  BY DEF ServedInv, Line
<1>2. Line(state', arrived', queue', active')
  BY DrainKeepsLine DEF ServedInv
<1> QED
  BY <1>1, <1>2, DrainKeepsRuns DEF ServedInv

LEMMA OnPromptServes ==
  ASSUME ServedInv, NEW p \in Prompts, OnPrompt(p)
  PROVE  ServedInv'
<1> DEFINE st == [state EXCEPT ![p] = "pending"]
           q == Append(queue, p)
<1>1. Line(st, arrived', q, active)
  BY JoinsLine DEF ServedInv, OnPrompt
<1>2. Drain(st, q, retry)
  BY DEF OnPrompt
<1> HIDE DEF st, q
<1>3. Line(state', arrived', queue', active')
  BY <1>1, <1>2, DrainKeepsLine
<1>4. st \in [Prompts -> States] /\ q \in Seq(Prompts) /\ active \in Prompts \cup {None}
  BY <1>1 DEF Line
<1>5. Runs'
  BY <1>2, <1>4, DrainKeepsRuns DEF ServedInv, OnPrompt
<1> QED
  BY <1>3, <1>5 DEF ServedInv

(* PI's own steps leave the line alone.                                    *)
LEMMA PiServes ==
  ASSUME ServedInv,
         \/ \E p \in Prompts : Takes(p) \/ Refuses(p)
         \/ Types \/ AgentStart \/ RunSettles \/ UNCHANGED vars
  PROVE  ServedInv'
<1>1. Line(state', arrived', queue', active')
  BY DEF ServedInv, Takes, Refuses, Types, AgentStart, RunSettles, vars, channelVars
<1> USE DEF ServedInv, Runs, WithPi, OneRunAtATime, RunsAreKnown, EndsItsOwn
<1>2. ASSUME NEW p \in Prompts, Takes(p) PROVE Runs'
  BY <1>2 DEF Takes, channelVars
<1>3. ASSUME NEW p \in Prompts, Refuses(p) PROVE Runs'
  BY <1>3 DEF Refuses, channelVars
<1>4. CASE Types
  BY <1>4 DEF Types, channelVars
<1>5. CASE AgentStart
  BY <1>5 DEF AgentStart, OpensTurn
<1>6. CASE RunSettles
  BY <1>6 DEF RunSettles, channelVars
<1>7. CASE UNCHANGED vars
  BY <1>7 DEF vars, channelVars, piVars
<1> QED
  BY <1>1, <1>2, <1>3, <1>4, <1>5, <1>6, <1>7

(* Steps that settle prompts.                                              *)
LEMMA SettlingServes ==
  ASSUME ServedInv, Expire \/ Shutdown \/ ServiceStopped \/ AgentSettled
  PROVE  ServedInv'
<1>1. /\ state \in [Prompts -> States] /\ queue \in Seq(Prompts)
      /\ Len(queue) \in Nat /\ active \in Prompts \cup {None}
  BY DEF ServedInv, Line
<1>2. CASE Expire
  <2>1. PICK n \in 1..Len(arrived) :
          LET old == {arrived[i] : i \in 1..n} \cap Waiting
          IN state' = [p \in Prompts |-> IF p \in old THEN "failed" ELSE state[p]]
    BY <1>2 DEF Expire
  <2>2. /\ state' \in [Prompts -> States]
        /\ \A p \in Prompts :
             state'[p] = state[p] \/ (state[p] = "pending" /\ state'[p] = "failed")
    BY <1>1, <2>1 DEF States, Waiting
  <2>3. Line(state', arrived', queue', active')
    BY <1>2, <2>2, SettlingKeepsLine DEF Expire, ServedInv
  <2> QED
    BY <1>2, <2>3 DEF Expire, ServedInv, Runs, WithPi, OneRunAtATime, RunsAreKnown,
                      EndsItsOwn, piVars
<1>3. CASE Shutdown
  <2>1. /\ state' \in [Prompts -> States]
        /\ \A p \in Prompts : /\ state'[p] # "pending"
                              /\ (state'[p] = "new") <=> (state[p] = "new")
    BY <1>1, <1>3 DEF Shutdown, States
  <2>2. /\ queue' = Rest(queue, Len(queue) + 1) /\ Len(queue) + 1 \in 1..Len(queue) + 1
        /\ active' \in Prompts \cup {None}
    BY <1>1, <1>3, SubSeqEmpty DEF Shutdown, Rest
  <2>3. PendingQueued(state', queue', active')
    BY <2>1 DEF PendingQueued
  <2>4. Line(state', arrived', queue', active')
    BY <1>3, <2>1, <2>2, <2>3, LineKept DEF Shutdown, ServedInv
  <2> QED
    BY <1>3, <2>4 DEF Shutdown, ServedInv, Runs, WithPi, OneRunAtATime, RunsAreKnown,
                      EndsItsOwn, piVars
<1>4. CASE ServiceStopped
  BY <1>4 DEF ServiceStopped, ServedInv, Runs, WithPi, OneRunAtATime, RunsAreKnown,
              EndsItsOwn, piVars
<1>5. CASE AgentSettled
  <2>1. Line(state', arrived', queue', active')
    <3>1. CASE active = None
      BY <1>1, <1>5, <3>1, NoneIsNoPrompt, SettlingKeepsLine DEF AgentSettled, ServedInv
    <3>2. CASE active \in Prompts /\ state[active] # "new"
      <4>1. state' \in [Prompts -> States]
        BY <1>1, <1>5, <3>2, NoneIsNoPrompt DEF AgentSettled, States
      <4>2. \A p \in Prompts :
              state'[p] = IF p = active THEN "answered" ELSE state[p]
        BY <1>1, <1>5, <3>2, NoneIsNoPrompt DEF AgentSettled
      <4> QED
        BY <1>5, <3>2, <4>1, <4>2, SettlingKeepsLine DEF AgentSettled, ServedInv
    <3> QED
      BY <1>1, <3>1, <3>2 DEF ServedInv, Line
  <2> QED
    BY <1>5, <2>1 DEF AgentSettled, ServedInv, Runs, WithPi, OneRunAtATime, RunsAreKnown,
                      EndsItsOwn
<1> QED
  BY <1>2, <1>3, <1>4, <1>5

(* Every step keeps the line of arrivals and the runs in step.             *)
LEMMA NextServes ==
  ASSUME ServedInv, [Next]_vars
  PROVE  ServedInv'
<1>1. CASE RetryInjection
  BY <1>1, DrainKeepsServedInv DEF RetryInjection
<1>2. CASE Flushed
  BY <1>2, DrainKeepsServedInv DEF Flushed
<1> QED
  BY <1>1, <1>2, OnPromptServes, PiServes, SettlingServes DEF Next

(* drainQueue answers nobody.                                              *)
LEMMA DrainAnswersNobody ==
  ASSUME ServedInv, NEW st \in [Prompts -> States], NEW q \in Seq(Prompts), NEW armed,
         Drain(st, q, armed), NEW p \in Prompts, st[p] # "answered"
  PROVE  state'[p] # "answered"
<1>1. active \in Prompts \cup {None}
  BY DEF ServedInv, Line
<1> QED
  BY <1>1, DrainTakes

(* Only agent_settled answers a prompt, and it answers the active one.     *)
LEMMA StepAnswersWell ==
  ASSUME ServedInv, [Next]_vars
  PROVE  AnsweredByItsRun
<1> SUFFICES ASSUME NEW p \in Prompts, phase = "up",
                    state[p] = "pending", state'[p] = "answered"
             PROVE  p \in settled \cup refused
  BY DEF AnsweredByItsRun
<1>1. /\ state \in [Prompts -> States] /\ queue \in Seq(Prompts)
      /\ active \in Prompts \cup {None}
  BY DEF ServedInv, Line
<1>2. ASSUME NEW r \in Prompts, OnPrompt(r) PROVE FALSE
  <2> DEFINE st == [state EXCEPT ![r] = "pending"]
             q == Append(queue, r)
  <2>1. st \in [Prompts -> States] /\ q \in Seq(Prompts) /\ st[p] # "answered"
    BY <1>1 DEF States
  <2>2. Drain(st, q, retry)
    BY <1>2 DEF OnPrompt
  <2> HIDE DEF st, q
  <2> QED
    BY <2>1, <2>2, DrainAnswersNobody
<1>3. CASE RetryInjection
  BY <1>1, <1>3, DrainAnswersNobody DEF RetryInjection
<1>4. CASE Flushed
  BY <1>1, <1>4, DrainAnswersNobody DEF Flushed
<1>5. CASE Expire \/ Shutdown
  BY <1>1, <1>5 DEF Expire, Shutdown
<1>6. CASE AgentSettled
  <2>1. active = p
    BY <1>1, <1>6 DEF AgentSettled
  <2> QED
    BY <1>6, <2>1, NoneIsNoPrompt DEF AgentSettled, ServedInv, Runs, EndsItsOwn
<1>7. CASE state' = state
  BY <1>7
<1> QED
  BY <1>2, <1>3, <1>4, <1>5, <1>6, <1>7
  DEF Next, ServiceStopped, Takes, Refuses, Types, AgentStart, RunSettles, vars, channelVars

(* Who becomes active comes from drainQueue, the first that still waits.   *)
LEMMA StepHandsInOrder ==
  ASSUME ServedInv, [Next]_vars
  PROVE  HandedInOrder
<1>1. ASSUME NEW p \in Prompts, OnPrompt(p) PROVE HandedInOrder
  <2> DEFINE st == [state EXCEPT ![p] = "pending"]
             q == Append(queue, p)
  <2>1. Line(st, arrived', q, active) /\ Drain(st, q, retry)
    BY <1>1, JoinsLine DEF ServedInv, OnPrompt
  <2> HIDE DEF st, q
  <2> QED
    BY <2>1, DrainHandsInOrder DEF HandedInOrder
<1>2. CASE RetryInjection \/ Flushed
  <2>1. PICK armed : Drain(state, queue, armed)
    BY <1>2 DEF RetryInjection, Flushed
  <2>2. Line(state, arrived', queue, active)
    BY <1>2 DEF ServedInv, RetryInjection, Flushed
  <2> QED
    BY <2>1, <2>2, DrainHandsInOrder DEF HandedInOrder
<1>3. CASE active' \in {active, None}
  <2>1. \A j \in 1..Len(arrived') : arrived'[j] \in Prompts
    BY NextServes DEF ServedInv, Line
  <2> QED
    BY <1>3, <2>1, NoneIsNoPrompt DEF HandedInOrder
<1> QED
  BY <1>1, <1>2, <1>3
  DEF Next, Expire, Shutdown, ServiceStopped, Takes, Refuses, Types, AgentStart,
      RunSettles, AgentSettled, vars, channelVars

(* Every prompt is answered by its own run, or by another's only when PI   *)
(* refused it, and prompts reach PI in the order they came                 *)
(* (prompt-queue.ts, local-turns.ts).                                      *)
THEOREM PromptsServed == Spec => PromptsAreServed
<1>1. Init => ServedInv
  BY DEF Init, ServedInv, Line, States, ArrivedOnce, InOrder, QueuedArrived, PendingQueued,
         Runs, WithPi, OneRunAtATime, RunsAreKnown, EndsItsOwn
<1>2. ServedInv /\ [Next]_vars => ServedInv'
  BY NextServes
<1>3. ServedInv /\ [Next]_vars => AnsweredByItsRun /\ HandedInOrder
  BY StepAnswersWell, StepHandsInOrder
<1>4. Spec => [][AnsweredByItsRun /\ HandedInOrder]_vars
  BY <1>1, <1>2, <1>3, PTL DEF Spec
<1> QED
  BY <1>4 DEF PromptsAreServed

=============================================================================
