----------------------------- MODULE ChannelProofs -----------------------------
(***************************************************************************)
(* Between callers, agents and browsers: the turns of a channel are kept   *)
(* apart (ChannelTurns.tla), a browser is shown what its bridge knows      *)
(* (WebBridge.tla), and the Codex threads keep the services they should    *)
(* have (CodexSessions.tla), for any number of prompts, pieces of text,    *)
(* instances, calls of discover(), threads and grace intervals.            *)
(***************************************************************************)
EXTENDS ChannelTurns, WebBridge, CodexSessions, FiniteSetTheorems, WellFoundedInduction, TLAPS

(***************************************************************************)
(* ChannelTurns.  Where there is a turn lock, its holder is the head of the*)
(* line and the only prompt in a turn; the agent works on that turn at     *)
(* most, and while there is one all that it has said and nobody has taken  *)
(* belongs to it.  So whoever takes a piece of news takes its own.         *)
(***************************************************************************)

\* The channels are taken as they are when nothing leaves a turn behind: no caller
\* gives up under way where there is a lock, the events of an OpenCode turn that has
\* ended are handled before the next one begins - its result may come before or
\* after them - and a Codex turn asks for no permission.  README, section 6, says
\* what happens otherwise.
Considered ==
  /\ LateEvents = FALSE
  /\ Leaving \subseteq {"codex"}
  /\ "codex" \notin Asking

Stages == {"new", "waiting", "turn", "answered", "failed", "left"}
LastKinds == {"stop", "error"}
News == Overlapping \X ({"text", "ask"} \cup LastKinds)

TurnsTypeOK ==
  /\ runtime \in Runtimes
  /\ line \in Seq(Overlapping)
  /\ stage \in [Overlapping -> Stages]
  /\ turns \subseteq Overlapping
  /\ news \in Seq(News)
  /\ returned \in [Overlapping -> {"no", "ok", "error"}]
  /\ crashed \in BOOLEAN
  /\ got \in [Overlapping -> SUBSET Overlapping]

\* Whoever waits for the lock or holds it is in the line; who is in a turn holds
\* it, and is the one that is asked; when nobody is, nobody is asked.
HolderIsHead ==
  runtime # "codex" =>
    /\ \A p \in Overlapping :
         /\ stage[p] \in {"waiting", "turn"} => \E i \in 1..Len(line) : line[i] = p
         /\ stage[p] = "turn" => Head(line) = p /\ asks = p
    /\ asks = NoPrompt \/ (asks \in Overlapping /\ stage[asks] = "turn")

\* The agent works on the turn under way; what it has said is of that turn, or
\* nobody is in one; it has said its last word on it when it works on nothing.
\* With ACP nothing is left when a turn has ended, unless the process is gone.
NewsOfTheTurn ==
  runtime # "codex" =>
    /\ \A p \in turns : stage[p] = "turn"
    /\ crashed => turns = {}
    /\ \A n \in 1..Len(news) :
         /\ \A p \in Overlapping : stage[p] = "turn" => news[n][1] = p
         /\ news[n][2] \in LastKinds => turns = {}
         /\ runtime = "acp" /\ ~crashed =>
              /\ stage[news[n][1]] = "turn"
              /\ news[n][2] \in LastKinds => n = Len(news)

\* A result that is still to come is of a turn the agent has ended.
ResultsOfEndedTurns ==
  /\ crashed => runtime # "opencode"
  /\ \A p \in Overlapping : returned[p] # "no" =>
       runtime = "opencode" /\ p \notin turns /\ stage[p] \in {"turn", "answered", "failed"}

\* Codex: nothing is asked.
CodexAsksNothing ==
  runtime = "codex" => \A n \in 1..Len(news) : news[n][2] # "ask"

TurnsInv ==
  /\ TurnsTypeOK
  /\ HolderIsHead
  /\ NewsOfTheTurn
  /\ ResultsOfEndedTurns
  /\ CodexAsksNothing
  /\ EachCallerItsOwnTurn

(***************************************************************************)
(* The line and the news as sequences.                                     *)
(***************************************************************************)

(* Taking the first of a sequence: what is left, and where it was.         *)
LEMMA Taken ==
  ASSUME NEW S, NEW s \in Seq(S), s # <<>>
  PROVE  /\ Len(s) \in Nat \ {0} /\ 1 \in 1..Len(s) /\ s[1] = Head(s) /\ Head(s) \in S
         /\ Tail(s) \in Seq(S) /\ Len(Tail(s)) = Len(s) - 1
         /\ \A i \in 1..Len(Tail(s)) : i + 1 \in 1..Len(s) /\ Tail(s)[i] = s[i + 1]
         /\ \A i \in 1..Len(s) : i # 1 => i - 1 \in 1..Len(Tail(s)) /\ Tail(s)[i - 1] = s[i]
  OBVIOUS

(* Adding one at the end: what was there stays where it was.               *)
LEMMA Added ==
  ASSUME NEW S, NEW s \in Seq(S), NEW e \in S
  PROVE  /\ Append(s, e) \in Seq(S) /\ Len(Append(s, e)) = Len(s) + 1 /\ Len(s) \in Nat
         /\ Append(s, e)[Len(s) + 1] = e
         /\ \A i \in 1..Len(s) : i \in 1..(Len(s) + 1) /\ Append(s, e)[i] = s[i]
         /\ s # <<>> => Head(Append(s, e)) = Head(s)
  OBVIOUS

(* Adding several at the end.                                              *)
LEMMA Joined ==
  ASSUME NEW S, NEW s \in Seq(S), NEW t \in Seq(S)
  PROVE  /\ s \o t \in Seq(S) /\ Len(s \o t) = Len(s) + Len(t)
         /\ Len(s) \in Nat /\ Len(t) \in Nat
         /\ \A i \in 1..Len(s) : (s \o t)[i] = s[i]
         /\ \A i \in 1..Len(s \o t) : i \notin 1..Len(s) =>
              i - Len(s) \in 1..Len(t) /\ (s \o t)[i] = t[i - Len(s)]
  OBVIOUS

(* The lock lets one prompt into a turn.                                   *)
LEMMA OneInTurn ==
  ASSUME TurnsInv, runtime # "codex",
         NEW p \in Overlapping, NEW q \in Overlapping, stage[p] = "turn", HasTurn(q)
  PROVE  p = q
  BY DEF TurnsInv, HolderIsHead, HasTurn

(* What is said is of one prompt, and nobody else takes it.                *)
LEMMA TakersAreIts ==
  ASSUME TurnsInv, news # <<>>
  PROVE  /\ Head(news) \in News /\ Head(news)[1] \in Overlapping
         /\ Takers(Head(news)[1]) \subseteq {Head(news)[1]}
<1>1. /\ Head(news) \in News /\ Head(news)[1] \in Overlapping
      /\ 1 \in 1..Len(news) /\ news[1] = Head(news)
  BY Taken DEF TurnsInv, TurnsTypeOK, News
<1>2. ASSUME NEW p \in Takers(Head(news)[1]) PROVE p = Head(news)[1]
  BY <1>1, <1>2 DEF Takers, TurnsInv, NewsOfTheTurn
<1> QED
  BY <1>1, <1>2

(***************************************************************************)
(* The prompts' steps.                                                     *)
(***************************************************************************)

(* A prompt that arrives goes to the end of the line.                      *)
LEMMA ArrivesKeeps ==
  ASSUME TurnsInv, NEW p \in Overlapping, Arrives(p)
  PROVE  TurnsInv'
<1> USE DEF Arrives, agentSide
<1>1. TurnsTypeOK'
  BY Added DEF TurnsInv, TurnsTypeOK, Stages
<1>2. HolderIsHead'
  <2> SUFFICES ASSUME runtime # "codex", NEW q \in Overlapping
               PROVE  /\ stage'[q] \in {"waiting", "turn"} => \E i \in 1..Len(line') : line'[i] = q
                      /\ stage'[q] = "turn" => Head(line') = q /\ asks' = q
    <3>1. runtime # "codex" => asks' = NoPrompt \/ (asks' \in Overlapping /\ stage'[asks'] = "turn")
      BY DEF TurnsInv, TurnsTypeOK, HolderIsHead
    <3> QED
      BY <3>1 DEF HolderIsHead
  <2>1. line \in Seq(Overlapping) /\ line' = Append(line, p) /\ stage \in [Overlapping -> Stages]
    BY DEF TurnsInv, TurnsTypeOK
  <2>2. CASE q = p
    <3>1. Len(line') = Len(line) + 1 /\ Len(line) \in Nat /\ line'[Len(line) + 1] = p
      BY <2>1, Added
    <3>2. QED
      BY <2>1, <2>2, <3>1
  <2>3. CASE q # p
    <3>1. stage'[q] = stage[q]
      BY <2>1, <2>3
    <3>2. CASE stage[q] \in {"waiting", "turn"}
      <4>1. PICK i \in 1..Len(line) : line[i] = q
        BY <3>2 DEF TurnsInv, HolderIsHead
      <4>2. line'[i] = q /\ i \in 1..Len(line') /\ Head(line') = Head(line)
        BY <2>1, <4>1, Added
      <4>3. QED
        BY <3>1, <4>2 DEF TurnsInv, HolderIsHead
    <3>3. QED
      BY <3>1, <3>2
  <2>4. QED
    BY <2>2, <2>3
<1>3. NewsOfTheTurn'
  BY DEF TurnsInv, TurnsTypeOK, NewsOfTheTurn, News
<1>4. ResultsOfEndedTurns' /\ CodexAsksNothing' /\ EachCallerItsOwnTurn'
  BY DEF TurnsInv, TurnsTypeOK, ResultsOfEndedTurns, CodexAsksNothing, EachCallerItsOwnTurn
<1> QED
  BY <1>1, <1>2, <1>3, <1>4 DEF TurnsInv

(* A turn starts with the lock in hand: nobody else is in one, so the      *)
(* agent works on nothing and nothing it had said is left.                 *)
LEMMA TurnStartsKeeps ==
  ASSUME Considered, TurnsInv, NEW p \in Overlapping, TurnStarts(p)
  PROVE  TurnsInv'
<1> USE DEF TurnStarts
<1>1. TurnsTypeOK'
  BY DEF TurnsInv, TurnsTypeOK, Stages
<1>2. ASSUME runtime # "codex" PROVE \A q \in Overlapping : stage[q] # "turn"
  <2> SUFFICES ASSUME NEW q \in Overlapping, stage[q] = "turn" PROVE FALSE
    OBVIOUS
  <2>1. p = q
    BY <1>2, OneInTurn
  <2> QED
    BY <2>1
<1>3. HolderIsHead'
  BY <1>2 DEF HolderIsHead, HasTurn, TurnsInv, TurnsTypeOK
<1>4. NewsOfTheTurn'
  <2> SUFFICES ASSUME runtime # "codex" PROVE NewsOfTheTurn'
    BY DEF NewsOfTheTurn
  <2>1. turns = {}
    BY <1>2 DEF TurnsInv, NewsOfTheTurn, TurnsTypeOK
  <2>2. 1..Len(news) = {}
    <3>1. CASE runtime = "opencode"
      BY <3>1 DEF Considered
    <3>2. CASE runtime # "opencode"
      <4> SUFFICES ASSUME NEW n \in 1..Len(news) PROVE FALSE
        OBVIOUS
      <4>1. runtime = "acp"
        BY <3>2, RuntimesAssumption DEF TurnsInv, TurnsTypeOK
      <4>2. news[n][1] \in Overlapping /\ stage[news[n][1]] = "turn"
        BY <4>1 DEF TurnsInv, NewsOfTheTurn, TurnsTypeOK, News
      <4> QED
        BY <1>2, <4>2
    <3> QED
      BY <3>1, <3>2
  <2> QED
    BY <2>1, <2>2 DEF NewsOfTheTurn, TurnsInv, TurnsTypeOK
<1>5. ResultsOfEndedTurns'
  BY DEF TurnsInv, TurnsTypeOK, ResultsOfEndedTurns
<1>6. CodexAsksNothing' /\ EachCallerItsOwnTurn'
  BY DEF TurnsInv, CodexAsksNothing, EachCallerItsOwnTurn
<1> QED
  BY <1>1, <1>3, <1>4, <1>5, <1>6 DEF TurnsInv

(* The holder of the lock, in its turn or just come to it, ends: the rest  *)
(* of the line moves up and nobody is in a turn.                           *)
LEMMA EndsKeepsLine ==
  ASSUME TurnsInv, NEW p \in Overlapping, NEW how \in Stages \ {"waiting", "turn"},
         stage[p] \in {"waiting", "turn"}, HasTurn(p), Ends(p, how), runtime' = runtime
  PROVE  /\ line' \in Seq(Overlapping) /\ stage' \in [Overlapping -> Stages]
         /\ HolderIsHead'
         /\ runtime # "codex" => \A q \in Overlapping : stage'[q] # "turn"
<1> USE DEF Ends
<1>1. stage \in [Overlapping -> Stages] /\ line \in Seq(Overlapping)
  BY DEF TurnsInv, TurnsTypeOK
<1>2. stage' \in [Overlapping -> Stages] /\ \A q \in Overlapping \ {p} : stage'[q] = stage[q]
  BY <1>1
<1>3. CASE runtime = "codex"
  BY <1>1, <1>2, <1>3 DEF HolderIsHead
<1>4. CASE runtime # "codex"
  <2>1. line # <<>> /\ Head(line) = p /\ line' = Tail(line)
    BY <1>1, <1>4 DEF TurnsInv, HolderIsHead, HasTurn
  <2>2. line' \in Seq(Overlapping)
    BY <1>1, <2>1, Taken
  <2>3. ASSUME NEW q \in Overlapping PROVE stage'[q] # "turn"
    <3>1. CASE q = p
      BY <1>1, <3>1
    <3>2. CASE q # p
      BY <1>2, <1>4, <3>2, OneInTurn
    <3> QED
      BY <3>1, <3>2
  <2>4. ASSUME NEW q \in Overlapping, stage'[q] = "waiting"
        PROVE  \E i \in 1..Len(line') : line'[i] = q
    <3>1. q # p /\ stage[q] = "waiting"
      BY <1>1, <1>2, <2>4
    <3>2. PICK i \in 1..Len(line) : line[i] = q
      BY <1>4, <3>1 DEF TurnsInv, HolderIsHead
    <3>3. i # 1
      BY <1>1, <2>1, <3>1, <3>2, Taken
    <3>4. i - 1 \in 1..Len(Tail(line)) /\ Tail(line)[i - 1] = line[i]
      BY <1>1, <2>1, <3>3, Taken
    <3> QED
      BY <2>1, <3>2, <3>4
  <2> QED
    BY <1>2, <2>2, <2>3, <2>4 DEF HolderIsHead
<1> QED
  BY <1>3, <1>4

(* The process is gone, so the agent works on nothing.                     *)
LEMMA FailsKeeps ==
  ASSUME TurnsInv, NEW p \in Overlapping, Fails(p)
  PROVE  TurnsInv'
<1> USE DEF Fails, FailsWith, agentSide
<1>1. /\ line' \in Seq(Overlapping) /\ stage' \in [Overlapping -> Stages]
      /\ HolderIsHead'
      /\ runtime # "codex" => \A q \in Overlapping : stage'[q] # "turn"
      /\ stage'[p] = "failed" /\ \A q \in Overlapping \ {p} : stage'[q] = stage[q]
  BY EndsKeepsLine DEF Stages, Ends, TurnsInv, TurnsTypeOK
<1>2. TurnsTypeOK'
  BY <1>1 DEF TurnsInv, TurnsTypeOK
<1>3. NewsOfTheTurn'
  BY <1>1 DEF TurnsInv, NewsOfTheTurn
<1>4. ResultsOfEndedTurns'
  BY <1>1 DEF TurnsInv, ResultsOfEndedTurns
<1>5. CodexAsksNothing' /\ EachCallerItsOwnTurn'
  BY DEF TurnsInv, CodexAsksNothing, EachCallerItsOwnTurn
<1> QED
  BY <1>1, <1>2, <1>3, <1>4, <1>5 DEF TurnsInv

(* A Codex prompt that is refused, takes too long or is given up: there is *)
(* no lock, and what is said of its turn has nobody to take it.            *)
LEMMA CodexEndsKeeps ==
  ASSUME Considered, TurnsInv, NEW p \in Overlapping, Refused(p) \/ TimesOut(p) \/ Leaves(p)
  PROVE  TurnsInv'
<1> USE DEF Refused, TimesOut, Leaves, agentSide
<1>1. runtime = "codex" /\ UNCHANGED <<runtime, news, returned, crashed, got, asked>>
  BY DEF Considered
<1>2. TurnsTypeOK'
  <2>1. stage' \in [Overlapping -> Stages] /\ line' = line
    BY <1>1 DEF Ends, TurnsInv, TurnsTypeOK, Stages
  <2>2. turns' \subseteq Overlapping
    BY DEF TurnsInv, TurnsTypeOK
  <2> QED
    BY <1>1, <2>1, <2>2 DEF TurnsInv, TurnsTypeOK
<1>3. HolderIsHead' /\ NewsOfTheTurn' /\ ResultsOfEndedTurns' /\ CodexAsksNothing'
  BY <1>1 DEF HolderIsHead, NewsOfTheTurn, TurnsInv, ResultsOfEndedTurns, CodexAsksNothing
<1>4. EachCallerItsOwnTurn'
  BY <1>1 DEF TurnsInv, EachCallerItsOwnTurn
<1> QED
  BY <1>2, <1>3, <1>4 DEF TurnsInv

(* OpenCode: prompt() returns when the agent has ended the turn.  The      *)
(* prompt that called it ends, if an event has not ended it before; events *)
(* of the turn that are still under way find nobody.                       *)
LEMMA ResultArrivesKeeps ==
  ASSUME TurnsInv, NEW p \in Overlapping, ResultArrives(p)
  PROVE  TurnsInv'
<1> USE DEF ResultArrives
<1>1. runtime = "opencode" /\ p \notin turns /\ crashed = FALSE
  BY DEF TurnsInv, ResultsOfEndedTurns, TurnsTypeOK
<1>2. /\ returned' \in [Overlapping -> {"no", "ok", "error"}] /\ returned'[p] = "no"
      /\ \A q \in Overlapping \ {p} : returned'[q] = returned[q]
  BY DEF TurnsInv, TurnsTypeOK
<1>3. CASE stage[p] # "turn"
  <2>1. TurnsTypeOK' /\ HolderIsHead'
    BY <1>2, <1>3 DEF TurnsInv, TurnsTypeOK, HolderIsHead
  <2>2. NewsOfTheTurn' /\ CodexAsksNothing' /\ EachCallerItsOwnTurn'
    BY <1>3 DEF TurnsInv, NewsOfTheTurn, CodexAsksNothing, EachCallerItsOwnTurn
  <2>3. ResultsOfEndedTurns'
    BY <1>2, <1>3 DEF TurnsInv, ResultsOfEndedTurns
  <2> QED
    BY <2>1, <2>2, <2>3 DEF TurnsInv
<1>4. CASE stage[p] = "turn"
  <2> DEFINE how == EndOf(IF returned[p] = "ok" THEN "stop" ELSE "error")
  <2>1. HasTurn(p) /\ Ends(p, how) /\ how \in {"answered", "failed"}
    BY <1>1, <1>4 DEF HasTurn, TurnsInv, HolderIsHead, EndOf
  <2> HIDE DEF how
  <2>2. /\ line' \in Seq(Overlapping) /\ stage' \in [Overlapping -> Stages]
        /\ HolderIsHead'
        /\ \A q \in Overlapping : stage'[q] # "turn"
        /\ stage'[p] = how /\ \A q \in Overlapping \ {p} : stage'[q] = stage[q]
    BY <1>1, <1>4, <2>1, EndsKeepsLine DEF Stages, Ends, TurnsInv, TurnsTypeOK
  <2>3. turns = {}
    <3> SUFFICES ASSUME NEW q \in turns PROVE FALSE
      OBVIOUS
    <3>1. q \in Overlapping /\ stage[q] = "turn"
      BY <1>1 DEF TurnsInv, TurnsTypeOK, NewsOfTheTurn
    <3> QED
      BY <1>1, <2>1, <3>1, OneInTurn
  <2>4. TurnsTypeOK'
    <3>1. got' \in [Overlapping -> SUBSET Overlapping]
      BY <1>4 DEF TurnsInv, TurnsTypeOK
    <3> QED
      BY <1>2, <2>2, <3>1 DEF TurnsInv, TurnsTypeOK
  <2>5. NewsOfTheTurn' /\ CodexAsksNothing'
    BY <1>1, <2>2, <2>3 DEF NewsOfTheTurn, CodexAsksNothing
  <2>6. ResultsOfEndedTurns'
    BY <1>1, <1>2, <2>1, <2>2, <2>3 DEF TurnsInv, TurnsTypeOK, ResultsOfEndedTurns
  <2>7. EachCallerItsOwnTurn'
    BY <1>4 DEF TurnsInv, TurnsTypeOK, EachCallerItsOwnTurn
  <2> QED
    BY <2>2, <2>4, <2>5, <2>6, <2>7 DEF TurnsInv
<1> QED
  BY <1>3, <1>4

(***************************************************************************)
(* What the agent says, and who takes it.                                  *)
(***************************************************************************)

(* Reading one piece of news leaves the others as they were.               *)
LEMMA ReadingKeepsNews ==
  ASSUME TurnsInv, news # <<>>, news' = Tail(news), UNCHANGED <<runtime, stage, turns, crashed>>
  PROVE  news' \in Seq(News) /\ NewsOfTheTurn' /\ CodexAsksNothing'
<1>1. /\ news \in Seq(News)
      /\ Len(news) \in Nat \ {0} /\ news' \in Seq(News) /\ Len(news') = Len(news) - 1
      /\ \A n \in 1..Len(news') : n + 1 \in 1..Len(news) /\ news'[n] = news[n + 1]
  BY Taken DEF TurnsInv, TurnsTypeOK
<1>2. NewsOfTheTurn'
  <2> SUFFICES ASSUME runtime # "codex" PROVE NewsOfTheTurn'
    BY DEF NewsOfTheTurn
  <2>1. ASSUME NEW n \in 1..Len(news')
        PROVE  /\ \A p \in Overlapping : stage[p] = "turn" => news'[n][1] = p
               /\ news'[n][2] \in LastKinds => turns = {}
               /\ runtime = "acp" /\ ~crashed =>
                    /\ stage[news'[n][1]] = "turn"
                    /\ news'[n][2] \in LastKinds => n = Len(news')
    <3>1. PICK m \in 1..Len(news) : m = n + 1 /\ news'[n] = news[m]
      BY <1>1
    <3>2. /\ \A p \in Overlapping : stage[p] = "turn" => news[m][1] = p
          /\ news[m][2] \in LastKinds => turns = {}
          /\ runtime = "acp" /\ ~crashed =>
               /\ stage[news[m][1]] = "turn"
               /\ news[m][2] \in LastKinds => m = Len(news)
      BY DEF TurnsInv, NewsOfTheTurn
    <3>3. Len(news) = m => n = Len(news')
      BY <1>1, <3>1
    <3> QED
      BY <3>1, <3>2, <3>3, Zenon
  <2> QED
    BY <2>1 DEF NewsOfTheTurn, TurnsInv
<1>3. CodexAsksNothing'
  BY <1>1 DEF TurnsInv, CodexAsksNothing
<1> QED
  BY <1>1, <1>2, <1>3

(* Text goes to the prompt whose turn it is of.                            *)
LEMMA TextKeeps ==
  ASSUME TurnsInv, Text
  PROVE  TurnsInv'
<1> USE DEF Text, CanTake
<1>1. news' \in Seq(News) /\ NewsOfTheTurn' /\ CodexAsksNothing'
  BY ReadingKeepsNews
<1>2. /\ Head(news)[1] \in Overlapping /\ got \in [Overlapping -> SUBSET Overlapping]
      /\ \A p \in Overlapping : p \in Takers(Head(news)[1]) => p = Head(news)[1]
  BY TakersAreIts DEF TurnsInv, TurnsTypeOK
<1>3. got' \in [Overlapping -> SUBSET Overlapping] /\ EachCallerItsOwnTurn'
  BY <1>2 DEF TurnsInv, EachCallerItsOwnTurn
<1>4. TurnsTypeOK' /\ HolderIsHead' /\ ResultsOfEndedTurns'
  BY <1>1, <1>3 DEF TurnsInv, TurnsTypeOK, HolderIsHead, ResultsOfEndedTurns
<1> QED
  BY <1>1, <1>3, <1>4 DEF TurnsInv

(* A request for permission is asked of the caller whose turn wants it, or *)
(* of nobody.                                                              *)
LEMMA AskedKeeps ==
  ASSUME TurnsInv, Asked
  PROVE  TurnsInv'
<1> USE DEF Asked
<1>1. news' \in Seq(News) /\ NewsOfTheTurn' /\ CodexAsksNothing'
  BY ReadingKeepsNews
<1>2. 1 \in 1..Len(news) /\ news[1] = Head(news)
  BY Taken DEF TurnsInv, TurnsTypeOK
<1>3. runtime # "codex"
  BY <1>2 DEF TurnsInv, CodexAsksNothing
<1>4. asks \in {Head(news)[1], NoPrompt}
  BY <1>2, <1>3 DEF TurnsInv, HolderIsHead, NewsOfTheTurn
<1>5. EachCallerItsOwnTurn'
  BY <1>4 DEF TurnsInv, EachCallerItsOwnTurn
<1>6. TurnsTypeOK' /\ HolderIsHead' /\ ResultsOfEndedTurns'
  BY <1>1 DEF TurnsInv, TurnsTypeOK, HolderIsHead, ResultsOfEndedTurns
<1> QED
  BY <1>1, <1>5, <1>6 DEF TurnsInv

(* The last word on a turn: the agent works on nothing then, and with ACP  *)
(* the prompt that takes it leaves nothing behind.                         *)
LEMMA StoppedKeeps ==
  ASSUME TurnsInv, Stopped
  PROVE  TurnsInv'
<1> USE DEF Stopped, CanTake
<1> DEFINE q == Head(news)[1]
<1>1. q \in Overlapping /\ Takers(q) \subseteq {q}
  BY TakersAreIts
<1>2. /\ news \in Seq(News) /\ 1 \in 1..Len(news) /\ news[1] = Head(news)
      /\ news' \in Seq(News) /\ Len(news') = Len(news) - 1
      /\ \A n \in 1..Len(news') : n + 1 \in 1..Len(news) /\ news'[n] = news[n + 1]
  BY Taken DEF TurnsInv, TurnsTypeOK
<1>3. CASE Takers(q) = {}
  <2>1. NewsOfTheTurn' /\ CodexAsksNothing'
    BY <1>3, ReadingKeepsNews
  <2>2. TurnsTypeOK' /\ HolderIsHead' /\ ResultsOfEndedTurns' /\ EachCallerItsOwnTurn'
    BY <1>2, <1>3 DEF TurnsInv, TurnsTypeOK, HolderIsHead, ResultsOfEndedTurns, EachCallerItsOwnTurn
  <2> QED
    BY <2>1, <2>2 DEF TurnsInv
<1>4. CASE Takers(q) # {}
  <2> DEFINE how == EndOf(Head(news)[2])
  <2>1. (CHOOSE p \in Takers(q) : TRUE) = q /\ stage[q] = "turn"
    BY <1>1, <1>4 DEF Takers
  <2>2. Ends(q, how) /\ got' = [got EXCEPT ![q] = @ \cup {q}] /\ how \in {"answered", "failed"}
    BY <1>4, <2>1 DEF EndOf
  <2>3. HasTurn(q)
    BY <1>1, <2>1 DEF HasTurn, TurnsInv, HolderIsHead
  <2> HIDE DEF how
  <2>4. /\ line' \in Seq(Overlapping) /\ stage' \in [Overlapping -> Stages]
        /\ HolderIsHead'
        /\ runtime # "codex" => \A p \in Overlapping : stage'[p] # "turn"
        /\ stage'[q] = how /\ \A p \in Overlapping \ {q} : stage'[p] = stage[p]
    BY <1>1, <2>1, <2>2, <2>3, EndsKeepsLine DEF Stages, Ends, TurnsInv, TurnsTypeOK
  <2>5. got' \in [Overlapping -> SUBSET Overlapping] /\ EachCallerItsOwnTurn'
    BY <1>1, <2>2 DEF TurnsInv, TurnsTypeOK, EachCallerItsOwnTurn
  <2>6. NewsOfTheTurn'
    <3> SUFFICES ASSUME runtime # "codex" PROVE NewsOfTheTurn'
      BY DEF NewsOfTheTurn
    <3>0. 1 \in 1..Len(news) /\ news[1][2] \in LastKinds
      BY <1>2 DEF LastKinds
    <3>1. turns = {} /\ (runtime = "acp" /\ ~crashed => Len(news) = 1)
      <4> HIDE DEF Stopped, CanTake
      <4> QED
        BY <3>0 DEF TurnsInv, NewsOfTheTurn
    <3>2. runtime = "acp" /\ ~crashed => 1..Len(news') = {}
      BY <1>2, <3>1
    <3> QED
      BY <2>4, <3>1, <3>2 DEF NewsOfTheTurn
  <2>7. CodexAsksNothing'
    BY <1>2 DEF TurnsInv, CodexAsksNothing
  <2>8. TurnsTypeOK' /\ ResultsOfEndedTurns'
    BY <1>2, <2>2, <2>4, <2>5 DEF TurnsInv, TurnsTypeOK, ResultsOfEndedTurns
  <2> QED
    BY <2>4, <2>5, <2>6, <2>7, <2>8 DEF TurnsInv
<1> QED
  BY <1>3, <1>4

(* The agent speaks of the turn it works on, once or several times; with a *)
(* lock it has not yet said its last word on it, for then it would work on *)
(* nothing.                                                                *)
LEMMA SayingKeeps ==
  ASSUME TurnsInv, NEW p \in Overlapping, p \in turns, NEW more \in Seq(News),
         news' = news \o more, UNCHANGED <<runtime, stage, crashed>>,
         \A n \in 1..Len(more) : more[n][1] = p,
         runtime = "codex" => \A n \in 1..Len(more) : more[n][2] # "ask",
         \/ turns' = turns /\ \A n \in 1..Len(more) : more[n][2] \notin LastKinds
         \/ turns' = turns \ {p} /\ (runtime = "acp" => Len(more) = 1)
  PROVE  news' \in Seq(News) /\ NewsOfTheTurn' /\ CodexAsksNothing'
<1>1. /\ news \in Seq(News) /\ turns \subseteq Overlapping
  BY DEF TurnsInv, TurnsTypeOK
<1>2. /\ news' \in Seq(News) /\ Len(news') = Len(news) + Len(more)
      /\ Len(news) \in Nat /\ Len(more) \in Nat
      /\ \A n \in 1..Len(news) : news'[n] = news[n]
      /\ \A n \in 1..Len(news') : n \notin 1..Len(news) =>
           n - Len(news) \in 1..Len(more) /\ news'[n] = more[n - Len(news)]
  BY <1>1, Joined
<1>3. NewsOfTheTurn'
  <2> SUFFICES ASSUME runtime # "codex" PROVE NewsOfTheTurn'
    BY DEF NewsOfTheTurn
  <2>1. stage[p] = "turn" /\ ~crashed
    BY DEF TurnsInv, NewsOfTheTurn, TurnsTypeOK
  <2>2. \A q \in Overlapping : stage[q] = "turn" => q = p
    <3>1. HasTurn(p)
      BY <2>1 DEF HasTurn, TurnsInv, HolderIsHead
    <3> QED
      BY <3>1, OneInTurn
  <2>3. turns = {p} /\ \A n \in 1..Len(news) : news[n][1] = p /\ news[n][2] \notin LastKinds
    BY <1>1, <2>1, <2>2 DEF TurnsInv, NewsOfTheTurn
  <2>4. ASSUME NEW n \in 1..Len(news')
        PROVE  /\ news'[n][1] = p
               /\ news'[n][2] \in LastKinds =>
                    turns' = {} /\ (runtime = "acp" => n = Len(news'))
    <3>1. CASE n \in 1..Len(news)
      <4>1. news'[n] = news[n] /\ news[n][1] = p /\ news[n][2] \notin LastKinds
        BY <1>2, <2>3, <3>1
      <4> QED
        BY <4>1, Zenon
    <3>2. CASE n \notin 1..Len(news)
      <4>1. PICK m \in 1..Len(more) : m = n - Len(news) /\ news'[n] = more[m]
        BY <1>2, <3>2
      <4>2. Len(more) = 1 => n = Len(news')
        BY <1>2, <4>1
      <4>3. /\ more[m][1] = p
            /\ more[m][2] \in LastKinds => turns' = {} /\ (runtime = "acp" => Len(more) = 1)
        BY <2>3
      <4> QED
        BY <4>1, <4>2, <4>3, Zenon
    <3> QED
      BY <3>1, <3>2
  <2> QED
    BY <2>1, <2>2, <2>3, <2>4 DEF NewsOfTheTurn
<1>4. CodexAsksNothing'
  <2> SUFFICES ASSUME runtime = "codex", NEW n \in 1..Len(news') PROVE news'[n][2] # "ask"
    BY DEF CodexAsksNothing
  <2>1. CASE n \in 1..Len(news)
    BY <1>2, <2>1 DEF TurnsInv, CodexAsksNothing
  <2>2. CASE n \notin 1..Len(news)
    BY <1>2, <2>2
  <2> QED
    BY <2>1, <2>2
<1> QED
  BY <1>2, <1>3, <1>4

(* What an agent says last, as news.                                       *)
LEMMA LastWordsAreNews ==
  ASSUME NEW p \in Overlapping, NEW words \in LastWords, TurnsInv
  PROVE  LET more == [n \in DOMAIN words[1] |-> <<p, words[1][n]>>] IN
         /\ more \in Seq(News)
         /\ \A n \in 1..Len(more) : more[n][1] = p /\ more[n][2] # "ask"
         /\ runtime = "acp" => Len(more) = 1
         /\ words[2] \in {"no", "ok", "error"}
         /\ words[2] # "no" => runtime = "opencode"
<1> DEFINE more == [n \in DOMAIN words[1] |-> <<p, words[1][n]>>]
<1>1. runtime \in {"acp", "opencode", "codex"}
  BY RuntimesAssumption DEF TurnsInv, TurnsTypeOK
<1>2. /\ words[1] \in Seq(LastKinds)
      /\ runtime = "acp" => Len(words[1]) = 1
      /\ words[2] \in {"no", "ok", "error"}
      /\ words[2] # "no" => runtime = "opencode"
  <2>0. /\ <<>> \in Seq(LastKinds) /\ <<"stop">> \in Seq(LastKinds)
        /\ <<"error">> \in Seq(LastKinds) /\ <<"error", "stop">> \in Seq(LastKinds)
    <3>1. "stop" \in LastKinds /\ "error" \in LastKinds
      BY DEF LastKinds
    <3>2. <<>> \in Seq(LastKinds)
      OBVIOUS
    <3>3. <<"stop">> \in Seq(LastKinds)
      BY <3>1
    <3>4. <<"error">> \in Seq(LastKinds)
      BY <3>1
    <3>5. <<"error", "stop">> \in Seq(LastKinds)
      BY <3>1
    <3> QED
      BY <3>2, <3>3, <3>4, <3>5
  <2>1. CASE runtime = "acp"
    BY <2>1 DEF LastWords, LastKinds
  <2>2. CASE runtime = "codex"
    <3>1. words[1] \in {<<"stop">>, <<"error">>, <<"error", "stop">>} /\ words[2] = "no"
      BY <2>2 DEF LastWords
    <3> QED
      BY <2>0, <2>2, <3>1
  <2>3. CASE runtime = "opencode"
    <3>1. words \in {<<>>, <<"stop">>, <<"error">>, <<"error", "stop">>} \X {"ok", "error"}
      BY <2>3 DEF LastWords
    <3>2. /\ words[1] \in {<<>>, <<"stop">>, <<"error">>, <<"error", "stop">>}
          /\ words[2] \in {"ok", "error"}
      BY <3>1
    <3> QED
      BY <2>0, <2>3, <3>2
  <2> QED
    BY <1>1, <2>1, <2>2, <2>3
<1>3. /\ DOMAIN words[1] = 1..Len(words[1]) /\ Len(words[1]) \in Nat
      /\ \A n \in 1..Len(words[1]) : words[1][n] \in LastKinds
  BY <1>2
<1>4. more \in [1..Len(words[1]) -> News]
  BY <1>3 DEF News
<1>5. more \in Seq(News) /\ Len(more) = Len(words[1])
  BY <1>3, <1>4
<1>6. \A n \in 1..Len(more) : more[n][1] = p /\ more[n][2] # "ask"
  BY <1>3, <1>5 DEF LastKinds
<1> QED
  BY <1>2, <1>5, <1>6

(* The agent's pieces of text, its questions and the end of its turns.     *)
LEMMA AgentKeeps ==
  ASSUME Considered, TurnsInv, NEW p \in Overlapping,
         AgentTexts(p) \/ AgentAsks(p) \/ AgentEnds(p)
  PROVE  TurnsInv'
<1>1. HolderIsHead' /\ EachCallerItsOwnTurn'
  BY DEF AgentTexts, AgentAsks, AgentEnds, Says, TurnsInv, HolderIsHead, EachCallerItsOwnTurn
<1>2. CASE AgentTexts(p) \/ AgentAsks(p)
  <2>1. PICK kind \in {"text", "ask"} : Says(p, kind) /\ (kind = "ask" => runtime # "codex")
    BY <1>2 DEF AgentTexts, AgentAsks, Considered
  <2>2. UNCHANGED <<runtime, line, stage, crashed, got, turns, returned>> /\ p \in turns
    BY <1>2 DEF AgentTexts, AgentAsks, Says
  <2> DEFINE more == <<<<p, kind>>>>
  <2>3. /\ more \in Seq(News) /\ Len(more) = 1 /\ more[1] = <<p, kind>>
        /\ kind \notin LastKinds
    BY DEF News, LastKinds
  <2>4. news' = news \o more
    BY <2>1, <2>3 DEF Says, TurnsInv, TurnsTypeOK
  <2>5. /\ \A n \in 1..Len(more) : more[n][1] = p /\ more[n][2] \notin LastKinds
        /\ runtime = "codex" => \A n \in 1..Len(more) : more[n][2] # "ask"
    BY <2>1, <2>3
  <2> HIDE DEF more
  <2>6. news' \in Seq(News) /\ NewsOfTheTurn' /\ CodexAsksNothing'
    BY <2>2, <2>3, <2>4, <2>5, SayingKeeps
  <2>7. TurnsTypeOK' /\ ResultsOfEndedTurns'
    BY <2>2, <2>6 DEF TurnsInv, TurnsTypeOK, ResultsOfEndedTurns
  <2> QED
    BY <1>1, <2>6, <2>7 DEF TurnsInv
<1>3. CASE AgentEnds(p)
  <2>1. PICK words \in LastWords :
          /\ news' = news \o [n \in DOMAIN words[1] |-> <<p, words[1][n]>>]
          /\ returned' = [returned EXCEPT ![p] = words[2]]
    BY <1>3 DEF AgentEnds
  <2>2. /\ p \in turns /\ turns' = turns \ {p}
        /\ UNCHANGED <<runtime, line, stage, crashed, got>>
    BY <1>3 DEF AgentEnds
  <2> DEFINE more == [n \in DOMAIN words[1] |-> <<p, words[1][n]>>]
  <2>3. /\ more \in Seq(News)
        /\ \A n \in 1..Len(more) : more[n][1] = p /\ more[n][2] # "ask"
        /\ runtime = "acp" => Len(more) = 1
        /\ words[2] \in {"no", "ok", "error"}
        /\ words[2] # "no" => runtime = "opencode"
    BY LastWordsAreNews
  <2>4. news' = news \o more
    BY <2>1
  <2> HIDE DEF more
  <2>5. news' \in Seq(News) /\ NewsOfTheTurn' /\ CodexAsksNothing'
    BY <2>2, <2>3, <2>4, SayingKeeps
  <2>6. TurnsTypeOK'
    BY <2>1, <2>2, <2>3, <2>5 DEF TurnsInv, TurnsTypeOK
  <2>7. ResultsOfEndedTurns'
    BY <2>1, <2>2, <2>3 DEF TurnsInv, TurnsTypeOK, ResultsOfEndedTurns, NewsOfTheTurn
  <2> QED
    BY <1>1, <2>5, <2>6, <2>7 DEF TurnsInv
<1> QED
  BY <1>2, <1>3

(***************************************************************************)
(* The invariant and what follows from it.                                 *)
(***************************************************************************)

(* Every step keeps the invariant.                                         *)
LEMMA NextKeepsTurns == Considered /\ TurnsInv /\ [TurnsNext]_turnVars => TurnsInv'
<1> SUFFICES ASSUME Considered, TurnsInv, [TurnsNext]_turnVars PROVE TurnsInv'
  OBVIOUS
<1>1. CASE Crash
  <2>1. TurnsTypeOK' /\ HolderIsHead'
    BY <1>1 DEF Crash, TurnsInv, TurnsTypeOK, HolderIsHead
  <2>2. NewsOfTheTurn' /\ ResultsOfEndedTurns' /\ CodexAsksNothing' /\ EachCallerItsOwnTurn'
    BY <1>1 DEF Crash, TurnsInv, NewsOfTheTurn, ResultsOfEndedTurns, CodexAsksNothing,
                EachCallerItsOwnTurn
  <2> QED
    BY <2>1, <2>2 DEF TurnsInv
<1>2. CASE UNCHANGED turnVars
  BY <1>2 DEF turnVars, TurnsInv, TurnsTypeOK, HolderIsHead, NewsOfTheTurn, ResultsOfEndedTurns,
              CodexAsksNothing, EachCallerItsOwnTurn
<1>3. ASSUME NEW p \in Overlapping,
             \/ Arrives(p) \/ TurnStarts(p) \/ ResultArrives(p)
             \/ Fails(p) \/ Refused(p) \/ TimesOut(p) \/ Leaves(p)
      PROVE  TurnsInv'
  BY <1>3, ArrivesKeeps, TurnStartsKeeps, ResultArrivesKeeps, FailsKeeps, CodexEndsKeeps
<1> QED
  BY <1>1, <1>2, <1>3, TextKeeps, StoppedKeeps, AskedKeeps, AgentKeeps DEF TurnsNext

(* The agent works on the head of the line at most.                        *)
LEMMA InvMeansApart == TurnsInv => TurnsAreApart
<1> SUFFICES ASSUME TurnsInv, runtime # "codex" PROVE Cardinality(turns) <= 1
  BY DEF TurnsAreApart, OneTurnInFlight, TurnsInv
<1>1. turns \subseteq {Head(line)}
  BY DEF TurnsInv, TurnsTypeOK, NewsOfTheTurn, HolderIsHead
<1>2. IsFiniteSet({Head(line)}) /\ Cardinality({Head(line)}) = 1
  BY FS_Singleton
<1>3. Cardinality(turns) <= Cardinality({Head(line)})
  BY <1>1, <1>2, FS_Subset
<1> QED
  BY <1>2, <1>3

(* Turns start out apart.                                                  *)
LEMMA InitTurnsInv == TurnsInit => TurnsInv
<1> SUFFICES ASSUME TurnsInit PROVE TurnsInv
  OBVIOUS
<1>1. TurnsTypeOK
  <2>1. stage \in [Overlapping -> Stages] /\ got \in [Overlapping -> SUBSET Overlapping]
    BY DEF TurnsInit, Stages
  <2>2. line \in Seq(Overlapping) /\ news \in Seq(News)
    BY DEF TurnsInit
  <2> QED
    BY <2>1, <2>2 DEF TurnsInit, TurnsTypeOK
<1>2. HolderIsHead /\ NewsOfTheTurn /\ ResultsOfEndedTurns
  BY DEF TurnsInit, HolderIsHead, NewsOfTheTurn, ResultsOfEndedTurns
<1>3. CodexAsksNothing /\ EachCallerItsOwnTurn
  BY DEF TurnsInit, CodexAsksNothing, EachCallerItsOwnTurn
<1> QED
  BY <1>1, <1>2, <1>3 DEF TurnsInv

(* However many prompts overlap, the agent is never given two turns of one *)
(* session, and no caller is handed another one's text, end or question    *)
(* (acp: #acquireTurn; opencode: acquireSessionPromptLock; codex: turn()). *)
THEOREM TurnsStayApart == Considered => (TurnsSpec => []TurnsAreApart)
<1> SUFFICES ASSUME Considered PROVE TurnsSpec => []TurnsAreApart
  OBVIOUS
<1>1. TurnsInv /\ [TurnsNext]_turnVars => TurnsInv'
  BY NextKeepsTurns
<1>2. QED
  BY <1>1, InitTurnsInv, InvMeansApart, PTL DEF TurnsSpec

(***************************************************************************)
(* WebBridge.  The property needs only one thing beside itself to be       *)
(* inductive: that the maps hold instances and prompts of the bridge at all.*)
(***************************************************************************)

\* The maps of the bridge: what they are keyed by and what they hold.
BridgeTypeOK ==
  /\ online \subseteq Instances /\ known \subseteq Instances /\ subs \subseteq Instances
  /\ view \subseteq Instances
  /\ beats \in [Instances -> {"none", "fresh", "old"}]
  /\ lookups \in [Instances -> {"none", "asked", "found", "missing"}]
  /\ discovers \in [Discovers -> [at : {"none", "asked", "answered"}, agents : SUBSET Instances]]
  /\ spawns \in [SessionsOf -> {"none", "asked", "lookup", "stopping"}]
  /\ closed \in BOOLEAN
  /\ prompts \in [Prompts -> {"new", "streaming", "done"}]
  /\ queries \subseteq Prompts /\ replying \subseteq Prompts

(***************************************************************************)
(* Type correctness.                                                       *)
(***************************************************************************)

(* The handlers about agents keep the maps over the instances.             *)
LEMMA AgentStepsKeepTypes ==
  ASSUME BridgeTypeOK, NEW i \in Instances,
         Heartbeat(i) \/ LookupAnswered(i) \/ LookupHandled(i)
           \/ FallSilent(i) \/ Evict(i) \/ Come(i) \/ Leave(i)
  PROVE  BridgeTypeOK'
<1> USE DEF BridgeTypeOK, agentVars, chatVars
<1>1. CASE Heartbeat(i)
  BY <1>1 DEF Heartbeat, Ensure
<1>2. CASE LookupAnswered(i)
  BY <1>2 DEF LookupAnswered
<1>3. CASE LookupHandled(i)
  BY <1>3 DEF LookupHandled, SpawnsAfterLookup, Tell
<1>4. CASE FallSilent(i)
  BY <1>4 DEF FallSilent
<1>5. CASE Evict(i)
  BY <1>5 DEF Evict, Forget, Tell
<1>6. CASE Come(i) \/ Leave(i)
  BY <1>6 DEF Come, Leave
<1> QED
  BY <1>1, <1>2, <1>3, <1>4, <1>5, <1>6

(* So do the controller's calls.                                           *)
LEMMA SpawnStepsKeepTypes ==
  ASSUME BridgeTypeOK, NEW i \in SessionsOf,
         AskSpawn(i) \/ SpawnReplied(i) \/ AskStop(i) \/ StopReplied(i) \/ ControlFails(i)
  PROVE  BridgeTypeOK'
<1> i \in Instances
  BY SessionsAssumption
<1> USE DEF BridgeTypeOK, agentVars, chatVars, Control
<1>1. CASE AskSpawn(i) \/ AskStop(i) \/ ControlFails(i)
  BY <1>1 DEF AskSpawn, AskStop, ControlFails
<1>2. CASE SpawnReplied(i)
  BY <1>2 DEF SpawnReplied, Ensure
<1>3. CASE StopReplied(i)
  BY <1>3 DEF StopReplied, Forget, Tell
<1> QED
  BY <1>1, <1>2, <1>3

(* Every step keeps the maps well-formed.                                  *)
LEMMA NextKeepsTypes == BridgeTypeOK /\ [BridgeNext]_bridgeVars => BridgeTypeOK'
<1> SUFFICES ASSUME BridgeTypeOK, [BridgeNext]_bridgeVars PROVE BridgeTypeOK'
  OBVIOUS
<1>1. ASSUME NEW d \in Discovers, Discover(d) \/ DiscoverAnswered(d) \/ DiscoverHandled(d)
      PROVE  BridgeTypeOK'
  BY <1>1 DEF BridgeTypeOK, Discover, DiscoverAnswered, DiscoverHandled, Tell, agentVars, chatVars
<1>2. ASSUME NEW p \in Prompts, NEW i \in Instances, Prompt(p, i) PROVE BridgeTypeOK'
  BY <1>2 DEF BridgeTypeOK, Prompt, Chat, agentVars
<1>3. ASSUME NEW p \in Prompts, Query(p) \/ QueryReply(p) \/ Replied(p) \/ StreamEnds(p)
      PROVE  BridgeTypeOK'
  BY <1>3 DEF BridgeTypeOK, Query, QueryReply, Replied, StreamEnds, Chat, agentVars
<1>4. CASE Close
  BY <1>4 DEF BridgeTypeOK, Close
<1>5. CASE UNCHANGED bridgeVars
  BY <1>5 DEF BridgeTypeOK, bridgeVars
<1> QED
  BY <1>1, <1>2, <1>3, <1>4, <1>5, AgentStepsKeepTypes, SpawnStepsKeepTypes DEF BridgeNext

(* The maps of the bridge hold its own instances and prompts.              *)
THEOREM BridgeTyped == BridgeSpec => []BridgeTypeOK
<1>1. BridgeInit => BridgeTypeOK
  <2> SUFFICES ASSUME BridgeInit PROVE BridgeTypeOK
    OBVIOUS
  <2>1. discovers \in [Discovers -> [at : {"none", "asked", "answered"}, agents : SUBSET Instances]]
    <3>1. [at |-> "none", agents |-> {}]
            \in [at : {"none", "asked", "answered"}, agents : SUBSET Instances]
      OBVIOUS
    <3>2. QED
      BY <3>1, Zenon DEF BridgeInit
  <2>2. QED
    BY <2>1 DEF BridgeInit, BridgeTypeOK
<1>2. QED
  BY <1>1, NextKeepsTypes, PTL DEF BridgeSpec

(***************************************************************************)
(* The browser's view.                                                     *)
(***************************************************************************)

(* An agent that is registered, evicted or forgotten is so in all three:   *)
(* in the map, in the subscriptions and on the screen.                     *)
LEMMA AgentStepsKeepView ==
  ASSUME BrowserSeesWhatIsThere, NEW i \in Instances,
         Heartbeat(i) \/ LookupAnswered(i) \/ LookupHandled(i)
           \/ FallSilent(i) \/ Evict(i) \/ Come(i) \/ Leave(i)
  PROVE  BrowserSeesWhatIsThere'
<1> USE DEF BrowserSeesWhatIsThere, agentVars, chatVars
<1>1. CASE LookupHandled(i)
  BY <1>1 DEF LookupHandled, Tell
<1>2. CASE Evict(i)
  BY <1>2 DEF Evict, Forget, Tell
<1>3. CASE Heartbeat(i) \/ LookupAnswered(i) \/ FallSilent(i) \/ Come(i) \/ Leave(i)
  BY <1>3 DEF Heartbeat, LookupAnswered, FallSilent, Come, Leave
<1> QED
  BY <1>1, <1>2, <1>3

(* A session that is stopped is forgotten in all three as well.            *)
LEMMA SpawnStepsKeepView ==
  ASSUME BrowserSeesWhatIsThere, NEW i \in SessionsOf,
         AskSpawn(i) \/ SpawnReplied(i) \/ AskStop(i) \/ StopReplied(i) \/ ControlFails(i)
  PROVE  BrowserSeesWhatIsThere'
<1> USE DEF BrowserSeesWhatIsThere, agentVars, chatVars
<1>1. CASE StopReplied(i)
  BY <1>1 DEF StopReplied, Forget, Tell
<1>2. CASE AskSpawn(i) \/ SpawnReplied(i) \/ AskStop(i) \/ ControlFails(i)
  BY <1>2 DEF AskSpawn, SpawnReplied, AskStop, ControlFails
<1> QED
  BY <1>1, <1>2

(* A query is kept only while its prompt streams: the only step that ends  *)
(* a prompt drops it, and an answer that failed drops nothing else.        *)
LEMMA ChatStepsKeepView ==
  ASSUME BridgeTypeOK, BrowserSeesWhatIsThere, NEW p \in Prompts,
         \/ \E i \in Instances : Prompt(p, i)
         \/ Query(p) \/ QueryReply(p) \/ Replied(p) \/ StreamEnds(p)
  PROVE  BrowserSeesWhatIsThere'
<1> USE DEF BrowserSeesWhatIsThere, BridgeTypeOK, agentVars, Chat
<1>1. ASSUME NEW i \in Instances, Prompt(p, i) PROVE BrowserSeesWhatIsThere'
  BY <1>1 DEF Prompt
<1>2. CASE Query(p) \/ QueryReply(p)
  BY <1>2 DEF Query, QueryReply
<1>3. CASE Replied(p)
  BY <1>3 DEF Replied
<1>4. CASE StreamEnds(p)
  BY <1>4 DEF StreamEnds
<1> QED
  BY <1>1, <1>2, <1>3, <1>4

(* Every step keeps map, subscriptions, screen and queries together.       *)
LEMMA NextKeepsView ==
  BridgeTypeOK /\ BrowserSeesWhatIsThere /\ [BridgeNext]_bridgeVars => BrowserSeesWhatIsThere'
<1> SUFFICES ASSUME BridgeTypeOK, BrowserSeesWhatIsThere, [BridgeNext]_bridgeVars
             PROVE  BrowserSeesWhatIsThere'
  OBVIOUS
<1>1. ASSUME NEW d \in Discovers, Discover(d) \/ DiscoverAnswered(d) \/ DiscoverHandled(d)
      PROVE  BrowserSeesWhatIsThere'
  BY <1>1 DEF BrowserSeesWhatIsThere, Discover, DiscoverAnswered, DiscoverHandled, Tell,
              agentVars, chatVars
<1>2. CASE Close
  BY <1>2 DEF BrowserSeesWhatIsThere, Close
<1>3. CASE UNCHANGED bridgeVars
  BY <1>3 DEF BrowserSeesWhatIsThere, bridgeVars
<1> QED
  BY <1>1, <1>2, <1>3, AgentStepsKeepView, SpawnStepsKeepView, ChatStepsKeepView DEF BridgeNext

(* While the bridge is open: whatever lookups, discover() answers and      *)
(* controller replies come in which order, the browser is shown exactly    *)
(* the agents the bridge can prompt, each with its heartbeat subscription, *)
(* and can answer only queries of prompts that still run.                  *)
THEOREM ViewIsKnown == BridgeSpec => []BrowserSeesWhatIsThere
<1>1. BridgeInit => BrowserSeesWhatIsThere
  BY DEF BridgeInit, BrowserSeesWhatIsThere
<1>2. QED
  BY <1>1, BridgeTyped, NextKeepsView, PTL DEF BridgeSpec

-----------------------------------------------------------------------------

(***************************************************************************)
(* The Codex session manager: a thread never has two services, and stop()  *)
(* finds every one.  The services that are registered are those #running   *)
(* holds, at every await of a reconcile(); a call that stops services has  *)
(* captured them all, and one that starts one found none for its thread.   *)
(***************************************************************************)
Running == [service : Rows \X Nat, misses : Nat]
Maps    == {map \in [Rows -> Running \cup {NoService}] :
              \A r \in Rows : map[r] # NoService => map[r].service[1] = r}
Task    == [at : {"idle", "inventory", "start", "stop"}, todo : SUBSET Rows, wanted : SUBSET Rows,
            captured : Maps]

CodexTyped ==
    /\ eligible \in SUBSET Rows
    /\ manager \in {"fresh", "starting", "up", "stopping", "halting", "stopped", "failed"}
    /\ served \in Maps
    /\ baseline \in SUBSET Rows /\ exposed \in SUBSET Rows
    /\ alive \in SUBSET (Rows \X Nat) /\ made \in [Rows -> Nat]
    /\ task \in [Calls -> Task]
    /\ again \in BOOLEAN
    /\ lost \in Nat /\ failed \in Nat
    /\ seed \in SUBSET Rows

\* #running accounts for these services.
Holds(map, services) ==
    \A service \in services : map[service[1]] # NoService /\ map[service[1]].service = service

Managing == manager \in {"fresh", "starting", "up"}
Managed  == IF Managing THEN alive ELSE {}

\* What a call holds at its await.
CallSound(u, map, services) ==
    /\ u.at = "start" => u.todo # {} /\ map[Min(u.todo)] = NoService
    /\ u.at = "stop" => u.todo \subseteq Listed(u.captured) /\ Holds(u.captured, services)

OneCall ==
    /\ \A c, d \in Calls : task[c].at # "idle" /\ task[d].at # "idle" => c = d
    /\ manager = "fresh" => \A c \in Calls : task[c].at = "idle"
    /\ task["first"].at # "idle" => manager = "starting"
    /\ manager = "starting" => task["first"].at # "idle"

ServicesSound ==
    /\ Holds(served, Managed)
    /\ \A c \in Calls : CallSound(task[c], served, Managed)

\* Threads that were there first are private: never exposed, nor about to be.
Private ==
    ~ExposeCurrent =>
      /\ \A r \in seed : r \in baseline /\ r \notin exposed /\ made[r] = 0
      /\ \A c \in Calls : task[c].at = "start" => c # "first" /\ Min(task[c].todo) \notin seed
      /\ manager = "fresh" \/ task["first"].at = "inventory" =>
           \A r \in Rows : served[r] = NoService /\ r \notin exposed /\ made[r] = 0

CodexInv == CodexTyped /\ OneCall /\ ServicesSound /\ Private

LEMMA LeastRow ==
  ASSUME NEW T \in SUBSET Rows, T # {}
  PROVE  Min(T) \in T /\ \A y \in T : Min(T) <= y
<1>1. T \subseteq Nat
  BY CodexAssumption
<1>2. PICK x \in T : \A y \in T : ~(<<y, x>> \in OpToRel(<, Nat))
  BY <1>1, WFMin, NatLessThanWellFounded, Zenon
<1>3. \A y \in T : ~(y < x)
  BY <1>1, <1>2, Zenon DEF OpToRel
<1>4. \A y \in T : x <= y
  BY <1>1, <1>3
<1> QED BY <1>4 DEF Min

LEMMA LeastLeft ==
  ASSUME NEW todo \in SUBSET Rows, NEW T \in SUBSET todo, T # {}
  PROVE  /\ Min(T) \in T
         /\ Min(T) \in From(todo, Min(T)) /\ Min(From(todo, Min(T))) = Min(T)
<1>1. Min(T) \in T
  BY LeastRow
<1>2. Min(T) \in Nat /\ From(todo, Min(T)) \in SUBSET Rows /\ Min(T) \in From(todo, Min(T))
  <2>1. PICK m : m = Min(T)
    OBVIOUS
  <2>2. m \in todo /\ m \in Nat
    BY <1>1, <2>1, CodexAssumption
  <2>3. m \in From(todo, m)
    BY <2>2 DEF From
  <2>4. From(todo, m) \in SUBSET Rows
    BY DEF From
  <2> QED BY <2>1, <2>2, <2>3, <2>4
<1>3. Min(From(todo, Min(T))) \in From(todo, Min(T)) /\ Min(From(todo, Min(T))) <= Min(T)
  BY <1>2, LeastRow
<1>4. Min(From(todo, Min(T))) \in Nat
  BY <1>2, <1>3, CodexAssumption
<1> QED BY <1>1, <1>2, <1>3, <1>4 DEF From

LEMMA SeenKeeps ==
  ASSUME NEW map \in Maps, NEW rows
  PROVE  /\ Seen(map, rows) \in Maps
         /\ \A r \in Rows : Seen(map, rows)[r] = NoService <=> map[r] = NoService
         /\ \A A \in SUBSET (Rows \X Nat) : Holds(map, A) => Holds(Seen(map, rows), A)
<1>1. \A r \in Rows : map[r] # NoService =>
        /\ [map[r] EXCEPT !.misses = 0] \in Running
        /\ [map[r] EXCEPT !.misses = 0].service = map[r].service
  BY DEF Maps, Running
<1>2. \A x \in Running : x # NoService
  BY CodexAssumption DEF Running
<1>3. Seen(map, rows) \in Maps
  BY <1>1 DEF Maps, Seen
<1>4. \A r \in Rows : Seen(map, rows)[r] = NoService <=> map[r] = NoService
  BY <1>1, <1>2 DEF Seen
<1>5. ASSUME NEW A \in SUBSET (Rows \X Nat), Holds(map, A), NEW service \in A
      PROVE  Seen(map, rows)[service[1]] # NoService /\ Seen(map, rows)[service[1]].service = service
  BY <1>1, <1>2, <1>5 DEF Seen, Holds
<1> QED BY <1>3, <1>4, <1>5 DEF Holds

LEMMA MissedKeeps ==
  ASSUME NEW map \in Maps, NEW t \in Task, NEW rows,
         rows \cap Rows \subseteq Listed(t.captured)
  PROVE  /\ Missed(map, t, rows) \in Maps
         /\ \A A \in SUBSET (Rows \X Nat) :
              Holds(map, A) /\ Holds(t.captured, A) => Holds(Missed(map, t, rows), A)
<1>1. \A r \in Rows : t.captured[r] # NoService =>
        /\ [t.captured[r] EXCEPT !.misses = @ + 1] \in Running
        /\ [t.captured[r] EXCEPT !.misses = @ + 1].service = t.captured[r].service
  BY DEF Task, Maps, Running
<1>2. \A x \in Running : x # NoService
  BY CodexAssumption DEF Running
<1>3. Missed(map, t, rows) \in Maps
  <2>1. t.captured \in Maps
    BY DEF Task
  <2>2. \A r \in Rows : Missed(map, t, rows)[r] \in Running \cup {NoService}
          /\ (Missed(map, t, rows)[r] # NoService => Missed(map, t, rows)[r].service[1] = r)
    BY <1>1, <2>1 DEF Maps, Missed, Unwanted, Listed
  <2> QED BY <2>2 DEF Maps, Missed
<1>4. ASSUME NEW A \in SUBSET (Rows \X Nat), Holds(map, A), Holds(t.captured, A), NEW service \in A
      PROVE  Missed(map, t, rows)[service[1]] # NoService
             /\ Missed(map, t, rows)[service[1]].service = service
  BY <1>1, <1>2, <1>4 DEF Missed, Unwanted, Listed, Holds
<1> QED BY <1>3, <1>4 DEF Holds

\* Where call c is after its loop went on: at its end, or at the next await.
Lands(c, A) ==
    /\ served' \in Maps /\ Holds(served', A)
    /\ again' \in BOOLEAN
    /\ task'[c] \in Task /\ task' = [task EXCEPT ![c] = task'[c]]
    /\ CallSound(task'[c], served', A)
    /\ manager' = IF c = "first" /\ task'[c].at = "idle" THEN "up" ELSE manager
    /\ c = "first" => task'[c].at # "inventory"

LEMMA IdleSound ==
  /\ Idle \in Task /\ [Idle EXCEPT !.at = "inventory"] \in Task
  /\ \A map, A : CallSound(Idle, map, A) /\ CallSound([Idle EXCEPT !.at = "inventory"], map, A)
<1>1. Idle \in Task /\ [Idle EXCEPT !.at = "inventory"] \in Task
  BY DEF Idle, Task, Maps
<1> QED BY <1>1 DEF Idle, CallSound

LEMMA EndedLands ==
  ASSUME CodexTyped, NEW c \in Calls, NEW A, Ended(c), served' \in Maps, Holds(served', A)
  PROVE  Lands(c, A) /\ task'[c].at \in {"idle", "inventory"}
<1>1. PICK u \in {Idle, [Idle EXCEPT !.at = "inventory"]} :
        /\ task' = [task EXCEPT ![c] = u]
        /\ c = "first" => u = Idle
  BY DEF Ended
<1>2. task'[c] = u
  BY <1>1 DEF CodexTyped
<1>3. again' \in BOOLEAN /\ manager' = IF c = "first" THEN "up" ELSE manager
  BY DEF Ended, CodexTyped
<1>4. u.at \in {"idle", "inventory"} /\ Idle.at = "idle"
  BY <1>1 DEF Idle
<1> QED BY <1>1, <1>2, <1>3, <1>4, IdleSound DEF Lands

LEMMA StaleLoopLands ==
  ASSUME CodexTyped, NEW c \in Calls, NEW t \in Task, NEW map \in Maps,
         NEW A \in SUBSET (Rows \X Nat), Holds(map, A),
         t.todo \subseteq Listed(t.captured), Holds(t.captured, A), StaleLoop(c, t, map)
  PROVE  Lands(c, A) /\ task'[c].at # "start"
<1>0. t.todo \in SUBSET Rows
  BY DEF Task
<1>1. CASE ToStop(t) = {}
  <2>1. served' = Missed(map, t, t.todo) /\ Ended(c)
    BY <1>1 DEF StaleLoop
  <2>2. served' \in Maps /\ Holds(served', A)
    BY <2>1, <1>0, MissedKeeps
  <2> QED BY <2>1, <2>2, EndedLands
<1>2. CASE ToStop(t) # {}
  <2> DEFINE r == Min(ToStop(t))
             u == [t EXCEPT !.at = "stop", !.todo = From(t.todo, r)]
  <2>1. served' = Missed(map, t, Before(t.todo, r)) /\ task' = [task EXCEPT ![c] = u]
        /\ again' = again /\ manager' = manager
    BY <1>2 DEF StaleLoop
  <2>2. Before(t.todo, r) \in SUBSET t.todo /\ From(t.todo, r) \in SUBSET t.todo
    BY DEF Before, From
  <2>3. served' \in Maps /\ Holds(served', A)
    BY <2>1, <2>2, <1>0, MissedKeeps
  <2>4. u \in Task /\ u.at = "stop" /\ u.todo = From(t.todo, r) /\ u.captured = t.captured
    BY <2>2, <1>0 DEF Task
  <2>5. task'[c] = u
    BY <2>1 DEF CodexTyped
  <2>6. CallSound(u, served', A)
    BY <2>2, <2>4 DEF CallSound
  <2> QED BY <2>1, <2>3, <2>4, <2>5, <2>6 DEF Lands, CodexTyped
<1> QED BY <1>1, <1>2

LEMMA RowLoopLands ==
  ASSUME CodexTyped, NEW c \in Calls, NEW todo \in SUBSET Rows, NEW wanted \in SUBSET Rows,
         NEW map \in Maps, NEW A \in SUBSET (Rows \X Nat), Holds(map, A),
         RowLoop(c, todo, wanted, map)
  PROVE  /\ Lands(c, A)
         /\ baseline' \in SUBSET Rows /\ baseline \subseteq baseline'
         /\ task'[c].at = "start" =>
              ~SeedOnly(c) /\ Min(task'[c].todo) \in todo /\ ShouldExpose(Min(task'[c].todo))
         /\ SeedOnly(c) => {r \in todo : map[r] = NoService} \subseteq baseline'
<1>1. CASE ToStart(c, todo, map) = {}
  <2> DEFINE seen == Seen(map, todo)
             t == [at |-> "stop", todo |-> Listed(seen), wanted |-> wanted, captured |-> seen]
  <2>1. baseline' = baseline \cup {r \in todo : map[r] = NoService} /\ StaleLoop(c, t, seen)
    BY <1>1 DEF RowLoop
  <2>2. seen \in Maps /\ Holds(seen, A)
    BY SeenKeeps
  <2>3. t \in Task /\ t.todo = Listed(t.captured) /\ t.captured = seen
    BY <2>2 DEF Task, Listed
  <2>4. Lands(c, A) /\ task'[c].at # "start"
    <3> HIDE DEF t, seen
    <3> QED BY <2>1, <2>2, <2>3, StaleLoopLands
  <2> QED BY <2>1, <2>4 DEF CodexTyped
<1>2. CASE ToStart(c, todo, map) # {}
  <2> DEFINE r == Min(ToStart(c, todo, map))
             u == [Idle EXCEPT !.at = "start", !.todo = From(todo, r), !.wanted = wanted]
  <2>1. /\ baseline' = baseline \cup {q \in Before(todo, r) : map[q] = NoService}
        /\ served' = Seen(map, Before(todo, r)) /\ task' = [task EXCEPT ![c] = u]
        /\ again' = again /\ manager' = manager
    BY <1>2 DEF RowLoop
  <2>2. Before(todo, r) \in SUBSET todo /\ From(todo, r) \in SUBSET todo
    BY DEF Before, From
  <2>3. r \in ToStart(c, todo, map) /\ r \in From(todo, r) /\ Min(From(todo, r)) = r
    BY <1>2, LeastLeft DEF ToStart
  <2>4. served' \in Maps /\ Holds(served', A) /\ served'[r] = NoService
    BY <2>1, <2>3, SeenKeeps DEF ToStart
  <2>5. u \in Task /\ u.at = "start" /\ u.todo = From(todo, r)
    BY <2>2, IdleSound DEF Task, Idle
  <2>6. task'[c] = u
    BY <2>1 DEF CodexTyped
  <2>7. CallSound(u, served', A)
    BY <2>3, <2>4, <2>5 DEF CallSound
  <2>8. Lands(c, A)
    BY <2>1, <2>4, <2>5, <2>6, <2>7 DEF Lands, CodexTyped
  <2>9. ~SeedOnly(c) /\ r \in todo /\ ShouldExpose(r)
    BY <2>3 DEF ToStart
  <2> QED BY <2>1, <2>2, <2>3, <2>5, <2>6, <2>8, <2>9 DEF CodexTyped
<1> QED BY <1>1, <1>2

-----------------------------------------------------------------------------

\* A call that goes on from its await leaves one call at most, and the others
\* where they were.
LEMMA StaysOneCall ==
  ASSUME CodexInv, NEW c \in Calls, task[c].at # "idle", NEW A, Lands(c, A)
  PROVE  OneCall' /\ \A d \in Calls \ {c} : task'[d] = task[d] /\ task[d].at = "idle"
<1>1. \A d \in Calls \ {c} : task'[d] = task[d] /\ task[d].at = "idle"
  BY DEF Lands, CodexInv, CodexTyped, OneCall
<1>2. \A d, e \in Calls : task'[d].at # "idle" /\ task'[e].at # "idle" => d = e
  BY <1>1
<1>3. manager # "fresh"
  BY DEF CodexInv, OneCall
<1>4. {"first", "poll"} \subseteq Calls
  BY DEF Calls
<1>5. CASE c = "first"
  <2>1. manager = "starting"
    BY <1>5 DEF CodexInv, OneCall
  <2>2. manager' = IF task'["first"].at = "idle" THEN "up" ELSE "starting"
    BY <1>5, <2>1 DEF Lands
  <2> QED BY <1>1, <1>2, <2>2 DEF OneCall
<1>6. CASE c # "first"
  <2>1. task'["first"] = task["first"] /\ manager' = manager
    BY <1>1, <1>4, <1>6 DEF Lands
  <2>2. /\ task["first"].at # "idle" => manager = "starting"
        /\ manager = "starting" => task["first"].at # "idle"
    BY DEF CodexInv, OneCall
  <2> QED BY <1>1, <1>2, <1>3, <2>1, <2>2 DEF OneCall
<1> QED BY <1>1, <1>5, <1>6

LEMMA InventoryKeeps ==
  ASSUME CodexInv, NEW c \in Calls, NEW rows \in SUBSET Rows, Inventory(c, rows)
  PROVE  CodexInv'
<1>1. RowLoop(c, rows, rows, served) /\ task[c].at = "inventory"
  BY DEF Inventory
<1>2. UNCHANGED <<eligible, failed, exposed, alive, made, halting>> /\ lost' \in Nat
      /\ seed' = IF c = "first" THEN rows ELSE seed
  BY DEF Inventory, serviceVars, CodexInv, CodexTyped
<1>3. Managed \in SUBSET (Rows \X Nat) /\ Holds(served, Managed)
  BY DEF Managed, CodexInv, CodexTyped, ServicesSound
<1>4. Lands(c, Managed) /\ baseline' \in SUBSET Rows /\ baseline \subseteq baseline'
      /\ (task'[c].at = "start" =>
           ~SeedOnly(c) /\ Min(task'[c].todo) \in rows /\ ShouldExpose(Min(task'[c].todo)))
      /\ (SeedOnly(c) => {r \in rows : served[r] = NoService} \subseteq baseline')
  BY <1>1, <1>3, RowLoopLands DEF CodexInv, CodexTyped
<1>5. OneCall' /\ \A d \in Calls \ {c} : task'[d] = task[d] /\ task[d].at = "idle"
  BY <1>1, <1>4, StaysOneCall
<1>6. CodexTyped'
  BY <1>2, <1>4 DEF Lands, CodexInv, CodexTyped
<1>7. ServicesSound'
  <2>1. Managed' = Managed
    BY <1>1, <1>2, <1>4 DEF Managed, Managing, Lands, CodexInv, OneCall
  <2>2. ASSUME NEW d \in Calls PROVE CallSound(task'[d], served', Managed')
    <3>1. CASE d = c
      BY <1>4, <2>1, <3>1 DEF Lands
    <3>2. CASE d # c
      BY <1>5, <3>2 DEF CallSound
    <3> QED BY <3>1, <3>2
  <2> QED BY <1>4, <2>1, <2>2 DEF Lands, ServicesSound
<1>8. Private'
  <2> SUFFICES ASSUME ~ExposeCurrent PROVE Private'
    BY DEF Private
  <2>1. CASE c = "first"
    <3>1. manager = "starting" /\ SeedOnly(c)
      BY <1>1, <2>1 DEF CodexInv, OneCall, SeedOnly
    <3>2. \A r \in Rows : served[r] = NoService /\ r \notin exposed /\ made[r] = 0
      BY <1>1, <2>1 DEF CodexInv, Private
    <3>3. rows \subseteq baseline' /\ seed' = rows /\ task'[c].at # "start"
      BY <1>2, <1>4, <2>1, <3>1, <3>2
    <3>4. \A d \in Calls : task'[d].at # "start"
      BY <1>5, <3>3
    <3>5. manager' # "fresh" /\ task'["first"].at # "inventory"
      BY <1>4, <2>1, <3>1 DEF Lands
    <3> QED BY <1>2, <3>2, <3>3, <3>4, <3>5 DEF Private
  <2>2. CASE c # "first"
    <3>1. manager' # "fresh" /\ task'["first"].at = "idle"
      BY <1>1, <1>4, <1>5, <2>2 DEF Lands, CodexInv, OneCall, Calls
    <3>2. \A r \in seed : r \in baseline /\ r \notin exposed /\ made[r] = 0
      BY DEF CodexInv, Private
    <3>3. task'[c].at = "start" => Min(task'[c].todo) \notin seed
      BY <1>4, <3>2 DEF ShouldExpose
    <3>4. \A d \in Calls : task'[d].at = "start" => d # "first" /\ Min(task'[d].todo) \notin seed
      BY <1>5, <2>2, <3>3
    <3> QED BY <1>2, <1>4, <2>2, <3>1, <3>2, <3>4 DEF Private
  <2> QED BY <2>1, <2>2
<1> QED BY <1>5, <1>6, <1>7, <1>8 DEF CodexInv

\* What a call that goes on without waiting for an inventory does to the private
\* threads: nothing, if it starts nothing for them.
LEMMA PrivateKept ==
  ASSUME CodexInv, NEW c \in Calls, NEW A, task[c].at \notin {"idle", "inventory"},
         Lands(c, A), seed' = seed, baseline \subseteq baseline',
         ~ExposeCurrent => /\ task'[c].at = "start" => c # "first" /\ Min(task'[c].todo) \notin seed
                           /\ \A r \in seed : r \notin exposed' /\ made'[r] = 0
  PROVE  Private'
<1> SUFFICES ASSUME ~ExposeCurrent PROVE Private'
  BY DEF Private
<1>1. \A d \in Calls \ {c} : task'[d] = task[d] /\ task[d].at = "idle"
  BY StaysOneCall
<1>2. \A d \in Calls : task'[d].at = "start" => d # "first" /\ Min(task'[d].todo) \notin seed
  BY <1>1
<1>3. manager' # "fresh" /\ task'["first"].at # "inventory"
  <2>1. manager # "fresh" /\ "first" \in Calls
    BY DEF CodexInv, OneCall, Calls
  <2>2. CASE c = "first"
    BY <2>1, <2>2 DEF Lands
  <2>3. CASE c # "first"
    BY <1>1, <2>1, <2>3 DEF Lands
  <2> QED BY <2>2, <2>3
<1> QED BY <1>2, <1>3 DEF Private, CodexInv

LEMMA SessionStartedKeeps ==
  ASSUME CodexInv, NEW c \in Calls, SessionStarted(c)
  PROVE  CodexInv'
<1> DEFINE t == task[c]
           r == Min(t.todo)
           service == <<r, made[r] + 1>>
           map == [served EXCEPT ![r] = [service |-> service, misses |-> 0]]
           A == IF Managing THEN alive \cup {service} ELSE {}
<1>1. /\ t.at = "start" /\ made' = [made EXCEPT ![r] = @ + 1] /\ alive' = alive \cup {service}
      /\ exposed' = exposed \cup {r} /\ RowLoop(c, t.todo \ {r}, t.wanted, map)
      /\ UNCHANGED <<eligible, lost, failed, halting, seed, away>>
  BY DEF SessionStarted, threadVars, historyVars
<1>2. t \in Task /\ t.todo # {} /\ served[r] = NoService
  BY <1>1 DEF CodexInv, CodexTyped, ServicesSound, CallSound
<1>3. t.todo \in SUBSET Rows /\ t.wanted \in SUBSET Rows /\ r \in t.todo
  BY <1>2, LeastRow DEF Task
<1>4. r \in Rows /\ made[r] \in Nat /\ service \in Rows \X Nat
  BY <1>3 DEF CodexInv, CodexTyped
<1>5. [service |-> service, misses |-> 0] \in Running
  BY <1>4 DEF Running
<1>6. map \in Maps /\ A \in SUBSET (Rows \X Nat)
  BY <1>4, <1>5 DEF Maps, CodexInv, CodexTyped
<1>7. Holds(map, A)
  <2>1. ASSUME Managing, NEW old \in alive
        PROVE  old[1] \in Rows /\ old[1] # r /\ served[old[1]] # NoService /\ served[old[1]].service = old
    BY <1>2, <2>1 DEF CodexInv, CodexTyped, ServicesSound, Holds, Managed
  <2>2. map[r] = [service |-> service, misses |-> 0] /\ \A q \in Rows \ {r} : map[q] = served[q]
    BY <1>4 DEF CodexInv, CodexTyped, Maps
  <2>3. [service |-> service, misses |-> 0] # NoService
    BY <1>5, CodexAssumption DEF Running
  <2>4. service[1] = r /\ [service |-> service, misses |-> 0].service = service
    OBVIOUS
  <2> HIDE DEF map, service, r
  <2> QED BY <2>1, <2>2, <2>3, <2>4 DEF Holds
<1>8. /\ Lands(c, A)
      /\ baseline' \in SUBSET Rows /\ baseline \subseteq baseline'
      /\ task'[c].at = "start" =>
           ~SeedOnly(c) /\ Min(task'[c].todo) \in t.todo \ {r} /\ ShouldExpose(Min(task'[c].todo))
  <2> HIDE DEF map, A, service
  <2>1. t.todo \ {r} \in SUBSET Rows
    BY <1>3
  <2> HIDE DEF r, t
  <2> QED BY <1>1, <1>3, <1>6, <1>7, <2>1, RowLoopLands DEF CodexInv
<1>9. OneCall' /\ \A d \in Calls \ {c} : task'[d] = task[d] /\ task[d].at = "idle"
  BY <1>1, <1>8, StaysOneCall
<1>10. CodexTyped'
  BY <1>1, <1>4, <1>8 DEF Lands, CodexInv, CodexTyped
<1>11. ServicesSound'
  <2>1. Managed' = A
    BY <1>1, <1>8 DEF Managed, Managing, Lands, CodexInv, OneCall
  <2>2. ASSUME NEW d \in Calls PROVE CallSound(task'[d], served', Managed')
    <3>1. CASE d = c
      BY <1>8, <2>1, <3>1 DEF Lands
    <3>2. CASE d # c
      BY <1>9, <3>2 DEF CallSound
    <3> QED BY <3>1, <3>2
  <2> QED BY <1>8, <2>1, <2>2 DEF Lands, ServicesSound
<1>12. Private'
  <2>1. ASSUME ~ExposeCurrent
        PROVE  /\ task'[c].at = "start" => c # "first" /\ Min(task'[c].todo) \notin seed
               /\ \A q \in seed : q \notin exposed' /\ made'[q] = 0
    <3>1. c # "first" /\ r \notin seed
      BY <1>1, <2>1 DEF CodexInv, Private
    <3>2. \A q \in seed : q \in baseline /\ q \notin exposed /\ made[q] = 0
      BY <2>1 DEF CodexInv, Private
    <3>3. task'[c].at = "start" => Min(task'[c].todo) \notin seed
      BY <1>8, <2>1, <3>2 DEF ShouldExpose
    <3>4. \A q \in seed : q # r /\ made'[q] = made[q]
      BY <1>1, <3>1 DEF CodexInv, CodexTyped
    <3> QED BY <1>1, <3>1, <3>2, <3>3, <3>4
  <2> QED BY <1>1, <1>8, <2>1, PrivateKept
<1> QED BY <1>9, <1>10, <1>11, <1>12 DEF CodexInv

LEMMA SessionStoppedKeeps ==
  ASSUME CodexInv, NEW c \in Calls, SessionStopped(c)
  PROVE  CodexInv'
<1> DEFINE t == task[c]
           r == Min(t.todo)
           u == [t EXCEPT !.todo = @ \ {r}]
           map == [served EXCEPT ![r] = NoService]
           A == IF Managing THEN alive' ELSE {}
<1>1. /\ t.at = "stop" /\ alive' = alive \ {t.captured[r].service} /\ StaleLoop(c, u, map)
      /\ UNCHANGED <<eligible, lost, failed, baseline, exposed, made, halting, seed, away>>
  BY DEF SessionStopped, threadVars, historyVars
<1>2. t \in Task /\ t.todo \subseteq Listed(t.captured) /\ Holds(t.captured, Managed)
  BY <1>1 DEF CodexInv, CodexTyped, ServicesSound, CallSound
<1>3. u \in Task /\ u.todo \subseteq Listed(u.captured) /\ u.captured = t.captured
  BY <1>2 DEF Task
<1>4. map \in Maps /\ A \in SUBSET (Rows \X Nat)
  BY <1>1 DEF Maps, CodexInv, CodexTyped
<1>5. A \subseteq Managed /\ \A service \in A : service # t.captured[r].service
  BY <1>1 DEF Managed
<1>6. Holds(u.captured, A)
  BY <1>2, <1>3, <1>5 DEF Holds
<1>7. Holds(map, A)
  <2>1. ASSUME NEW service \in A PROVE service[1] # r /\ service[1] \in Rows
    BY <1>2, <1>4, <1>5 DEF Holds
  <2>2. \A q \in Rows \ {r} : map[q] = served[q]
    BY DEF CodexInv, CodexTyped, Maps
  <2>3. Holds(served, A)
    BY <1>5 DEF CodexInv, ServicesSound, Holds
  <2> HIDE DEF map, r, A
  <2> QED BY <2>1, <2>2, <2>3 DEF Holds
<1>8. Lands(c, A) /\ task'[c].at # "start"
  <2> HIDE DEF u, map, A
  <2> QED BY <1>1, <1>3, <1>4, <1>6, <1>7, StaleLoopLands DEF CodexInv
<1>9. OneCall' /\ \A d \in Calls \ {c} : task'[d] = task[d] /\ task[d].at = "idle"
  BY <1>1, <1>8, StaysOneCall
<1>10. CodexTyped'
  BY <1>1, <1>8 DEF Lands, CodexInv, CodexTyped
<1>11. ServicesSound'
  <2>1. Managed' = A
    BY <1>1, <1>8 DEF Managed, Managing, Lands, CodexInv, OneCall
  <2>2. ASSUME NEW d \in Calls PROVE CallSound(task'[d], served', Managed')
    <3>1. CASE d = c
      BY <1>8, <2>1, <3>1 DEF Lands
    <3>2. CASE d # c
      BY <1>9, <3>2 DEF CallSound
    <3> QED BY <3>1, <3>2
  <2> QED BY <1>8, <2>1, <2>2 DEF Lands, ServicesSound
<1>12. Private'
  BY <1>1, <1>8, PrivateKept DEF CodexInv, Private
<1> QED BY <1>9, <1>10, <1>11, <1>12 DEF CodexInv

LEMMA SessionFailsKeeps ==
  ASSUME CodexInv, NEW c \in Calls, SessionFails(c)
  PROVE  CodexInv'
<1>1. /\ task[c].at = "start" /\ failed' = failed + 1 /\ task' = [task EXCEPT ![c] = Idle]
      /\ manager' = IF c = "first" THEN "failed" ELSE manager
      /\ UNCHANGED <<eligible, lost, served, baseline, exposed, alive, made, again, seed>>
  BY DEF SessionFails, mapVars, serviceVars, historyVars
<1>2. task'[c].at = "idle" /\ \A d \in Calls \ {c} : task'[d] = task[d] /\ task[d].at = "idle"
  BY <1>1 DEF CodexInv, CodexTyped, OneCall, Idle
<1>3. CodexTyped'
  BY <1>1, IdleSound DEF CodexInv, CodexTyped
<1>4. \A d \in Calls : task'[d].at = "idle"
  BY <1>2
<1>5. OneCall'
  <2>1. c # "first" => manager # "starting"
    BY <1>1, <1>2 DEF CodexInv, OneCall, Calls
  <2>2. manager' # "starting"
    BY <1>1, <2>1
  <2> QED BY <1>4, <2>2 DEF OneCall, Calls
<1>6. ServicesSound'
  <2>1. Managed' \subseteq Managed
    BY <1>1 DEF Managed, Managing
  <2> QED BY <1>1, <1>4, <2>1 DEF CodexInv, ServicesSound, CallSound, Holds
<1>7. Private'
  <2>1. manager' # "fresh"
    BY <1>1 DEF CodexInv, OneCall
  <2>2. task'["first"].at # "inventory"
    BY <1>4 DEF Calls
  <2> QED BY <1>1, <1>4, <2>1, <2>2 DEF CodexInv, Private
<1> QED BY <1>3, <1>5, <1>6, <1>7 DEF CodexInv

\* A call that begins waits for its inventory, and is the only one.
LEMMA BeginsKeeps ==
  ASSUME CodexInv, NEW c \in Calls, \A d \in Calls : task[d].at = "idle",
         task' = [task EXCEPT ![c] = [Idle EXCEPT !.at = "inventory"]], again' \in BOOLEAN,
         \/ c = "first" /\ manager = "fresh" /\ manager' = "starting"
         \/ c # "first" /\ manager = "up" /\ manager' = "up",
         UNCHANGED <<threadVars, mapVars, serviceVars, halting, seed, away>>
  PROVE  CodexInv'
<1> USE DEF threadVars, mapVars, serviceVars, historyVars
<1>1. task'[c] = [Idle EXCEPT !.at = "inventory"] /\ task'[c].at = "inventory"
      /\ \A d \in Calls \ {c} : task'[d] = task[d]
  BY DEF CodexInv, CodexTyped, Idle
<1>2. CodexTyped'
  BY IdleSound DEF CodexInv, CodexTyped
<1>3. OneCall'
  BY <1>1 DEF CodexInv, OneCall, Calls
<1>4. ServicesSound'
  BY <1>1, IdleSound DEF CodexInv, ServicesSound, CallSound, Managed, Managing
<1>5. Private'
  BY <1>1 DEF CodexInv, Private, Calls
<1> QED BY <1>2, <1>3, <1>4, <1>5 DEF CodexInv

LEMMA StartsKeep ==
  ASSUME CodexInv, RescansOverlap = FALSE, Start \/ Trigger \/ \E c \in Rescans : Rescan(c)
  PROVE  CodexInv'
<1>1. CASE Start
  <2>1. \A d \in Calls : task[d].at = "idle"
    BY <1>1 DEF Start, CodexInv, OneCall
  <2>2. /\ manager = "fresh" /\ manager' = "starting" /\ again' = again
        /\ task' = [task EXCEPT !["first"] = [Idle EXCEPT !.at = "inventory"]]
        /\ UNCHANGED <<threadVars, mapVars, serviceVars, halting, seed, away>>
    BY <1>1 DEF Start, historyVars
  <2>3. "first" \in Calls /\ again' \in BOOLEAN
    BY <2>2 DEF CodexInv, CodexTyped, Calls
  <2> QED BY <2>1, <2>2, <2>3, BeginsKeeps
<1>2. ASSUME NEW c \in Calls, c # "first", manager = "up", task[c].at = "idle", Call(c), again' \in BOOLEAN
      PROVE  CodexInv'
  <2>1. \A d \in Calls : task[d].at = "idle"
    BY <1>2 DEF Call, Alone
  <2>2. UNCHANGED <<threadVars, mapVars, serviceVars, halting, seed, away, manager>>
    BY <1>2 DEF Call
  <2> QED BY <1>2, <2>1, <2>2, BeginsKeeps DEF Call
<1>3. CASE Trigger
  <2>1. CASE task["poll"].at = "idle"
    BY <1>2, <1>3, <2>1 DEF Trigger, Calls
  <2>2. CASE task["poll"].at # "idle"
    BY <1>3, <2>2 DEF Trigger, CodexInv, CodexTyped, OneCall, ServicesSound, Private, CallSound, Holds,
       Managed, Managing, threadVars, mapVars, serviceVars, historyVars
  <2> QED BY <2>1, <2>2
<1>4. ASSUME NEW c \in Rescans, Rescan(c) PROVE CodexInv'
  BY <1>2, <1>4, CodexAssumption DEF Rescan, Calls, CodexInv, CodexTyped
<1> QED BY <1>1, <1>3, <1>4

\* While a stop is under way, #running only loses threads.
LEMMA StopsKeep ==
  ASSUME CodexInv, Stop \/ Halt \/ HaltNext
  PROVE  CodexInv'
<1> USE DEF threadVars, mapVars, serviceVars, historyVars
<1>1. /\ served' \in Maps /\ \A r \in Rows : served'[r] \in {served[r], NoService}
      /\ alive' \subseteq alive /\ task' = task /\ again' = again
      /\ manager' \in {"stopping", "halting", "stopped"}
      /\ manager \in {"up", "stopping", "halting"}
      /\ UNCHANGED <<eligible, lost, failed, baseline, exposed, made, seed>>
  <2>1. CASE Stop
    BY <2>1 DEF Stop, CodexInv, CodexTyped
  <2>2. CASE Halt
    BY <2>2 DEF Halt, StopEach, CodexInv, CodexTyped, Maps
  <2>3. CASE HaltNext
    BY <2>3 DEF HaltNext, StopEach, CodexInv, CodexTyped, Maps
  <2> QED BY <2>1, <2>2, <2>3
<1>2. CodexTyped'
  BY <1>1 DEF CodexInv, CodexTyped
<1>3. OneCall'
  BY <1>1 DEF CodexInv, OneCall
<1>4. Managed' = {}
  BY <1>1 DEF Managed, Managing
<1>5. ASSUME NEW c \in Calls PROVE CallSound(task[c], served', {})
  <2>1. CASE task[c].at = "start"
    <3>1. task[c].todo \in SUBSET Rows /\ task[c].todo # {} /\ served[Min(task[c].todo)] = NoService
      BY <2>1 DEF CodexInv, CodexTyped, ServicesSound, CallSound, Task
    <3>2. Min(task[c].todo) \in Rows
      BY <3>1, LeastRow
    <3> QED BY <1>1, <2>1, <3>1, <3>2 DEF CallSound
  <2>2. CASE task[c].at # "start"
    BY <2>2 DEF CodexInv, ServicesSound, CallSound, Holds
  <2> QED BY <2>1, <2>2
<1>6. ServicesSound'
  BY <1>1, <1>4, <1>5 DEF ServicesSound, Holds
<1>7. Private'
  BY <1>1 DEF CodexInv, OneCall, Private
<1> QED BY <1>2, <1>3, <1>6, <1>7 DEF CodexInv

LEMMA ChangeKeeps ==
  ASSUME CodexInv, (\E r \in Rows : Change(r)) \/ UNCHANGED codexVars
  PROVE  CodexInv'
<1>1. eligible' \in SUBSET Rows
      /\ UNCHANGED <<manager, served, baseline, exposed, alive, made, task, again, lost, failed, seed>>
  BY DEF Change, codexVars, threadVars, mapVars, serviceVars, historyVars, CodexInv, CodexTyped
<1> QED BY <1>1 DEF CodexInv, CodexTyped, OneCall, ServicesSound, CallSound, Holds, Private, Managed, Managing

LEMMA CodexInitial == CodexInit => CodexInv
<1> SUFFICES ASSUME CodexInit PROVE CodexInv
  OBVIOUS
<1>1. \A c \in Calls : task[c] = Idle /\ task[c].at = "idle"
  BY DEF CodexInit, Idle
<1>2. CodexTyped
  BY IdleSound DEF CodexInit, CodexTyped, Maps
<1>3. OneCall /\ Private
  BY <1>1 DEF CodexInit, OneCall, Private, Calls
<1>4. ServicesSound
  BY <1>1, IdleSound DEF CodexInit, ServicesSound, Holds, Managed
<1> QED BY <1>2, <1>3, <1>4 DEF CodexInv

LEMMA CodexStep == RescansOverlap = FALSE /\ CodexInv /\ [CodexNext]_codexVars => CodexInv'
<1> SUFFICES ASSUME RescansOverlap = FALSE, CodexInv, [CodexNext]_codexVars PROVE CodexInv'
  OBVIOUS
<1>1. CASE Start \/ Trigger \/ \E c \in Rescans : Rescan(c)
  BY <1>1, StartsKeep
<1>2. CASE Stop \/ Halt \/ HaltNext
  BY <1>2, StopsKeep
<1>3. CASE \E c \in Calls, rows \in SUBSET Rows : Inventory(c, rows)
  BY <1>3, InventoryKeeps
<1>4. CASE \E c \in Calls : SessionStarted(c) \/ SessionFails(c) \/ SessionStopped(c)
  BY <1>4, SessionStartedKeeps, SessionFailsKeeps, SessionStoppedKeeps
<1>5. CASE (\E r \in Rows : Change(r)) \/ UNCHANGED codexVars
  BY <1>5, ChangeKeeps
<1> QED BY <1>1, <1>2, <1>3, <1>4, <1>5 DEF CodexNext

-----------------------------------------------------------------------------

(***************************************************************************)
(* A service is stopped only for a thread that stayed away as long as the  *)
(* grace says.  The misses #running counts are never more than the         *)
(* inventories the thread was missing from in a row; a call that is on its *)
(* way through its loops has still to reset those of the threads it saw    *)
(* (todo, in the first loop), and to add one to those it did not see.      *)
(***************************************************************************)
AtRest(u) == u.at \in {"idle", "inventory"}

RestPatient(map, absent) ==
    \A r \in Rows : map[r] # NoService => map[r].misses < Grace /\ map[r].misses <= absent[r]

StartPatient(map, todo, wanted, absent) ==
    /\ todo \subseteq wanted
    /\ \A r \in Rows : map[r] # NoService =>
         /\ map[r].misses < Grace
         /\ IF r \in wanted THEN r \in todo \/ map[r].misses = 0 ELSE map[r].misses + 1 <= absent[r]

StopPatient(map, t, absent) ==
    /\ RestPatient(map, absent)
    /\ \A r \in Unwanted(t, t.todo) : t.captured[r].misses < Grace /\ t.captured[r].misses + 1 <= absent[r]

Patient(map, u, absent) ==
    /\ u.at = "start" => StartPatient(map, u.todo, u.wanted, absent)
    /\ u.at = "stop"  => StopPatient(map, u, absent) /\ ToStop(u) # {} /\ Min(u.todo) \in ToStop(u)
    /\ AtRest(u)      => RestPatient(map, absent)

\* Of the one call that is not idle, or of none.
GraceSound ==
    /\ away \in [Rows -> 0..Grace]
    /\ failed = 0 /\ Managing =>
         \A c \in Calls : (\A d \in Calls \ {c} : task[d].at = "idle") => Patient(served, task[c], away)

LEMMA SeenMisses ==
  ASSUME NEW map \in Maps, NEW rows
  PROVE  \A r \in Rows : map[r] # NoService =>
           /\ map[r].misses \in Nat
           /\ Seen(map, rows)[r].misses = IF r \in rows THEN 0 ELSE map[r].misses
<1> QED BY DEF Maps, Running, Seen

LEMMA MissedMisses ==
  ASSUME NEW map \in Maps, NEW t \in Task, NEW rows, rows \cap Rows \subseteq Listed(t.captured)
  PROVE  \A r \in Rows :
           IF r \in Unwanted(t, rows)
           THEN t.captured[r].misses \in Nat /\ Missed(map, t, rows)[r].misses = t.captured[r].misses + 1
           ELSE Missed(map, t, rows)[r] = map[r]
<1> QED BY DEF Maps, Running, Missed, Unwanted, Listed, Task

LEMMA StaleLoopPatient ==
  ASSUME CodexTyped, NEW c \in Calls, NEW t \in Task, NEW map \in Maps, t.todo \subseteq Listed(t.captured),
         NEW absent \in [Rows -> 0..Grace], StopPatient(map, t, absent), StaleLoop(c, t, map)
  PROVE  Patient(served', task'[c], absent)
<1>0. t.todo \in SUBSET Rows
  BY DEF Task
<1>a. ASSUME NEW rows \in SUBSET t.todo, ToStop(t) \cap rows = {}
      PROVE  RestPatient(Missed(map, t, rows), absent)
  <2> SUFFICES ASSUME NEW r \in Rows, Missed(map, t, rows)[r] # NoService
               PROVE  Missed(map, t, rows)[r].misses < Grace /\ Missed(map, t, rows)[r].misses <= absent[r]
    BY DEF RestPatient
  <2>1. CASE r \in Unwanted(t, rows)
    <3>1. t.captured[r].misses \in Nat /\ Missed(map, t, rows)[r].misses = t.captured[r].misses + 1
      BY <2>1, <1>0, MissedMisses
    <3>2. r \in Unwanted(t, t.todo) /\ r \notin ToStop(t)
      BY <1>a, <2>1 DEF Unwanted
    <3>3. ~(t.captured[r].misses + 1 >= Grace) /\ t.captured[r].misses + 1 <= absent[r]
      BY <3>2 DEF ToStop, StopPatient
    <3> QED BY <3>1, <3>3, CodexAssumption
  <2>2. CASE r \notin Unwanted(t, rows)
    BY <2>2, <1>0, MissedMisses DEF StopPatient, RestPatient
  <2> QED BY <2>1, <2>2
<1>1. CASE ToStop(t) = {}
  <2>1. served' = Missed(map, t, t.todo) /\ Ended(c)
    BY <1>1 DEF StaleLoop
  <2>2. task'[c] \in {Idle, [Idle EXCEPT !.at = "inventory"]}
    BY <2>1 DEF Ended, CodexTyped
  <2>3. RestPatient(served', absent)
    BY <1>1, <1>a, <2>1
  <2>4. task'[c].at \in {"idle", "inventory"}
    BY <2>2 DEF Idle
  <2> QED BY <2>3, <2>4 DEF Patient, AtRest
<1>2. CASE ToStop(t) # {}
  <2> DEFINE r == Min(ToStop(t))
             u == [t EXCEPT !.at = "stop", !.todo = From(t.todo, r)]
  <2>1. served' = Missed(map, t, Before(t.todo, r)) /\ task' = [task EXCEPT ![c] = u]
    BY <1>2 DEF StaleLoop
  <2>2. ToStop(t) \in SUBSET t.todo
    BY DEF ToStop, Unwanted
  <2>3. r \in ToStop(t) /\ r \in From(t.todo, r) /\ Min(From(t.todo, r)) = r
    BY <1>0, <1>2, <2>2, LeastLeft
  <2>4. \A q \in ToStop(t) : r <= q
    BY <1>0, <1>2, <2>2, LeastRow
  <2>5. ToStop(t) \cap Before(t.todo, r) = {}
    <3> SUFFICES ASSUME NEW q \in ToStop(t), q < r PROVE FALSE
      BY DEF Before
    <3>1. q \in Nat /\ r \in Nat /\ r <= q
      BY <1>0, <2>2, <2>3, <2>4, CodexAssumption
    <3> HIDE DEF r
    <3> QED BY <3>1
  <2>6. RestPatient(served', absent)
    BY <2>1, <2>5, <1>a DEF Before
  <2>7. u.at = "stop" /\ u.todo = From(t.todo, r) /\ u.wanted = t.wanted /\ u.captured = t.captured
    BY DEF Task
  <2>8. task'[c] = u
    BY <2>1 DEF CodexTyped
  <2>9. r \in ToStop(u) /\ Min(u.todo) = r
    BY <2>3, <2>7 DEF ToStop, Unwanted
  <2>10. \A q \in Unwanted(u, u.todo) : q \in Unwanted(t, t.todo)
    BY <2>7 DEF Unwanted, From
  <2>11. StopPatient(served', u, absent)
    BY <2>6, <2>7, <2>10 DEF StopPatient
  <2> HIDE DEF u, r
  <2> QED BY <2>7, <2>8, <2>9, <2>11 DEF Patient, AtRest
<1> QED BY <1>1, <1>2

LEMMA RowLoopPatient ==
  ASSUME CodexTyped, NEW c \in Calls, NEW todo \in SUBSET Rows, NEW wanted \in SUBSET Rows, NEW map \in Maps,
         NEW absent \in [Rows -> 0..Grace], StartPatient(map, todo, wanted, absent), RowLoop(c, todo, wanted, map)
  PROVE  Patient(served', task'[c], absent)
<1>1. CASE ToStart(c, todo, map) = {}
  <2> DEFINE seen == Seen(map, todo)
             t == [at |-> "stop", todo |-> Listed(seen), wanted |-> wanted, captured |-> seen]
  <2>1. StaleLoop(c, t, seen)
    BY <1>1 DEF RowLoop
  <2>2. seen \in Maps
    BY SeenKeeps
  <2>3. t \in Task /\ t.todo = Listed(t.captured) /\ t.captured = seen /\ t.wanted = wanted
    BY <2>2 DEF Task, Listed
  <2>4. \A r \in Rows : seen[r] # NoService =>
          /\ seen[r].misses \in Nat /\ seen[r].misses < Grace
          /\ IF r \in wanted THEN seen[r].misses = 0 ELSE seen[r].misses + 1 <= absent[r]
    BY SeenKeeps, SeenMisses, CodexAssumption DEF StartPatient
  <2> HIDE DEF t, seen
  <2>5. RestPatient(seen, absent)
    BY <2>4 DEF RestPatient
  <2>6. StopPatient(seen, t, absent)
    BY <2>3, <2>4, <2>5 DEF StopPatient, Unwanted, Listed
  <2> QED BY <2>1, <2>2, <2>3, <2>6, StaleLoopPatient
<1>2. CASE ToStart(c, todo, map) # {}
  <2> DEFINE r == Min(ToStart(c, todo, map))
             u == [Idle EXCEPT !.at = "start", !.todo = From(todo, r), !.wanted = wanted]
  <2>1. served' = Seen(map, Before(todo, r)) /\ task' = [task EXCEPT ![c] = u]
    BY <1>2 DEF RowLoop
  <2>2. r \in todo
    BY <1>2, LeastLeft DEF ToStart
  <2>3. u.at = "start" /\ u.todo = From(todo, r) /\ u.wanted = wanted
    BY DEF Idle
  <2>4. task'[c] = u
    BY <2>1 DEF CodexTyped
  <2>5. \A q \in todo : q \in Before(todo, r) \/ q \in From(todo, r)
    <3> SUFFICES ASSUME NEW q \in todo PROVE q < r \/ r <= q
      BY DEF Before, From
    <3>1. q \in Nat /\ r \in Nat
      BY <2>2, CodexAssumption
    <3> HIDE DEF r
    <3> QED BY <3>1
  <2>6. StartPatient(served', From(todo, r), wanted, absent)
    <3> HIDE DEF r
    <3> QED BY <2>1, <2>5, SeenKeeps, SeenMisses, CodexAssumption DEF StartPatient, From
  <2> HIDE DEF u, r
  <2> QED BY <2>3, <2>4, <2>6 DEF Patient, AtRest
<1> QED BY <1>1, <1>2

LEMMA LesserOfTwo ==
  ASSUME NEW m \in Nat, NEW n \in Nat
  PROVE  Min({m, n}) = IF m <= n THEN m ELSE n
<1> DEFINE k == IF m <= n THEN m ELSE n
<1>1. k \in {m, n} /\ \A y \in {m, n} : k <= y
  OBVIOUS
<1>2. \A x \in {m, n} : (\A y \in {m, n} : x <= y) => x = k
  OBVIOUS
<1> HIDE DEF k
<1> QED BY <1>1, <1>2 DEF Min, k

\* The one call that is under way is patient after its step when its loop says so.
LEMMA OnlyCallPatient ==
  ASSUME CodexInv, NEW c \in Calls, task'[c].at # "idle" \/ \A d \in Calls : task'[d].at = "idle",
         away' \in [Rows -> 0..Grace], Patient(served', task'[c], away')
  PROVE  GraceSound'
<1>1. CASE task'[c].at # "idle"
  BY <1>1 DEF GraceSound
<1>2. CASE \A d \in Calls : task'[d].at = "idle"
  <2>1. RestPatient(served', away')
    BY <1>2 DEF Patient, AtRest
  <2>2. ASSUME NEW d \in Calls PROVE Patient(served', task'[d], away')
    BY <1>2, <2>1 DEF Patient, AtRest
  <2> QED BY <2>2 DEF GraceSound
<1> QED BY <1>1, <1>2

LEMMA GoesOnPatient ==
  ASSUME CodexInv, NEW c \in Calls, task[c].at # "idle", NEW A, Lands(c, A),
         away' \in [Rows -> 0..Grace], Patient(served', task'[c], away')
  PROVE  GraceSound'
<1>1. \A d \in Calls \ {c} : task'[d] = task[d] /\ task[d].at = "idle"
  BY StaysOneCall
<1> QED BY <1>1, OnlyCallPatient

LEMMA InventoryPatient ==
  ASSUME CodexInv, GraceSound, NEW c \in Calls, NEW rows \in SUBSET Rows, Inventory(c, rows)
  PROVE  GraceSound'
<1>1. /\ RowLoop(c, rows, rows, served) /\ task[c].at = "inventory" /\ failed' = failed
      /\ away' = [r \in Rows |-> IF r \in rows THEN 0 ELSE Min({away[r] + 1, Grace})]
  BY DEF Inventory
<1>2. \A d \in Calls \ {c} : task[d].at = "idle"
  BY <1>1 DEF CodexInv, OneCall
<1>3. ASSUME NEW r \in Rows
      PROVE  away[r] \in 0..Grace /\ Min({away[r] + 1, Grace}) = IF away[r] + 1 <= Grace THEN away[r] + 1 ELSE Grace
  <2>1. away[r] \in 0..Grace /\ away[r] + 1 \in Nat /\ Grace \in Nat
    BY CodexAssumption DEF GraceSound
  <2> QED BY <2>1, LesserOfTwo
<1>4. away' \in [Rows -> 0..Grace]
  <2>1. \A r \in Rows : away'[r] \in 0..Grace
    BY <1>1, <1>3, CodexAssumption
  <2> QED BY <1>1, <2>1
<1>5. Holds(served, Managed) /\ Managed \in SUBSET (Rows \X Nat)
  BY DEF Managed, CodexInv, CodexTyped, ServicesSound
<1>6. Lands(c, Managed)
  BY <1>1, <1>5, RowLoopLands DEF CodexInv, CodexTyped
<1>7. CASE failed = 0 /\ Managing
  <2>1. RestPatient(served, away)
    BY <1>1, <1>2, <1>7 DEF GraceSound, Patient, AtRest
  <2>2. ASSUME NEW r \in Rows, served[r] # NoService, r \notin rows PROVE served[r].misses + 1 <= away'[r]
    <3>1. served[r].misses \in Nat
      BY <2>2 DEF CodexInv, CodexTyped, Maps, Running
    <3>2. served[r].misses < Grace /\ served[r].misses <= away[r]
      BY <2>1, <2>2 DEF RestPatient
    <3>3. away'[r] = IF away[r] + 1 <= Grace THEN away[r] + 1 ELSE Grace
      BY <1>1, <1>3, <2>2
    <3>0. PICK m, a : m = served[r].misses /\ a = away[r]
      OBVIOUS
    <3>4. m = served[r].misses /\ a = away[r] /\ m \in Nat /\ a \in Nat
      <4>1. a \in 0..Grace
        BY <1>3, <2>2, <3>0
      <4> QED BY <3>0, <3>1, <4>1
    <3>5. m + 1 <= IF a + 1 <= Grace THEN a + 1 ELSE Grace
      BY <3>2, <3>4, CodexAssumption
    <3> QED BY <3>3, <3>4, <3>5
  <2>3. StartPatient(served, rows, rows, away')
    BY <2>1, <2>2 DEF StartPatient, RestPatient
  <2>4. Patient(served', task'[c], away')
    BY <1>1, <1>4, <2>3, RowLoopPatient DEF CodexInv, CodexTyped
  <2> QED BY <1>1, <1>4, <1>6, <2>4, GoesOnPatient
<1>8. CASE ~(failed = 0 /\ Managing)
  <2>1. ~(failed' = 0 /\ Managing')
    BY <1>1, <1>6, <1>8 DEF Lands, Managing, CodexInv, OneCall
  <2> QED BY <1>4, <2>1 DEF GraceSound
<1> QED BY <1>7, <1>8

LEMMA SessionStartedPatient ==
  ASSUME CodexInv, GraceSound, NEW c \in Calls, SessionStarted(c)
  PROVE  GraceSound'
<1> DEFINE t == task[c]
           r == Min(t.todo)
           running == [service |-> <<r, made[r] + 1>>, misses |-> 0]
           map == [served EXCEPT ![r] = running]
<1>1. /\ t.at = "start" /\ RowLoop(c, t.todo \ {r}, t.wanted, map)
      /\ failed' = failed /\ away' = away
  BY DEF SessionStarted, threadVars, historyVars
<1>2. \A d \in Calls \ {c} : task[d].at = "idle"
  BY <1>1 DEF CodexInv, OneCall
<1>3. t \in Task /\ t.todo # {}
  BY <1>1 DEF CodexInv, CodexTyped, ServicesSound, CallSound
<1>4. t.todo \in SUBSET Rows /\ t.wanted \in SUBSET Rows /\ r \in t.todo
  BY <1>3, LeastRow DEF Task
<1>5. map \in Maps /\ map[r].misses = 0 /\ \A q \in Rows \ {r} : map[q] = served[q]
  <2>1. r \in Rows /\ made[r] \in Nat
    BY <1>4 DEF CodexInv, CodexTyped
  <2>2. running \in Running /\ running.service[1] = r /\ running.misses = 0
    BY <2>1 DEF Running
  <2> HIDE DEF running
  <2> QED BY <2>1, <2>2 DEF Maps, CodexInv, CodexTyped
<1>6. away \in [Rows -> 0..Grace] /\ t.todo \ {r} \in SUBSET Rows
  BY <1>4 DEF GraceSound
<1>7. Lands(c, {})
  <2>1. Holds(map, {})
    BY DEF Holds
  <2> HIDE DEF map, r, t
  <2> QED BY <1>1, <1>4, <1>5, <1>6, <2>1, RowLoopLands DEF CodexInv
<1>8. CASE failed = 0 /\ Managing
  <2>1. StartPatient(served, t.todo, t.wanted, away)
    BY <1>1, <1>2, <1>8 DEF GraceSound, Patient
  <2>2. StartPatient(map, t.todo \ {r}, t.wanted, away)
    <3>1. r \in t.wanted
      BY <1>4, <2>1 DEF StartPatient
    <3> HIDE DEF map, r, t
    <3>2. \A q \in Rows \ {r} : map[q] # NoService =>
            /\ map[q].misses < Grace
            /\ IF q \in t.wanted THEN q \in t.todo \ {r} \/ map[q].misses = 0 ELSE map[q].misses + 1 <= away[q]
      BY <1>5, <2>1 DEF StartPatient
    <3>3. 0 < Grace /\ t.todo \ {r} \subseteq t.wanted
      BY <2>1, CodexAssumption DEF StartPatient
    <3> QED BY <1>5, <3>1, <3>2, <3>3 DEF StartPatient
  <2>3. Patient(served', task'[c], away)
    <3> HIDE DEF map, r
    <3>1. t.todo \ {r} \in SUBSET Rows /\ t.wanted \in SUBSET Rows
      BY <1>4
    <3> HIDE DEF t
    <3> QED BY <1>1, <1>5, <1>6, <2>2, <3>1, RowLoopPatient DEF CodexInv
  <2> QED BY <1>1, <1>6, <1>7, <2>3, GoesOnPatient
<1>9. CASE ~(failed = 0 /\ Managing)
  <2>1. ~(failed' = 0 /\ Managing')
    BY <1>1, <1>7, <1>9 DEF Lands, Managing, CodexInv, OneCall
  <2> QED BY <1>1, <1>6, <2>1 DEF GraceSound
<1> QED BY <1>8, <1>9

LEMMA SessionStoppedPatient ==
  ASSUME CodexInv, GraceSound, NEW c \in Calls, SessionStopped(c)
  PROVE  GraceSound'
<1> DEFINE t == task[c]
           r == Min(t.todo)
           u == [t EXCEPT !.todo = @ \ {r}]
           map == [served EXCEPT ![r] = NoService]
<1>1. /\ t.at = "stop" /\ StaleLoop(c, u, map) /\ failed' = failed /\ away' = away
  BY DEF SessionStopped, threadVars, historyVars
<1>2. \A d \in Calls \ {c} : task[d].at = "idle"
  BY <1>1 DEF CodexInv, OneCall
<1>3. t \in Task /\ t.todo \subseteq Listed(t.captured)
  BY <1>1 DEF CodexInv, CodexTyped, ServicesSound, CallSound
<1>4. u \in Task /\ u.todo = t.todo \ {r} /\ u.wanted = t.wanted /\ u.captured = t.captured
  BY <1>3 DEF Task
<1>5. map \in Maps /\ \A q \in Rows : map[q] # NoService => map[q] = served[q]
  BY DEF Maps, CodexInv, CodexTyped
<1>6. away \in [Rows -> 0..Grace] /\ u.todo \subseteq Listed(u.captured)
  BY <1>3, <1>4 DEF GraceSound
<1>7. Lands(c, {})
  <2>1. Holds(map, {}) /\ Holds(u.captured, {})
    BY DEF Holds
  <2> HIDE DEF map, r, t, u
  <2> QED BY <1>1, <1>4, <1>5, <1>6, <2>1, StaleLoopLands DEF CodexInv
<1>8. CASE failed = 0 /\ Managing
  <2>1. StopPatient(served, t, away)
    BY <1>1, <1>2, <1>8 DEF GraceSound, Patient
  <2>2. StopPatient(map, u, away)
    <3> HIDE DEF map, r, t, u
    <3> QED BY <1>4, <1>5, <2>1 DEF StopPatient, RestPatient, Unwanted
  <2>3. Patient(served', task'[c], away)
    <3> HIDE DEF map, r, t, u
    <3> QED BY <1>1, <1>4, <1>5, <1>6, <2>2, StaleLoopPatient DEF CodexInv
  <2> QED BY <1>1, <1>6, <1>7, <2>3, GoesOnPatient
<1>9. CASE ~(failed = 0 /\ Managing)
  <2>1. ~(failed' = 0 /\ Managing')
    BY <1>1, <1>7, <1>9 DEF Lands, Managing, CodexInv, OneCall
  <2> QED BY <1>1, <1>6, <2>1 DEF GraceSound
<1> QED BY <1>8, <1>9

LEMMA BeginsPatient ==
  ASSUME CodexInv, GraceSound, NEW c \in Calls, \A d \in Calls : task[d].at = "idle",
         task' = [task EXCEPT ![c] = [Idle EXCEPT !.at = "inventory"]],
         Managing, failed' = failed, away' = away, served' = served
  PROVE  GraceSound'
<1>1. task'[c].at = "inventory"
  BY DEF CodexInv, CodexTyped, Idle
<1>2. away' \in [Rows -> 0..Grace]
  BY DEF GraceSound
<1>3. CASE failed = 0
  <2>1. RestPatient(served, away)
    BY <1>3 DEF GraceSound, Patient, AtRest
  <2>2. Patient(served', task'[c], away')
    BY <1>1, <2>1 DEF Patient, AtRest
  <2> QED BY <1>1, <1>2, <2>2, OnlyCallPatient
<1>4. CASE failed # 0
  BY <1>2, <1>4 DEF GraceSound
<1> QED BY <1>3, <1>4

LEMMA RestPatientToo ==
  ASSUME CodexInv, GraceSound, RescansOverlap = FALSE,
         \/ Start \/ Trigger \/ Stop \/ Halt \/ HaltNext
         \/ \E c \in Calls : SessionFails(c)
         \/ \E c \in Rescans : Rescan(c)
         \/ \E r \in Rows : Change(r)
         \/ UNCHANGED codexVars
  PROVE  GraceSound'
<1> USE DEF threadVars, mapVars, serviceVars, historyVars
<1>0. away' = away /\ away \in [Rows -> 0..Grace]
  <2>1. away' = away
    BY DEF Start, Trigger, Call, Stop, Halt, HaltNext, SessionFails, Rescan, Change, codexVars
  <2> QED BY <2>1 DEF GraceSound
<1>1. CASE Start
  <2>1. \A d \in Calls : task[d].at = "idle"
    BY <1>1 DEF Start, CodexInv, OneCall
  <2> QED BY <1>1, <2>1, BeginsPatient DEF Start, Calls, Managing
<1>2. ASSUME NEW c \in Calls, manager = "up", task[c].at = "idle", Call(c) PROVE GraceSound'
  <2>1. \A d \in Calls : task[d].at = "idle"
    BY <1>2 DEF Call, Alone
  <2> QED BY <1>2, <2>1, BeginsPatient DEF Call, Managing
<1>3. CASE UNCHANGED <<served, task, failed, away, manager>>
  BY <1>3 DEF GraceSound, Managing
<1>4. CASE Trigger
  <2>1. CASE task["poll"].at = "idle"
    BY <1>2, <1>4, <2>1 DEF Trigger, Calls
  <2>2. CASE task["poll"].at # "idle"
    BY <1>3, <1>4, <2>2 DEF Trigger
  <2> QED BY <2>1, <2>2
<1>5. CASE Stop \/ Halt \/ HaltNext
  <2>1. ~Managing'
    BY <1>5 DEF Stop, Halt, HaltNext, StopEach, Managing
  <2> QED BY <1>0, <2>1 DEF GraceSound
<1>6. CASE \E c \in Calls : SessionFails(c)
  <2>1. failed' # 0
    BY <1>6 DEF SessionFails, CodexInv, CodexTyped
  <2> QED BY <1>0, <2>1 DEF GraceSound
<1>7. ASSUME NEW c \in Rescans, Rescan(c) PROVE GraceSound'
  BY <1>2, <1>7 DEF Rescan, Calls
<1>8. CASE (\E r \in Rows : Change(r)) \/ UNCHANGED codexVars
  BY <1>3, <1>8 DEF Change, codexVars
<1> QED BY <1>1, <1>4, <1>5, <1>6, <1>7, <1>8

LEMMA GraceStep ==
  RescansOverlap = FALSE /\ CodexInv /\ GraceSound /\ [CodexNext]_codexVars => GraceSound'
<1> SUFFICES ASSUME RescansOverlap = FALSE, CodexInv, GraceSound, [CodexNext]_codexVars PROVE GraceSound'
  OBVIOUS
<1>1. CASE \E c \in Calls, rows \in SUBSET Rows : Inventory(c, rows)
  BY <1>1, InventoryPatient
<1>2. CASE \E c \in Calls : SessionStarted(c) \/ SessionStopped(c)
  BY <1>2, SessionStartedPatient, SessionStoppedPatient
<1> QED BY <1>1, <1>2, RestPatientToo DEF CodexNext

\* What is stopped while the manager runs is the service of a thread that was
\* away for the whole grace.
LEMMA OnlyStoppedAfterGrace ==
  ASSUME CodexInv, GraceSound, [CodexNext]_codexVars, NEW service \in alive \ alive', failed = 0,
         manager \in {"starting", "up"}
  PROVE  away[service[1]] = Grace
<1>1. PICK c \in Calls : SessionStopped(c)
  <2>1. ~(Halt \/ HaltNext)
    BY DEF Halt, HaltNext
  <2>2. alive \subseteq alive' \/ \E c \in Calls : SessionStopped(c)
    BY <2>1 DEF CodexNext, Start, Trigger, Call, Stop, Inventory, SessionStarted, SessionFails, Rescan, Change,
       serviceVars, codexVars
  <2> QED BY <2>2
<1> DEFINE t == task[c]
           r == Min(t.todo)
<1>2. t.at = "stop" /\ alive' = alive \ {t.captured[r].service}
  BY <1>1 DEF SessionStopped
<1>3. t \in Task /\ \A d \in Calls \ {c} : task[d].at = "idle"
  BY <1>2 DEF CodexInv, CodexTyped, OneCall
<1>4. StopPatient(served, t, away) /\ r \in ToStop(t)
  BY <1>2, <1>3 DEF GraceSound, Managing, Patient
<1>5. t.todo \in SUBSET Rows /\ t.todo \subseteq Listed(t.captured)
  BY <1>2, <1>3 DEF CodexInv, ServicesSound, CallSound, Task
<1>6. r \in Rows /\ t.captured[r] \in Running /\ t.captured[r].service[1] = r
  BY <1>3, <1>4, <1>5 DEF ToStop, Unwanted, Listed, Task, Maps
<1>7. t.captured[r].misses \in Nat /\ away[r] \in 0..Grace
  BY <1>6 DEF Running, GraceSound
<1>8. t.captured[r].misses + 1 >= Grace /\ t.captured[r].misses + 1 <= away[r]
  BY <1>4 DEF ToStop, StopPatient
<1>9. away[r] = Grace
  <2> HIDE DEF r, t
  <2> QED BY <1>7, <1>8, CodexAssumption
<1>10. service = t.captured[r].service
  BY <1>2
<1> QED BY <1>6, <1>9, <1>10

\* A thread never has two services, every one that is registered is one that
\* stop() finds, and a thread that was there when a manager of future sessions
\* started stays private, as long as no rescan overlaps the poll: README, section
\* 6, says what happens otherwise (session-manager.ts: reconcile, stop).
THEOREM ServicesStayMatched ==
  RescansOverlap = FALSE => (CodexSpec => []ServicesMatchThreads)
<1> SUFFICES ASSUME RescansOverlap = FALSE PROVE CodexSpec => []ServicesMatchThreads
  OBVIOUS
<1>1. CodexInv => ServicesMatchThreads
  BY DEF CodexInv, ServicesSound, Managed, Managing, Holds, Private, ServicesMatchThreads,
     RegisteredOnce, ExistingStayPrivate
<1>2. CodexInv /\ [CodexNext]_codexVars => CodexInv'
  BY CodexStep
<1> QED BY <1>1, <1>2, CodexInitial, PTL DEF CodexSpec

\* "Stops its service after the configured grace interval": while the manager
\* runs, and no service failed to start, the service of a thread is stopped only
\* when the thread was missing from as many inventories in a row as the grace
\* allows, however the threads come and go (session-manager.ts: reconcile).
THEOREM StoppedAfterGrace ==
  RescansOverlap = FALSE => (CodexSpec => GraceIsConsecutive)
<1> SUFFICES ASSUME RescansOverlap = FALSE PROVE CodexSpec => GraceIsConsecutive
  OBVIOUS
<1>1. CodexInit => GraceSound
  <2> SUFFICES ASSUME CodexInit PROVE GraceSound
    OBVIOUS
  <2>1. away \in [Rows -> 0..Grace]
    BY CodexAssumption DEF CodexInit
  <2>2. \A c \in Calls : task[c].at = "idle" /\ RestPatient(served, away)
    BY DEF CodexInit, Idle, RestPatient
  <2> QED BY <2>1, <2>2 DEF GraceSound, Patient, AtRest
<1>2. CodexInv /\ [CodexNext]_codexVars => CodexInv'
  BY CodexStep
<1>3. CodexInv /\ GraceSound /\ [CodexNext]_codexVars => GraceSound'
  BY GraceStep
<1>4. CodexInv /\ GraceSound /\ [CodexNext]_codexVars =>
        [\A service \in alive \ alive' :
           (failed = 0 /\ manager \in {"starting", "up"}) => away[service[1]] = Grace]_codexVars
  BY OnlyStoppedAfterGrace
<1> QED BY <1>1, <1>2, <1>3, <1>4, CodexInitial, PTL DEF CodexSpec, GraceIsConsecutive

-----------------------------------------------------------------------------

(***************************************************************************)
(* No trigger is lost, whether or not rescans run beside the poller.  A    *)
(* call that was told of a change after it had read the inventory has      *)
(* `again` to go by when it ends; and the poller is told of nothing before *)
(* the manager is up.                                                      *)
(***************************************************************************)
NoticeSound ==
  /\ DOMAIN task = Calls /\ \A c \in Calls : "at" \in DOMAIN task[c]
  /\ again \in BOOLEAN /\ failed \in Nat
  /\ task["first"].at # "idle" => manager = "starting"
  /\ notice = "told" => manager \notin {"fresh", "starting"}
  /\ failed = 0 /\ manager = "up" /\ notice = "told" =>
       task["poll"].at = "inventory" \/ (again /\ task["poll"].at # "idle")

\* A call goes on: to its next await, or to its end.
GoesOn(c) ==
  \/ /\ \E u : "at" \in DOMAIN u /\ u.at \in {"start", "stop"} /\ task' = [task EXCEPT ![c] = u]
     /\ UNCHANGED <<again, manager>>
  \/ Ended(c)

LEMMA StaleLoopGoesOn ==
  ASSUME NEW c \in Calls, NEW t, "at" \in DOMAIN t, NEW map, StaleLoop(c, t, map)
  PROVE  GoesOn(c)
<1>1. CASE ToStop(t) = {}
  BY <1>1 DEF StaleLoop, GoesOn
<1>2. CASE ToStop(t) # {}
  <2> DEFINE u == [t EXCEPT !.at = "stop", !.todo = From(t.todo, Min(ToStop(t)))]
  <2>1. task' = [task EXCEPT ![c] = u] /\ UNCHANGED <<again, manager>>
    BY <1>2 DEF StaleLoop
  <2>2. "at" \in DOMAIN u /\ u.at = "stop"
    OBVIOUS
  <2> QED BY <2>1, <2>2 DEF GoesOn
<1> QED BY <1>1, <1>2

LEMMA RowLoopGoesOn ==
  ASSUME NEW c \in Calls, NEW todo, NEW wanted, NEW map, RowLoop(c, todo, wanted, map)
  PROVE  GoesOn(c)
<1>1. CASE ToStart(c, todo, map) = {}
  <2> DEFINE seen == Seen(map, todo)
             t == [at |-> "stop", todo |-> Listed(seen), wanted |-> wanted, captured |-> seen]
  <2>1. StaleLoop(c, t, seen)
    BY <1>1 DEF RowLoop
  <2>2. "at" \in DOMAIN t
    OBVIOUS
  <2> HIDE DEF t, seen
  <2> QED BY <2>1, <2>2, StaleLoopGoesOn
<1>2. CASE ToStart(c, todo, map) # {}
  <2> DEFINE r == Min(ToStart(c, todo, map))
             u == [Idle EXCEPT !.at = "start", !.todo = From(todo, r), !.wanted = wanted]
  <2>1. task' = [task EXCEPT ![c] = u] /\ UNCHANGED <<again, manager>>
    BY <1>2 DEF RowLoop
  <2>2. "at" \in DOMAIN u /\ u.at = "start"
    BY DEF Idle
  <2> QED BY <2>1, <2>2 DEF GoesOn
<1> QED BY <1>1, <1>2

\* Where a call goes on, the poller's has asked for an inventory again if it was told.
LEMMA GoingOnKeepsNotice ==
  ASSUME NoticeSound, NEW c \in Calls, task[c].at # "idle", GoesOn(c), UNCHANGED failed,
         \/ UNCHANGED notice /\ task[c].at # "inventory"
         \/ notice' = IF c = "poll" THEN "none" ELSE notice
  PROVE  NoticeSound'
<1>1. "poll" \in Calls /\ "first" \in Calls /\ DOMAIN task = Calls
  BY DEF Calls, NoticeSound
<1>2. CASE Ended(c)
  <2>1. PICK u \in {Idle, [Idle EXCEPT !.at = "inventory"]} :
          /\ task' = [task EXCEPT ![c] = u]
          /\ u = IF c = "poll" /\ again /\ manager \in {"starting", "up"}
                 THEN [Idle EXCEPT !.at = "inventory"] ELSE Idle
    BY <1>2 DEF Ended
  <2>2. "at" \in DOMAIN u /\ u.at = IF c = "poll" /\ again /\ manager \in {"starting", "up"}
                                    THEN "inventory" ELSE "idle"
    BY <2>1 DEF Idle
  <2>3. /\ again' = IF c = "poll" THEN FALSE ELSE again
        /\ manager' = IF c = "first" THEN "up" ELSE manager
    BY <1>2 DEF Ended
  <2>4. /\ DOMAIN task' = Calls /\ task'[c] = u
        /\ \A d \in Calls \ {c} : task'[d] = task[d]
    BY <1>1, <2>1
  <2> QED BY <1>1, <2>2, <2>3, <2>4 DEF NoticeSound
<1>3. CASE ~Ended(c)
  <2>1. PICK u : /\ "at" \in DOMAIN u /\ u.at \in {"start", "stop"}
                 /\ task' = [task EXCEPT ![c] = u] /\ UNCHANGED <<again, manager>>
    BY <1>3 DEF GoesOn
  <2>2. /\ DOMAIN task' = Calls /\ task'[c] = u
        /\ \A d \in Calls \ {c} : task'[d] = task[d]
    BY <1>1, <2>1
  <2> QED BY <1>1, <2>1, <2>2 DEF NoticeSound
<1> QED BY <1>2, <1>3

LEMMA NoticeStep == NoticeSound /\ [CodexNext]_codexVars => NoticeSound'
<1> SUFFICES ASSUME NoticeSound, [CodexNext]_codexVars PROVE NoticeSound'
  OBVIOUS
<1> USE DEF threadVars, mapVars, serviceVars, historyVars
<1>0. /\ "poll" \in Calls /\ "first" \in Calls /\ DOMAIN task = Calls
      /\ "at" \in DOMAIN Idle /\ Idle.at = "idle"
      /\ "at" \in DOMAIN [Idle EXCEPT !.at = "inventory"]
      /\ [Idle EXCEPT !.at = "inventory"].at = "inventory"
  BY DEF Calls, NoticeSound, Idle
<1>1. CASE Start
  <2>1. /\ DOMAIN task' = Calls /\ task'["first"] = [Idle EXCEPT !.at = "inventory"]
        /\ \A d \in Calls \ {"first"} : task'[d] = task[d]
    BY <1>0, <1>1 DEF Start
  <2> QED BY <1>0, <1>1, <2>1 DEF Start, NoticeSound
<1>2. CASE Trigger
  <2>1. CASE task["poll"].at = "idle"
    <3>1. /\ DOMAIN task' = Calls /\ task'["poll"] = [Idle EXCEPT !.at = "inventory"]
          /\ \A d \in Calls \ {"poll"} : task'[d] = task[d]
      BY <1>0, <1>2, <2>1 DEF Trigger, Call
    <3> QED BY <1>0, <1>2, <2>1, <3>1 DEF Trigger, Call, NoticeSound
  <2>2. CASE task["poll"].at # "idle"
    BY <1>2, <2>2 DEF Trigger, NoticeSound
  <2> QED BY <2>1, <2>2
<1>3. ASSUME NEW c \in Rescans, Rescan(c) PROVE NoticeSound'
  <2>1. c \in Calls \ {"first", "poll"}
    BY CodexAssumption DEF Calls
  <2>2. /\ DOMAIN task' = Calls /\ task'[c] = [Idle EXCEPT !.at = "inventory"]
        /\ \A d \in Calls \ {c} : task'[d] = task[d]
    BY <1>0, <1>3, <2>1 DEF Rescan, Call
  <2> QED BY <1>0, <1>3, <2>1, <2>2 DEF Rescan, Call, NoticeSound
<1>4. CASE Stop \/ Halt \/ HaltNext
  <2>1. manager' \in {"stopping", "halting", "stopped"} /\ manager \in {"up", "stopping", "halting"}
        /\ UNCHANGED <<task, again, failed, notice>>
    BY <1>4 DEF Stop, Halt, HaltNext, StopEach
  <2> QED BY <2>1 DEF NoticeSound
<1>5. ASSUME NEW c \in Calls, NEW rows \in SUBSET Rows, Inventory(c, rows) PROVE NoticeSound'
  BY <1>5, RowLoopGoesOn, GoingOnKeepsNotice DEF Inventory
<1>6. ASSUME NEW c \in Calls, SessionStarted(c) PROVE NoticeSound'
  BY <1>6, RowLoopGoesOn, GoingOnKeepsNotice DEF SessionStarted
<1>7. ASSUME NEW c \in Calls, SessionStopped(c) PROVE NoticeSound'
  <2>1. "at" \in DOMAIN [task[c] EXCEPT !.todo = @ \ {Min(task[c].todo)}]
    BY DEF NoticeSound
  <2> QED BY <1>7, <2>1, StaleLoopGoesOn, GoingOnKeepsNotice DEF SessionStopped
<1>8. ASSUME NEW c \in Calls, SessionFails(c) PROVE NoticeSound'
  <2>1. /\ DOMAIN task' = Calls /\ task'[c] = Idle
        /\ \A d \in Calls \ {c} : task'[d] = task[d]
    BY <1>0, <1>8 DEF SessionFails
  <2>2. failed' # 0 /\ failed' \in Nat
    BY <1>8 DEF SessionFails, NoticeSound
  <2> QED BY <1>0, <1>8, <2>1, <2>2 DEF SessionFails, NoticeSound
<1>9. CASE (\E r \in Rows : Change(r)) \/ UNCHANGED codexVars
  BY <1>9 DEF Change, codexVars, NoticeSound
<1> QED BY <1>1, <1>2, <1>3, <1>4, <1>5, <1>6, <1>7, <1>8, <1>9 DEF CodexNext

\* "Bounded polling catches missed events": a trigger that comes while a call works
\* on an older inventory is coalesced, never lost, whether or not other calls of
\* reconcile() run beside the poller's (session-watch.ts: trigger, #drain).
THEOREM TriggersStayKept == CodexSpec => []TriggersAreKept
<1>1. CodexInit => NoticeSound
  <2> SUFFICES ASSUME CodexInit PROVE NoticeSound
    OBVIOUS
  <2>1. /\ DOMAIN task = Calls /\ \A c \in Calls : task[c] = Idle
        /\ "poll" \in Calls /\ "first" \in Calls
        /\ "at" \in DOMAIN Idle /\ Idle.at = "idle"
    BY DEF CodexInit, Calls, Idle
  <2> QED BY <2>1 DEF CodexInit, NoticeSound
<1>2. NoticeSound => TriggersAreKept
  BY DEF NoticeSound, TriggersAreKept
<1> QED BY <1>1, <1>2, NoticeStep, PTL DEF CodexSpec
=============================================================================
