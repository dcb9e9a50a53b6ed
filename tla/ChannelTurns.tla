---------------------------- MODULE ChannelTurns ----------------------------
(***************************************************************************)
(* How a channel runs overlapping prompts on its one agent process: the    *)
(* managed ACP runtime (agents/acp/src/managed-runtime.ts), the OpenCode   *)
(* plugin (agents/opencode/src/plugin/prompt.ts) and the managed Codex     *)
(* runtime (agents/codex/src/managed-runtime.ts with the app-server client *)
(* and its JSON-RPC).  ACP and OpenCode make prompts wait for each other;  *)
(* Codex does not.  What the agent says of its turns - text, the end, an   *)
(* error, a request for permission - comes back in order and is handed to  *)
(* whoever listens then; the result of OpenCode's prompt() call comes back *)
(* on its own, before or after it.  The agent is the environment.          *)
(***************************************************************************)
EXTENDS Naturals, FiniteSets, Sequences

CONSTANTS
    Overlapping, \* prompts the channel is given
    Runtimes,    \* which of the runtimes are considered
    Asking,      \* those whose agent asks for permission
    Leaving,     \* those whose caller side may give up on a prompt under way:
                 \* a send that fails, a question that times out
    LateEvents,  \* whether events of an OpenCode turn that has ended may still be
                 \* under way when the next turn of the session begins
    MaxTexts,    \* bound on the pieces of text of a turn
    NoPrompt

ASSUME RuntimesAssumption == Asking \subseteq Runtimes /\ Runtimes \subseteq {"acp", "opencode", "codex"}

VARIABLES
    runtime,     \* the channel that runs
    line,        \* prompts that hold or wait for the turn lock (Codex has none)
    stage,       \* "new" | "waiting" | "turn" | "answered" | "failed" | "left"
    asks,        \* the permission handler or sink: the prompt whose caller it asks
    turns,       \* turns the agent is working on
    news,        \* what it has said and nobody has taken:
                 \* <<turn, "text" | "ask" | "stop" | "error">>
    returned,    \* OpenCode: how the prompt() call of a turn returned: "no" | "ok" | "error"
    crashed,     \* the process is gone, and its exit has been seen
    said,        \* pieces of text of each turn
    got,         \* history: the turns whose text, and whose end, a prompt was given
    asked        \* history: <<turn, prompt whose caller was asked for permission>>

turnVars == <<runtime, line, stage, asks, turns, news, returned, crashed, said, got, asked>>
agentSide == <<turns, news, returned, crashed, said>>

TurnsInit ==
    /\ runtime \in Runtimes
    /\ line = <<>> /\ stage = [p \in Overlapping |-> "new"] /\ asks = NoPrompt
    /\ turns = {} /\ news = <<>> /\ returned = [p \in Overlapping |-> "no"] /\ crashed = FALSE
    /\ said = [p \in Overlapping |-> 0]
    /\ got = [p \in Overlapping |-> {}] /\ asked = {}

\* A Codex prompt sends turn/start at once, its caller becoming the one that is asked.
Arrives(p) ==
    /\ stage[p] = "new"
    /\ stage' = [stage EXCEPT ![p] = "waiting"]
    /\ line' = IF runtime = "codex" THEN line ELSE Append(line, p)
    /\ asks' = IF runtime = "codex" THEN p ELSE asks
    /\ UNCHANGED <<runtime, agentSide, got, asked>>

\* Fault: prompts do not wait for each other.
HasTurnAtOnce(p) == TRUE

\* #acquireTurn, acquireSessionPromptLock: each waits for the one before it.
HasTurn(p) == runtime # "codex" => Head(line) = p

\* The agent begins the turn; where there is a lock, its caller is asked from now on.
TurnStarts(p) ==
    /\ stage[p] = "waiting" /\ HasTurn(p) /\ ~crashed
    /\ LateEvents \/ runtime # "opencode" \/ news = <<>>
    /\ stage' = [stage EXCEPT ![p] = "turn"]
    /\ asks' = IF runtime = "codex" THEN asks ELSE p
    /\ turns' = turns \cup {p}
    /\ UNCHANGED <<runtime, line, news, returned, crashed, said, got, asked>>

\* The generator ends: the finally blocks forget the handler and release the lock,
\* which only a prompt that holds it gets to.
Ends(p, how) ==
    /\ stage' = [stage EXCEPT ![p] = how]
    /\ asks' = NoPrompt
    /\ line' = IF runtime = "codex" THEN line ELSE Tail(line)

\* Who takes what is said of turn q: with Codex the turn with that id, else the
\* prompt whose turn it is, whatever turn it was said of.
Takers(q) == {p \in Overlapping : stage[p] = "turn" /\ (runtime = "codex" => p = q)}

\* The first of the news can be taken.  ACP's are queued for whoever reads the session,
\* and an exit that has been seen wins over what is queued; what OpenCode and Codex
\* say when nobody listens is lost.
CanTake(kinds) ==
    /\ news # <<>> /\ Head(news)[2] \in kinds
    /\ runtime = "acp" => ~crashed /\ Takers(Head(news)[1]) # {}

Text ==
    /\ CanTake({"text"})
    /\ got' = [p \in Overlapping |->
                 IF p \in Takers(Head(news)[1]) THEN got[p] \cup {Head(news)[1]} ELSE got[p]]
    /\ news' = Tail(news)
    /\ UNCHANGED <<runtime, line, stage, asks, turns, returned, crashed, said, asked>>

\* How a turn ends by what was said.
EndOf(kind) == IF kind = "stop" THEN "answered" ELSE "failed"

\* "stop", session.idle, turn/completed; the rejected session/prompt, session.error, error.
Stopped ==
    /\ CanTake({"stop", "error"})
    /\ news' = Tail(news)
    /\ IF Takers(Head(news)[1]) = {} THEN UNCHANGED <<line, stage, asks, got>>
       ELSE LET p == CHOOSE p \in Takers(Head(news)[1]) : TRUE IN
            /\ Ends(p, EndOf(Head(news)[2]))
            /\ got' = [got EXCEPT ![p] = @ \cup {Head(news)[1]}]
    /\ UNCHANGED <<runtime, turns, returned, crashed, said, asked>>

\* A request for permission goes to the handler of the moment; without one it is denied.
Asked ==
    /\ news # <<>> /\ Head(news)[2] = "ask"
    /\ asked' = asked \cup {<<Head(news)[1], asks>>}
    /\ news' = Tail(news)
    /\ UNCHANGED <<runtime, line, stage, asks, turns, returned, crashed, said, got>>

\* OpenCode: prompt() returns, and its text and the end, or its error, go to the
\* queue of the prompt that called it; an event may have ended that one before.
ResultArrives(p) ==
    /\ returned[p] # "no"
    /\ returned' = [returned EXCEPT ![p] = "no"]
    /\ IF stage[p] = "turn"
       THEN /\ Ends(p, EndOf(IF returned[p] = "ok" THEN "stop" ELSE "error"))
            /\ got' = [got EXCEPT ![p] = @ \cup {p}]
       ELSE UNCHANGED <<line, stage, asks, got>>
    /\ UNCHANGED <<runtime, turns, news, crashed, said, asked>>

\* Fault: an exit of the process is not raced against what a turn waits for.
FailsUnlessRunning(p) == crashed /\ stage[p] = "waiting"

\* The call that would begin a turn fails when the process is gone; a turn under way
\* notices the exit with ACP only.
FailsWith(p) == crashed /\ (stage[p] = "waiting" \/ (stage[p] = "turn" /\ runtime = "acp"))

Fails(p) ==
    /\ FailsWith(p) /\ HasTurn(p)
    /\ Ends(p, "failed")
    /\ UNCHANGED <<runtime, agentSide, got, asked>>

\* Codex: turn/start is refused, or not answered in time; then the turn may run.
Refused(p) ==
    /\ runtime = "codex" /\ stage[p] = "waiting" /\ ~crashed
    /\ Ends(p, "failed")
    /\ turns' \in {turns, turns \cup {p}}
    /\ UNCHANGED <<runtime, news, returned, crashed, said, got, asked>>

\* Codex: "turn timed out before completion", the only end of a turn whose process exits.
TimesOut(p) ==
    /\ runtime = "codex" /\ stage[p] = "turn"
    /\ Ends(p, "failed")
    /\ UNCHANGED <<runtime, agentSide, got, asked>>

\* The bridge gives the prompt up while its turn runs on; nobody tells the agent.
Leaves(p) ==
    /\ stage[p] = "turn" /\ runtime \in Leaving
    /\ Ends(p, "left")
    /\ UNCHANGED <<runtime, agentSide, got, asked>>

(***************************************************************************)
(* The agent.                                                              *)
(***************************************************************************)
Says(p, kind) ==
    /\ p \in turns
    /\ news' = Append(news, <<p, kind>>)
    /\ UNCHANGED <<runtime, line, stage, asks, crashed, got, asked>>
AgentTexts(p) ==
    /\ said[p] < MaxTexts /\ said' = [said EXCEPT ![p] = @ + 1]
    /\ Says(p, "text") /\ UNCHANGED <<turns, returned>>
AgentAsks(p) ==
    /\ runtime \in Asking
    /\ said[p] < MaxTexts /\ said' = [said EXCEPT ![p] = @ + 1]
    /\ Says(p, "ask") /\ UNCHANGED <<turns, returned>>
\* Its last words on a turn, and how OpenCode's prompt() call returns.
LastWords ==
    CASE runtime = "acp"      -> {<<"stop">>, <<"error">>} \X {"no"}
      [] runtime = "codex"    -> {<<"stop">>, <<"error">>, <<"error", "stop">>} \X {"no"}
      [] runtime = "opencode" -> {<<>>, <<"stop">>, <<"error">>, <<"error", "stop">>} \X {"ok", "error"}
AgentEnds(p) ==
    /\ p \in turns
    /\ turns' = turns \ {p}
    /\ \E words \in LastWords :
         /\ news' = news \o [n \in DOMAIN words[1] |-> <<p, words[1][n]>>]
         /\ returned' = [returned EXCEPT ![p] = words[2]]
    /\ UNCHANGED <<runtime, line, stage, asks, crashed, said, got, asked>>
Crash ==
    /\ runtime # "opencode" /\ ~crashed
    /\ crashed' = TRUE /\ turns' = {}
    /\ UNCHANGED <<runtime, line, stage, asks, news, returned, said, got, asked>>

TurnsNext ==
    \/ \E p \in Overlapping : Arrives(p) \/ TurnStarts(p) \/ ResultArrives(p)
                             \/ Fails(p) \/ Refused(p) \/ TimesOut(p) \/ Leaves(p)
    \/ Text \/ Stopped \/ Asked
    \/ \E p \in Overlapping : AgentTexts(p) \/ AgentAsks(p) \/ AgentEnds(p)
    \/ Crash

\* A turn comes to its end and what was said of it is read; an exit is noticed, by
\* Codex when a turn's time is up.
TurnsFairness ==
    /\ \A p \in Overlapping : /\ WF_turnVars(TurnStarts(p)) /\ WF_turnVars(AgentEnds(p))
                              /\ WF_turnVars(ResultArrives(p)) /\ WF_turnVars(Fails(p))
                              /\ WF_turnVars(TimesOut(p))
    /\ WF_turnVars(Text) /\ WF_turnVars(Stopped) /\ WF_turnVars(Asked)
TurnsSpec == TurnsInit /\ [][TurnsNext]_turnVars /\ TurnsFairness

-----------------------------------------------------------------------------

\* "ACP allows one in-flight session/prompt per session; serialize turns": the
\* agent never works on two turns of one session.
OneTurnInFlight == runtime # "codex" => Cardinality(turns) <= 1

\* However prompts overlap, a caller is given the text and the end of its own
\* turn only, and no caller is asked to permit what another one's turn wants.
EachCallerItsOwnTurn ==
    /\ \A p \in Overlapping : got[p] \subseteq {p}
    /\ \A pair \in asked : pair[2] \in {pair[1], NoPrompt}

\* Every prompt comes to an end, so that none is left: the lock is passed on by a
\* turn that is answered, fails or is given up, and "a crashed agent surfaces as
\* a rejected promise instead of a hang" - with Codex, when the turn's time is up.
TurnsComeToAnEnd == []<>(\A p \in Overlapping : stage[p] \notin {"waiting", "turn"})

\* A channel's turns are kept apart: one at a time where the agent can work on one,
\* and each with the caller that asked for it (acp, opencode, codex: bridge.ts).
TurnsAreApart == OneTurnInFlight /\ EachCallerItsOwnTurn
=============================================================================
