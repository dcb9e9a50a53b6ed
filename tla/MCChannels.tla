------------------------------ MODULE MCChannels ------------------------------
(***************************************************************************)
(* What stands between callers and an agent they do not talk to directly:  *)
(* the turns of a channel's agent process (ChannelTurns), the services the *)
(* Codex channel has for its threads (CodexSessions), and the prompts of an*)
(* interactive PI session (PiChannel).  They share no state, so a behaviour*)
(* is one of one of them; what is fair of the others is not enabled where  *)
(* they start.                                                             *)
(***************************************************************************)
EXTENDS ChannelTurns, CodexSessions, PiChannel

CONSTANT CodexPrompts \* the prompts a Codex channel is given: they do not wait for each
                      \* other, and a third one multiplies what two already do

VARIABLE part    \* what the behaviour is of

channelsVars == <<part, turnVars, codexVars, vars>>

ChannelsInit ==
    /\ TurnsInit /\ CodexInit /\ Init
    /\ part \in {"turns", "threads", "pi"}
    /\ part = "turns" \/ runtime = CHOOSE r \in Runtimes : TRUE
    /\ part = "threads" \/ eligible = {}

ChannelsNext ==
    /\ \/ /\ part = "turns" /\ TurnsNext /\ UNCHANGED <<codexVars, vars>>
          /\ runtime = "codex" => \A p \in Overlapping \ CodexPrompts : stage'[p] = "new"
       \/ part = "threads" /\ CodexNext /\ UNCHANGED <<turnVars, vars>>
       \/ part = "pi" /\ Next /\ UNCHANGED <<turnVars, codexVars>>
    /\ UNCHANGED part

ChannelsSpec ==
    ChannelsInit /\ [][ChannelsNext]_channelsVars /\ TurnsFairness /\ CodexFairness /\ Fairness

\* Nobody is left waiting for an agent that is done or gone: every turn comes to
\* its end, and the services of the threads catch up with them in the end
\* (managed-runtime.ts: runTurn; session-manager.ts: reconcile, future watch).
ChannelsCatchUp == TurnsComeToAnEnd /\ PollingCatchesUp
=============================================================================
