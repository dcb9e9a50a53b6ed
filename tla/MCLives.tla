-------------------------------- MODULE MCLives --------------------------------
(***************************************************************************)
(* Things that are started and stopped: an agent service and its beats     *)
(* (ServiceLifecycle), the OpenClaw account (OpenClawGateway), the         *)
(* extensions of a channel (ExtensionPoint), the sessions of the headless  *)
(* hosts (HeadlessSessions), and what the web UI shows of agents that come *)
(* and go (WebBridge).  They share no state here, so a behaviour is one of *)
(* one of them and the others rest where they start.                       *)
(***************************************************************************)
EXTENDS ServiceLifecycle, OpenClawGateway, ExtensionPoint, HeadlessSessions, WebBridge

VARIABLE part    \* the component the behaviour is of

\* Two lives: the second may meet what the first left behind.
Lives == 2

\* Three beats in each life: one at its signer, one that a tick finds there,
\* and the one after it.
BeatsPerLife == 3
BeatBound    == Lives * BeatsPerLife

livesVars == <<part, vars, gatewayVars, extensionVars, headlessVars, bridgeVars>>

LivesInit ==
  /\ Init /\ GatewayInit /\ ExtensionInit /\ HeadlessInit /\ BridgeInit
  /\ part \in {"service", "gateway", "extensions", "sessions", "bridge"}
  /\ part = "extensions" \/ harness = CHOOSE h \in Harnesses : TRUE
  /\ part = "sessions" \/ host = CHOOSE h \in Hosts : TRUE

LivesNext ==
  /\ \/ /\ part = "service" /\ Next
        /\ UNCHANGED <<gatewayVars, extensionVars, headlessVars, bridgeVars>>
     \/ /\ part = "gateway" /\ GatewayNext
        /\ UNCHANGED <<vars, extensionVars, headlessVars, bridgeVars>>
     \/ /\ part = "extensions" /\ ExtensionNext
        /\ UNCHANGED <<vars, gatewayVars, headlessVars, bridgeVars>>
     \/ /\ part = "sessions" /\ HeadlessNext
        /\ UNCHANGED <<vars, gatewayVars, extensionVars, bridgeVars>>
     \/ /\ part = "bridge" /\ BridgeNext
        /\ UNCHANGED <<vars, gatewayVars, extensionVars, headlessVars>>
  /\ UNCHANGED part

Of(component, A) == part = component /\ A

\* The fairness of each, of its own behaviours (nobody is online where the bridge rests).
LivesFairness ==
  /\ \A s \in Starts : WF_vars(Of("service", StartSteps(s))) /\ WF_vars(Of("service", Tick(s)))
  /\ \A p \in Stops : WF_vars(Of("service", Drained(p)))
  /\ WF_vars(Of("service", \E b \in signing : SignerDone(b)))
  /\ WF_gatewayVars(Of("gateway", CleanupGoesOn))
  /\ \A c \in Callers : WF_gatewayVars(Of("gateway", Rejoin(c)))
  /\ \A s \in AccountStarts : /\ WF_gatewayVars(Of("gateway", StartGoesOn(s)))
                              /\ WF_gatewayVars(Of("gateway", LateStopped(s)))
  /\ \A r \in Requests : /\ WF_headlessVars(Of("sessions", Staged(r)))
                         /\ WF_headlessVars(Of("sessions", HandlerCloses(r)))
                         /\ WF_headlessVars(Of("sessions", TurnEnds(r, "failed")))
  /\ \A s \in Sessions : /\ WF_headlessVars(Of("sessions", Wake(s)))
                         /\ WF_headlessVars(Of("sessions", HandlersClosed(s)))
                         /\ WF_headlessVars(Of("sessions", SessionStopped(s)))
  /\ BridgeFairness

LivesSpec == LivesInit /\ [][LivesNext]_livesVars /\ LivesFairness
=============================================================================
