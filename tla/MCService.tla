------------------------------- MODULE MCService -------------------------------
(***************************************************************************)
(* A service as the network sees it: its beats (HeartbeatLiveness), the    *)
(* gate a request passes (SenderGate), its dispatch (PromptDispatch alone, *)
(* with more of everything than the exchange affords), the same on a clock *)
(* (PromptTiming), and the resolver that tells who sent it                 *)
(* (SenderResolver).  No two of them share state here, so a behaviour is   *)
(* one of one of them and the others rest.                                 *)
(***************************************************************************)
EXTENDS HeartbeatLiveness, PromptDispatch, SenderGate, SenderResolver, TLC

CONSTANTS Lossy, KeepAliveTicks, InactivityTicks, a, b

VARIABLES at, outcome, cancelled, aborted, published, stopped, buffer, got,
          delivered, arrived, replies, replied, sinceAck, quiet,
          part    \* the component the behaviour is of

\* On the clock the handler sends no chunk and asks once.
Timed == INSTANCE PromptTiming WITH MaxNext <- 1, MaxChunks <- 0, MaxQuestions <- 1, MaxAcks <- 2

ASSUME Timed!TicksAssumption

callerVars   == <<at, outcome, cancelled, aborted, published, stopped, buffer, got,
                  delivered, arrived, replies, replied, sinceAck, quiet>>
serviceVars  == <<part, vars, hostVars, callerVars, gateVars, resolverVars>>

\* Two instances that beat at different rates: two beats of the first may be
\* lost and none is late, so that one arrives exactly at the slack; one beat of
\* the second may be lost, and each may be late.
Intervals == (a :> 2) @@ (b :> 3)
Losses    == (a :> 2) @@ (b :> 1)
Delays    == (a :> 0) @@ (b :> 1)

\* The SDKs' defaults, 30 s and 60 s, in units of 30 s
\* (DEFAULT_KEEPALIVE_INTERVAL_S, DEFAULT_STREAM_INACTIVITY_TIMEOUT_MS).
DefaultKeepAlive  == 1
DefaultInactivity == 2 * DefaultKeepAlive

\* Nothing tells one caller, or one message that carries a good signature, from
\* another.
Alike == Permutations(Messages \ Odd) \cup Permutations(Callers)

\* Two instances of one identity.
SharedId == [i \in Registered |-> "d"]

\* The parts that rest do so in one of their initial states.
GateAtRest ==
  /\ GateInit
  /\ gateHost = (CHOOSE h \in Hosts : TRUE) /\ minSenderTrust = "any"
  /\ \A m \in Messages : header[m] = [kind |-> "signed", nonce |-> CHOOSE n \in Nonces : TRUE,
                                     ts |-> CHOOSE s \in Stamps : TRUE]

ResolverAtRest == ResolverInit /\ listed = {}

CallerAtRest ==
  /\ Timed!StreamInit
  /\ delivered = 0 /\ arrived = <<>> /\ replies = {} /\ replied = {}
  /\ sinceAck = 0 /\ quiet = 0

ServiceInit ==
  /\ Init
  /\ \/ part \in {"beats", "timed"} /\ Timed!TimedInit /\ GateAtRest /\ ResolverAtRest
     \/ part = "host" /\ HostInit /\ CallerAtRest /\ GateAtRest /\ ResolverAtRest
     \/ part = "gate" /\ Timed!TimedInit /\ GateInit /\ ResolverAtRest
     \/ part = "resolver" /\ Timed!TimedInit /\ GateAtRest /\ ResolverInit

ServiceNext ==
  /\ \/ part = "beats" /\ Next /\ UNCHANGED <<hostVars, callerVars, gateVars, resolverVars>>
     \/ part = "timed" /\ Timed!TimedNext /\ UNCHANGED <<vars, gateVars, resolverVars>>
     \/ part = "host" /\ (HostNext \/ AnyReply)
                      /\ UNCHANGED <<vars, callerVars, gateVars, resolverVars>>
     \/ part = "gate" /\ GateNext /\ UNCHANGED <<vars, hostVars, callerVars, resolverVars>>
     \/ part = "resolver" /\ ResolverNext
                          /\ UNCHANGED <<vars, hostVars, callerVars, gateVars>>
  /\ UNCHANGED part

ServiceSpec == ServiceInit /\ [][ServiceNext]_serviceVars

\* A handler that takes its time never stalls its caller (service.ts:
\* ackAndKeepAlive; inactivity.ts).
SlowHandlerNeverStalls == Timed!SlowHandlerNeverStalls
=============================================================================
