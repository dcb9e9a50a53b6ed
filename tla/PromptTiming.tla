------------------------------ MODULE PromptTiming ------------------------------
(***************************************************************************)
(* The exchange of a prompt with its two interval timers on a common       *)
(* clock: the host's keep-alive, armed by serve (service.ts), and the      *)
(* caller's inactivity timer, armed by every it.next() (inactivity.ts).    *)
(* Between two ticks the network delivers what was sent and every task     *)
(* that can run does; a timer that is due fires before the next tick.      *)
(***************************************************************************)
EXTENDS PromptExchange

CONSTANTS
  KeepAliveTicks,    \* keepaliveIntervalS
  InactivityTicks    \* inactivityTimeoutMs

(* The SDK's defaults are 30 s and 60 s.                                   *)
TicksAssumption == /\ KeepAliveTicks \in Nat \ {0}
                   /\ InactivityTicks \in Nat
                   /\ KeepAliveTicks < InactivityTicks

VARIABLES
  sinceAck,   \* ticks since the keep-alive timer was armed or last fired
  quiet       \* ticks since the inactivity timer was armed

timedVars == <<exchangeVars, sinceAck, quiet>>

TimedInit == ExchangeInit /\ sinceAck = 0 /\ quiet = 0

(* Arming a timer starts it from nothing.                                  *)
Rearm ==
  /\ sinceAck' = IF timer' /\ ~timer THEN 0 ELSE sinceAck
  /\ quiet' = IF at' = "reading" /\ at # "reading" THEN 0 ELSE quiet

Task ==
  /\ \/ published /\ HostTask /\ UNCHANGED <<streamVars, netVars>>
     \/ StreamTask /\ UNCHANGED <<hostVars, netVars>>
     \/ Deliver
     \/ ReplyToQuery
     \/ ReplyArrives
  /\ Rearm

KeepAliveFires ==
  /\ sinceAck = KeepAliveTicks
  /\ KeepAliveTick
  /\ sinceAck' = 0
  /\ UNCHANGED <<streamVars, netVars, quiet>>

StallFires ==
  /\ quiet = InactivityTicks
  /\ Stall
  /\ UNCHANGED <<hostVars, netVars, sinceAck, quiet>>

(* Time passes only when no frame is on its way, no frame or end of the    *)
(* iterator waits to be taken, and no timer is due.                        *)
ClockTicks ==
  /\ delivered = Len(frames)
  /\ at = "reading" => buffer = <<>> /\ ~stopped /\ quiet < InactivityTicks
  /\ timer => sinceAck < KeepAliveTicks
  /\ sinceAck' = IF timer THEN sinceAck + 1 ELSE sinceAck
  /\ quiet' = IF at = "reading" THEN quiet + 1 ELSE quiet
  /\ UNCHANGED exchangeVars

TimedNext == Task \/ KeepAliveFires \/ StallFires \/ ClockTicks

TimedSpec == TimedInit /\ [][TimedNext]_timedVars

-----------------------------------------------------------------------------
(* A slow handler never stalls its caller: once the leading ack has been   *)
(* seen, as long as the host's connection lives and the keep-alive is on,  *)
(* the inactivity timer does not fire while dispatchPrompt waits for the   *)
(* handler, be it working or waiting for the caller's own answer.          *)
SlowHandlerNeverStalls ==
  [][ /\ outcome = "none"
      /\ outcome' = "stalled"
      /\ got # <<>>
      /\ connected
      /\ KeepAlive
      => ~(phase = "serving" /\ handler = "running") ]_timedVars
=============================================================================
