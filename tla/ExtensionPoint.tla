---------------------------- MODULE ExtensionPoint ----------------------------
(***************************************************************************)
(* The extension point of the PI, OpenClaw and Claude Code channels        *)
(* (extensions.ts, one contract in three copies): modules are loaded one   *)
(* by one, told that the channel has started and is stopping, and wrap its *)
(* steps, the first loaded outermost.                                      *)
(*                                                                         *)
(* A wrapper is anybody's code.  It may call `run` any number of times, at *)
(* once or from a continuation, throw, swallow what the step threw, return *)
(* what it likes or a promise of its own; the step may throw, or return a  *)
(* promise that rejects.                                                   *)
(***************************************************************************)
EXTENDS Integers, FiniteSets

CONSTANTS
  Entries,     \* how many extensions are named
  Harnesses    \* of "pi", "openclaw", "claude-code"

ASSUME ExtensionPointAssumption ==
  Entries \in Nat /\ Harnesses \subseteq {"pi", "openclaw", "claude-code"}

VARIABLES
  harness,
  channel,   \* what the channel is at: "loading", "starting", "serving", "stopping", "off", "refused"
  entry,     \* the entry being loaded
  plugged,   \* the extensions that were loaded
  hook,      \* per extension: its started() or stopping() hook
  at,        \* who runs in the wrapped call: 0 the plugin, Entries + 1 the step
  ret,       \* what is being returned to `at`: "value", "throw", or "none" for a call
  wrapper,   \* per extension: "out", "in", "below", "guard" or "over"
  called,    \* per extension: whether its `run` was called
  threw,     \* per extension: whether that call threw
  runs,      \* how often the step ran
  outcome,   \* what the step did: "none", "value" or "throw"
  settles,   \* the promise the step returned: "none", "pending", "fulfilled", "rejected"
  result,    \* what the plugin got
  own,       \* per extension: the promise its wrapper returned
  watched,   \* those whose promise the plugin observes
  unhandled  \* those whose promise was rejected with nobody observing it

hookVars  == <<channel, entry, plugged, hook>>
callVars  == <<at, ret, wrapper, called, threw>>
stepVars  == <<runs, outcome, settles, result>>
asyncVars == <<own, watched, unhandled>>
extensionVars == <<harness, hookVars, callVars, stepVars, asyncVars>>

Slots == 1..Entries

ExtensionInit ==
  /\ harness \in Harnesses
  /\ channel = "loading" /\ entry = 1 /\ plugged = {}
  /\ hook = [l \in Slots |-> "none"]
  /\ at = 0 /\ ret = "none"
  /\ wrapper = [l \in Slots |-> "out"]
  /\ called = [l \in Slots |-> FALSE] /\ threw = [l \in Slots |-> FALSE]
  /\ runs = 0 /\ outcome = "none" /\ settles = "none" /\ result = "none"
  /\ own = [l \in Slots |-> "none"]
  /\ watched = {} /\ unhandled = {}

-----------------------------------------------------------------------------
(* Loading and the lifecycle hooks. *)

\* A module that cannot be resolved, imported or made is logged and skipped.
LoadEntry ==
  /\ channel = "loading" /\ entry <= Entries
  /\ plugged' \in {plugged, plugged \cup {entry}}
  /\ entry' = entry + 1
  /\ UNCHANGED <<harness, channel, hook, callVars, stepVars, asyncVars>>

\* Every hook is called, together.
CallHooks == hook' = [l \in Slots |-> IF l \in plugged THEN "called" ELSE "none"]

\* The composition refuses invalid metadata; then started() of every extension.
ComposeExtensions ==
  /\ channel = "loading" /\ entry > Entries
  /\ \/ plugged # {} /\ channel' = "refused" /\ UNCHANGED hook
     \/ channel' = "starting" /\ CallHooks
  /\ UNCHANGED <<harness, entry, plugged, callVars, stepVars, asyncVars>>

HookEnds(l) ==
  /\ hook[l] = "called"
  /\ \E how \in {"done", "failed"} : hook' = [hook EXCEPT ![l] = how]
  /\ UNCHANGED <<harness, channel, entry, plugged, callVars, stepVars, asyncVars>>

\* The bound of a hook: the channel goes on without it.
HookTimesOut(l) ==
  /\ hook[l] = "called"
  /\ hook' = [hook EXCEPT ![l] = "abandoned"]
  /\ UNCHANGED <<harness, channel, entry, plugged, callVars, stepVars, asyncVars>>

\* Promise.all over the bounded hooks.
HooksSettled ==
  /\ channel \in {"starting", "stopping"}
  /\ \A l \in Slots : hook[l] # "called"
  /\ channel' = IF channel = "starting" THEN "serving" ELSE "off"
  /\ UNCHANGED <<harness, entry, plugged, hook, callVars, stepVars, asyncVars>>

StopChannel ==
  /\ channel = "serving" /\ at = 0 /\ ret = "none"
  /\ channel' = "stopping" /\ CallHooks
  /\ UNCHANGED <<harness, entry, plugged, callVars, stepVars, asyncVars>>

-----------------------------------------------------------------------------
(* A wrapped step: aroundInject, aroundDispatch or aroundToolCall. *)

\* Into the next wrapper, or the step; back to the one before, or the plugin.
Inner(d) == IF \E l \in plugged : l > d THEN CHOOSE l \in plugged : l > d /\ \A k \in plugged : k > d => k >= l
            ELSE Entries + 1
Outer(d) == IF \E l \in plugged : l < d THEN CHOOSE l \in plugged : l < d /\ \A k \in plugged : k < d => k <= l
            ELSE 0

\* Control goes into what d wraps, d itself being `how`.
EnterBelow(d, how) ==
  /\ at' = Inner(d) /\ ret' = "none"
  /\ wrapper' = [l \in Slots |-> IF l = d THEN how ELSE IF l = Inner(d) THEN "in" ELSE wrapper[l]]

WrapAll ==
  /\ channel = "serving" /\ at = 0 /\ ret = "none" /\ runs = 0
  /\ EnterBelow(0, "out")
  /\ UNCHANGED <<harness, hookVars, called, threw, stepVars, asyncVars>>

\* A step of OpenClaw or Claude Code is asynchronous, as a tool call is in PI;
\* PI's sendUserMessage is not.
RunStep ==
  /\ at = Entries + 1 /\ ret = "none"
  /\ runs' = runs + 1
  /\ \/ harness = "pi" /\ outcome' \in {"value", "throw"} /\ settles' = "none"
     \/ outcome' = "value" /\ settles' = "pending"
  /\ ret' = outcome' /\ at' = Outer(Entries + 1)
  /\ UNCHANGED <<harness, hookVars, wrapper, called, threw, result, asyncVars>>

\* While the wrapper runs, or from a continuation of it.
CallsRun(l) ==
  \/ wrapper[l] = "in" /\ at = l /\ ret = "none"
  \/ wrapper[l] = "over" /\ at = 0 /\ ret = "none"

\* Fault: `once` does not remember that it was called.
OnceEveryTime(l) ==
  /\ CallsRun(l) /\ runs < 2
  /\ called' = [called EXCEPT ![l] = TRUE] /\ EnterBelow(l, "below")
  /\ UNCHANGED <<harness, hookVars, threw, stepVars, asyncVars>>

\* `once`: a wrapper calls its `run`, perhaps again, perhaps when the plugin
\* has long taken the step's value.
Once(l) ==
  /\ CallsRun(l)
  /\ IF called[l] THEN UNCHANGED callVars
     ELSE /\ called' = [called EXCEPT ![l] = TRUE] /\ EnterBelow(l, "below")
          /\ UNCHANGED threw
  /\ UNCHANGED <<harness, hookVars, stepVars, asyncVars>>

\* Back from what l wraps: into the wrapper, or out, if the plugin called it.
ReturnTo(l) ==
  /\ at = l /\ ret # "none"
  /\ threw' = [threw EXCEPT ![l] = (ret = "throw")]
  /\ \/ wrapper[l] = "below" /\ wrapper' = [wrapper EXCEPT ![l] = "in"]
        /\ ret' = "none" /\ UNCHANGED at
     \/ wrapper[l] = "guard" /\ wrapper' = [wrapper EXCEPT ![l] = "over"]
        /\ at' = Outer(l) /\ UNCHANGED ret
  /\ UNCHANGED <<harness, hookVars, called, stepVars, asyncVars>>

\* What the guard makes of a wrapper that is over: the step's throw, or its
\* value; the step is run if the wrapper has not.
Guard(l) ==
  IF called[l]
  THEN /\ ret' = IF threw[l] THEN "throw" ELSE "value"
       /\ at' = Outer(l) /\ wrapper' = [wrapper EXCEPT ![l] = "over"]
       /\ UNCHANGED called
  ELSE EnterBelow(l, "guard") /\ called' = [called EXCEPT ![l] = TRUE]

\* The wrapper throws an error of its own.
WrapperThrows(l) ==
  /\ at = l /\ ret = "none" /\ wrapper[l] = "in"
  /\ Guard(l)
  /\ UNCHANGED <<harness, hookVars, threw, stepVars, asyncVars>>

\* observeWrapperPromise, which PI's copy lacks.
Watched(l) ==
  watched' = IF own'[l] = "pending" /\ harness # "pi" /\ ~threw[l] THEN watched \cup {l} ELSE watched

\* The wrapper lets the step's throw through, or returns: `run`'s value, some
\* other (which is logged), or a promise of its own.
WrapperReturns(l) ==
  /\ at = l /\ ret = "none" /\ wrapper[l] = "in"
  /\ Guard(l)
  /\ \E returned \in {"none", "pending"} : own' = [own EXCEPT ![l] = returned]
  /\ Watched(l)
  /\ UNCHANGED <<harness, hookVars, threw, stepVars, unhandled>>

\* The plugin has what it called for.
PluginGets ==
  /\ at = 0 /\ ret # "none"
  /\ result' = ret /\ ret' = "none"
  /\ UNCHANGED <<harness, hookVars, at, wrapper, called, threw, runs, outcome, settles, asyncVars>>

-----------------------------------------------------------------------------
(* Promises settle later. *)

StepSettles ==
  /\ settles = "pending" /\ at = 0
  /\ settles' \in {"fulfilled", "rejected"}
  /\ UNCHANGED <<harness, hookVars, callVars, runs, outcome, result, asyncVars>>

\* A wrapper's promise is fulfilled, rejected with the step's reason passed
\* through, or with one of its own.
PromiseSettles(l) ==
  /\ own[l] = "pending" /\ at = 0
  /\ \E how \in {"fulfilled", "own"} \cup (IF settles = "rejected" THEN {"passed"} ELSE {}) :
       /\ own' = [own EXCEPT ![l] = how]
       /\ unhandled' = IF how # "fulfilled" /\ l \notin watched THEN unhandled \cup {l} ELSE unhandled
  /\ UNCHANGED <<harness, hookVars, callVars, stepVars, watched>>

ExtensionNext ==
  \/ LoadEntry \/ ComposeExtensions \/ HooksSettled \/ StopChannel
  \/ WrapAll \/ RunStep \/ PluginGets \/ StepSettles
  \/ \E l \in Slots :
       \/ HookEnds(l) \/ HookTimesOut(l) \/ Once(l) \/ ReturnTo(l)
       \/ WrapperThrows(l) \/ WrapperReturns(l) \/ PromiseSettles(l)

ExtensionSpec == ExtensionInit /\ [][ExtensionNext]_extensionVars

-----------------------------------------------------------------------------

\* Whatever the wrappers do, the step runs once, the plugin gets what the step
\* did, and no call that comes later runs it again.
StepRunsOnce ==
  /\ runs <= 1
  /\ result # "none" => runs = 1 /\ result = outcome

\* A rejection of a wrapper's promise always has somebody to observe it, also
\* that of a wrapper the plugin had to call `run` for (EXTENSIONS.md: a wrapper
\* may be an async function).
NothingUnhandled == unhandled = {}

\* ... in the copies that observe them; PI's does not.
FailsOpen == harness # "pi" => NothingUnhandled

\* An extension can neither repeat nor swallow what the channel does
\* (extensions.ts: guarded).
ExtensionsAreHarmless == StepRunsOnce /\ FailsOpen
=============================================================================
