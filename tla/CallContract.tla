------------------------------ MODULE CallContract ------------------------------
(***************************************************************************)
(* What the agent tools promise about the calls of a model                 *)
(* (docs/agent-tools.md, sections 1.1, 3.2 to 3.4 and 3.10), with nothing  *)
(* of how the SDK keeps it: a call is open until its one final state; the  *)
(* questions its agent asked are due a reply until they get one; a call    *)
(* that ends without a reply leaves none due; the end of a served prompt   *)
(* ends the calls of its scope in the same moment.                         *)
(***************************************************************************)
EXTENDS Naturals

CONSTANTS Calls, Scopes, Questions

VARIABLES
  live,    \* the scopes in which calls may start
  scope,   \* of each call: its scope
  status,  \* of each call: "none", or its state
  due      \* of each call: the questions asked and not replied to

vars == <<live, scope, status, due>>

Open == {"running", "input_required"}
Ended == {"failed", "cancelled", "expired"}

Init ==
  /\ live \in SUBSET Scopes
  /\ scope \in [Calls -> Scopes]
  /\ status = [c \in Calls |-> "none"]
  /\ due = [c \in Calls |-> {}]

OpenScope(s) ==
  /\ live' = live \cup {s}
  /\ UNCHANGED <<scope, status, due>>

Start(c, s) ==
  /\ status[c] = "none"
  /\ s \in live
  /\ scope' = [scope EXCEPT ![c] = s]
  /\ status' = [status EXCEPT ![c] = "running"]
  /\ UNCHANGED <<live, due>>

(* The agent asks; the question is shown when the tools have taken it in.  *)
Ask(c, q) ==
  /\ status[c] \in Open
  /\ q \notin due[c]
  /\ due' = [due EXCEPT ![c] = @ \cup {q}]
  /\ UNCHANGED <<live, scope, status>>

(* An open call turns to its questions, or from them to its work.          *)
Turn(c, st) ==
  /\ status[c] \in Open
  /\ st \in Open
  /\ status' = [status EXCEPT ![c] = st]
  /\ UNCHANGED <<live, scope, due>>

(* An answer goes out for one of the questions the call shows.             *)
Answer(c, q, st) ==
  /\ status[c] = "input_required"
  /\ st \in Open
  /\ q \in due[c]
  /\ due' = [due EXCEPT ![c] = @ \ {q}]
  /\ status' = [status EXCEPT ![c] = st]
  /\ UNCHANGED <<live, scope>>

(* A reply makes the questions moot; without one they are all replied to.  *)
Complete(c) ==
  /\ status[c] \in Open
  /\ status' = [status EXCEPT ![c] = "completed"]
  /\ UNCHANGED <<live, scope, due>>

End(c, st) ==
  /\ status[c] \in Open
  /\ st \in Ended
  /\ status' = [status EXCEPT ![c] = st]
  /\ due' = [due EXCEPT ![c] = {}]
  /\ UNCHANGED <<live, scope>>

(* Served prompts end, or the helper closes: no open call outlives them.   *)
CloseScopes(ss) ==
  /\ live' = live \ ss
  /\ LET ending == {c \in Calls : scope[c] \in ss /\ status[c] \in Open} IN
     /\ status' = [c \in Calls |-> IF c \in ending THEN "cancelled" ELSE status[c]]
     /\ due' = [c \in Calls |-> IF c \in ending THEN {} ELSE due[c]]
  /\ UNCHANGED scope

Next ==
  \/ \E s \in Scopes : OpenScope(s)
  \/ \E ss \in SUBSET Scopes : CloseScopes(ss)
  \/ \E c \in Calls :
       \/ \E s \in Scopes : Start(c, s)
       \/ \E q \in Questions : Ask(c, q)
       \/ \E st \in Open : Turn(c, st)
       \/ \E q \in Questions, st \in Open : Answer(c, q, st)
       \/ Complete(c)
       \/ \E st \in Ended : End(c, st)

Spec == Init /\ [][Next]_vars
=============================================================================
