---------------------------- MODULE SenderResolver ----------------------------
(***************************************************************************)
(* The reverse lookup of an agent ID (identity/resolve-sender.ts) over the *)
(* scatter-gather of $SRV.INFO.agents (discovery/srv-ping.ts): one index,  *)
(* reused for a time to live, and one enumeration in flight, shared by the *)
(* calls that find the index too old.                                      *)
(*                                                                         *)
(* A call that awaits an enumeration reads the index when it goes on, which*)
(* may be after invalidate() or after another enumeration has replaced it. *)
(***************************************************************************)
EXTENDS Integers

CONSTANTS
  Registered,   \* agent instances that register an identity
  IdOf,         \* the ID each one registers
  Callers,
  Ttl,          \* ticks an index is reused; 0 enumerates on every call
  GatherTime,      \* ticks an enumeration takes at most
  LastTime,     \* a bound
  Drops         \* calls of invalidate(): a bound

ASSUME ResolverAssumption ==
  /\ {Ttl, GatherTime, LastTime, Drops} \subseteq Nat
  /\ IdOf \in [Registered -> {IdOf[i] : i \in Registered}]

VARIABLES
  listed,       \* the instances whose record carries a verifying id_sig
  clock,
  index,        \* per instance: when it replied to the index's enumeration, or -1
  builtAt,      \* when that enumeration ended, or -1
  gathering,    \* the enumeration in flight: when it began, who replied when
  lookup,       \* per caller: what its resolve() is doing
  drops         \* how often invalidate() was called

resolverVars == <<listed, clock, index, builtAt, gathering, lookup, drops>>

ResolverIds == {IdOf[i] : i \in Registered}
EmptyIndex  == [i \in Registered |-> -1]
NotRunning  == [began |-> -1, replies |-> EmptyIndex]

ResolverInit ==
  /\ listed \in SUBSET Registered
  /\ clock = 0
  /\ index = EmptyIndex /\ builtAt = -1
  /\ gathering = NotRunning
  /\ lookup = [c \in Callers |-> [state |-> "idle", id |-> CHOOSE d \in ResolverIds : TRUE,
                                began |-> -1, found |-> {}]]
  /\ drops = 0

\* What the index holds under an ID; resolve() returns the first, any of them here.
Held(d) == {[instance |-> i, at |-> index[i]] : i \in {j \in Registered : IdOf[j] = d /\ index[j] # -1}}

\* resolve(): from an index young enough, or after an enumeration, its own or
\* the one it finds in flight.
Resolve(c, d) ==
  LET fresh == builtAt # -1 /\ clock - builtAt < Ttl IN
  /\ lookup[c].state \notin {"waiting", "reading"}
  /\ lookup' = [lookup EXCEPT ![c] =
       [state |-> IF fresh THEN "returned" ELSE "waiting", id |-> d, began |-> clock,
        found |-> IF fresh THEN Held(d) ELSE {}]]
  /\ gathering' = IF fresh \/ gathering.began # -1 THEN gathering
                  ELSE [NotRunning EXCEPT !.began = clock]
  /\ UNCHANGED <<listed, clock, index, builtAt, drops>>

\* An instance answers the enumeration with its own record.
InfoReply(i) ==
  /\ gathering.began # -1 /\ i \in listed /\ gathering.replies[i] = -1
  /\ gathering' = [gathering EXCEPT !.replies[i] = clock]
  /\ UNCHANGED <<listed, clock, index, builtAt, lookup, drops>>

\* The callers that awaited the promise; they go on before another I/O event.
Wake(how) ==
  [c \in Callers |-> IF lookup[c].state = "waiting" THEN [lookup[c] EXCEPT !.state = how]
                     ELSE lookup[c]]

NobodyReading == \A c \in Callers : lookup[c].state # "reading"

\* The stall, the deadline or "no responders" ends it: the index is replaced
\* and the shared promise dropped.
EnumerationEnds ==
  /\ gathering.began # -1 /\ NobodyReading
  /\ index' = gathering.replies /\ builtAt' = clock
  /\ gathering' = NotRunning
  /\ lookup' = Wake("reading")
  /\ UNCHANGED <<listed, clock, drops>>

\* Fault: the calls that found the enumeration in flight do not hear of its failure.
EnumerationFailsAlone ==
  /\ gathering.began # -1 /\ NobodyReading
  /\ gathering' = NotRunning
  /\ UNCHANGED <<listed, clock, index, builtAt, lookup, drops>>

\* The request fails: the index is kept, and the promise dropped all the same.
EnumerationFails ==
  /\ gathering.began # -1 /\ NobodyReading
  /\ gathering' = NotRunning
  /\ lookup' = Wake("rejected")
  /\ UNCHANGED <<listed, clock, index, builtAt, drops>>

\* A call that waited reads the index as it is now.
ReadIndex(c) ==
  /\ lookup[c].state = "reading"
  /\ lookup' = [lookup EXCEPT ![c].state = "returned", ![c].found = Held(lookup[c].id)]
  /\ UNCHANGED <<listed, clock, index, builtAt, gathering, drops>>

\* invalidate() leaves an enumeration in flight alone.
Invalidate ==
  /\ drops < Drops
  /\ drops' = drops + 1
  /\ index' = EmptyIndex /\ builtAt' = -1
  /\ UNCHANGED <<listed, clock, gathering, lookup>>

\* An agent comes or goes.
Relist(i) ==
  /\ listed' = IF i \in listed THEN listed \ {i} ELSE listed \cup {i}
  /\ UNCHANGED <<clock, index, builtAt, gathering, lookup, drops>>

\* No enumeration outlives its deadline.
ResolverTick ==
  /\ clock < LastTime /\ NobodyReading
  /\ gathering.began # -1 => clock - gathering.began < GatherTime
  /\ clock' = clock + 1
  /\ UNCHANGED <<listed, index, builtAt, gathering, lookup, drops>>

ResolverNext ==
  \/ \E c \in Callers : (\E d \in ResolverIds : Resolve(c, d)) \/ ReadIndex(c)
  \/ \E i \in Registered : InfoReply(i) \/ Relist(i)
  \/ EnumerationEnds \/ EnumerationFails \/ Invalidate \/ ResolverTick

ResolverSpec == ResolverInit /\ [][ResolverNext]_resolverVars

-----------------------------------------------------------------------------

\* What a lookup returns was said by an instance of that ID, at the earliest
\* an enumeration and a time to live before the call, whatever failed, was
\* shared or was invalidated in between (resolve-sender.ts, `resolve`).
LookupIsRecent ==
  \A c \in Callers : lookup[c].state = "returned" =>
    \A r \in lookup[c].found :
      /\ IdOf[r.instance] = lookup[c].id
      /\ r.at + GatherTime + (IF Ttl = 0 THEN 0 ELSE Ttl - 1) >= lookup[c].began

\* An enumeration that ended, or failed, sticks to nobody: whoever waits, waits
\* for the one in flight, which began at most GatherTime ago.
WaitersHaveEnumeration ==
  \A c \in Callers : lookup[c].state = "waiting" =>
    gathering.began # -1 /\ clock - gathering.began <= GatherTime

\* Both: what resolve() returns is recent, and it never waits for an
\* enumeration that is over (resolve-sender.ts).
SharedLookupSound == LookupIsRecent /\ WaitersHaveEnumeration
=============================================================================
