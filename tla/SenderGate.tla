------------------------------ MODULE SenderGate ------------------------------
(***************************************************************************)
(* The sender gate of an agent service and the nonce cache it consults     *)
(* before, and updates after, the verification of a signed header          *)
(* (agent-sdk/typescript identity/classify.ts, agent-sdk/python            *)
(* identity.py).                                                           *)
(*                                                                         *)
(* The TypeScript gate awaits the digest of the payload between its lookup *)
(* of the nonce and the moment it records it, so copies of one message can *)
(* be verified at the same time; the Python gate classifies without an     *)
(* await.  Time is in ticks; the cache sweeps by buckets of a second.      *)
(***************************************************************************)
EXTENDS Integers, Sequences, FiniteSets, FiniteSetsExt

CONSTANTS
  Messages,      \* requests that arrive; two may carry the same header
  Odd,           \* those that need not carry a good signature: a bound
  Nonces,
  Stamps,        \* the times at which headers were signed
  Window,        \* replayWindowMs: the skew allowed and how long a nonce lives
  Second,        \* ticks of a bucket
  MaxEntries,    \* the cap of the cache
  LastTick,      \* a bound
  HookSays,      \* what acceptSender may do: "accept", "reject", "throw"
  Hosts,         \* the implementations: "typescript", "python"
  Reusing        \* hosts whose senders may sign another message with a nonce

ASSUME GateAssumption ==
  /\ {Window, Second, MaxEntries} \subseteq Nat \ {0} /\ LastTick \in Nat
  /\ Stamps \subseteq 0..LastTick /\ Stamps # {}
  /\ Nonces # {} /\ IsFiniteSet(Nonces)
  /\ Odd \subseteq Messages
  /\ HookSays \subseteq {"accept", "reject", "throw"}
  /\ Reusing \subseteq Hosts /\ Hosts \subseteq {"typescript", "python"}

VARIABLES
  gateHost,        \* which implementation
  minSenderTrust,  \* "any" or "signed"
  header,          \* per message: what its Agent-Sender header is
  gateNow,
  cache,           \* the nonces' expiries and the buckets that hold them
  stage,           \* per message: how far its classification is
  verdict,         \* per message: what it was answered
  wins,            \* history: the messages record() let pass, with the time
  evicted          \* history: nonces the cap evicted

gateVars == <<gateHost, minSenderTrust, header, gateNow, cache, stage, verdict,
              wins, evicted>>

BucketOf(t) == t \div Second
Buckets     == 0..BucketOf(LastTick + Window)

\* "signed" headers verify; the others fail where their name says.
Kinds == {"signed", "badSignature", "wrongSubject", "claimed", "none", "malformed"}

\* No time of an entry is 0, which stands for "no entry".
GateTypeOK ==
  /\ gateHost \in Hosts /\ minSenderTrust \in {"any", "signed"}
  /\ header \in [Messages -> [kind : Kinds, nonce : Nonces, ts : Stamps]]
  /\ gateNow \in 0..LastTick
  /\ cache \in [expiry  : [Nonces -> 0..(LastTick + Window)],
                buckets : [Buckets -> SUBSET Nonces]]
  /\ stage \in [Messages -> {"new", "verifying", "probing", "asking", "done"}]
  /\ verdict \in [Messages -> {"open", "served", "status", "400", "401", "403", "500"}]

Expires(m) == header[m].ts + Window

-----------------------------------------------------------------------------
(* NonceCache *)

Size(c) == Cardinality({n \in Nonces : c.expiry[n] # 0})

\* Dropping a bucket drops every key listed in it.
Without(c, gone) ==
  LET keys == UNION {c.buckets[b] : b \in gone} IN
  [expiry  |-> [n \in Nonces |-> IF n \in keys THEN 0 ELSE c.expiry[n]],
   buckets |-> [b \in Buckets |-> IF b \in gone THEN {} ELSE c.buckets[b]]]

Sweep(c, t) == Without(c, {b \in Buckets : b < BucketOf(t)})

Has(c, n, t) == c.expiry[n] > t

\* The oldest buckets go until the set is within its cap, or none is left.
EnforceCap(c) ==
  IF Size(c) <= MaxEntries THEN c
  ELSE Without(c, 0..Min({b \in Buckets : Size(Without(c, 0..b)) <= MaxEntries}
                           \cup {Max(Buckets)}))

\* The Python cache takes an expired key out of the bucket that still lists it.
DropStale(c, n) ==
  IF gateHost = "python" /\ c.expiry[n] # 0
  THEN [c EXCEPT !.buckets[BucketOf(c.expiry[n])] = @ \ {n}]
  ELSE c

\* Fault: the nonce is looked up before the signature only.
RecordUnasked(c, n, expires, t) ==
  LET swept == Sweep(c, t) IN
  IF expires <= t THEN [new |-> TRUE, cache |-> DropStale(swept, n)]
  ELSE LET held == [DropStale(swept, n) EXCEPT
                      !.expiry[n] = expires,
                      !.buckets[BucketOf(expires)] = @ \cup {n}]
       IN  [new |-> TRUE, cache |-> EnforceCap(held)]

\* record(): whether the nonce is new, and the cache after the call.
Record(c, n, expires, t) ==
  LET swept == Sweep(c, t) IN
  IF Has(swept, n, t) THEN [new |-> FALSE, cache |-> swept]
  ELSE IF expires <= t THEN [new |-> TRUE, cache |-> DropStale(swept, n)]
  ELSE LET held == [DropStale(swept, n) EXCEPT
                      !.expiry[n] = expires,
                      !.buckets[BucketOf(expires)] = @ \cup {n}]
       IN  [new |-> TRUE, cache |-> EnforceCap(held)]

-----------------------------------------------------------------------------
(* SenderGate *)

GateInit ==
  /\ gateHost \in Hosts
  /\ minSenderTrust \in {"any", "signed"}
  /\ header \in [Messages -> [kind : {"signed"}, nonce : Nonces, ts : Stamps]
                   \cup [kind : Kinds \ {"signed"}, nonce : {CHOOSE n \in Nonces : TRUE},
                         ts : {CHOOSE s \in Stamps : \A r \in Stamps : s <= r}]]
  /\ \A m \in Messages \ Odd : header[m].kind = "signed"
  \* A fresh nonce per signed message, unless the senders bring their own.
  /\ gateHost \notin Reusing =>
       \A m, k \in Messages :
         header[m].nonce = header[k].nonce /\ {header[m].kind, header[k].kind} = {"signed"}
           => header[m].ts = header[k].ts
  /\ gateNow = 0
  /\ cache = [expiry |-> [n \in Nonces |-> 0], buckets |-> [b \in Buckets |-> {}]]
  /\ stage = [m \in Messages |-> "new"]
  /\ verdict = [m \in Messages |-> "open"]
  /\ wins = <<>> /\ evicted = {}

Answer(m, code) ==
  /\ stage' = [stage EXCEPT ![m] = "done"]
  /\ verdict' = [verdict EXCEPT ![m] = code]

\* A status request is only classified: whatever comes out, it is answered.
Refuse(m, asked, code) == Answer(m, IF asked = "status" THEN "status" ELSE code)

\* The synchronous check-and-set of a verified sender's nonce.
RecordNonce(m, c) ==
  LET r == Record(c, header[m].nonce, Expires(m), gateNow) IN
  /\ cache' = r.cache
  /\ wins' = IF r.new THEN Append(wins, [msg |-> m, at |-> gateNow]) ELSE wins
  /\ evicted' = evicted \cup {n \in Nonces :
                    /\ r.cache.expiry[n] = 0
                    /\ \/ c.expiry[n] > gateNow
                       \/ n = header[m].nonce /\ r.new /\ Expires(m) > gateNow}

NoNonce(c) == cache' = c /\ UNCHANGED <<wins, evicted>>

\* What follows classify(): the trust the endpoint asks for, the nonce, the hook.
Admit(m, c, asked) ==
  LET verified == header[m].kind = "signed"
      won      == Record(c, header[m].nonce, Expires(m), gateNow).new
  IN
  \/ /\ asked = "prompt" /\ minSenderTrust = "signed" /\ ~verified
     /\ Answer(m, "401") /\ NoNonce(c)
  \/ /\ verified /\ ~won
     /\ Refuse(m, asked, "401") /\ RecordNonce(m, c)
  \/ /\ asked = "status" /\ (verified => won)
     /\ Answer(m, "status")
     /\ IF verified THEN RecordNonce(m, c) ELSE NoNonce(c)
  \/ /\ asked = "prompt" /\ IF verified THEN won ELSE minSenderTrust = "any"
     /\ stage' = [stage EXCEPT ![m] = "asking"] /\ UNCHANGED verdict
     /\ IF verified THEN RecordNonce(m, c) ELSE NoNonce(c)

\* The signature, then what a verified sender is asked for.
Conclude(m, c, asked) ==
  \/ header[m].kind = "badSignature" /\ Refuse(m, asked, "401") /\ NoNonce(c)
  \/ header[m].kind = "signed" /\ Admit(m, c, asked)

Skew(m) == IF gateNow > header[m].ts THEN gateNow - header[m].ts ELSE header[m].ts - gateNow

\* The checks before the signature let the header pass.
Presentable(m, swept) ==
  /\ header[m].kind \in {"signed", "badSignature"} /\ Skew(m) <= Window
  /\ ~Has(swept, header[m].nonce, gateNow)

\* parse, ts, subject, nonce, in this order: what they turn down, and the
\* requests that claim no signature.
AnsweredEarly(m, swept, asked) ==
  LET kind == header[m].kind IN
  \/ kind = "malformed" /\ Refuse(m, asked, "400") /\ NoNonce(cache)
  \/ kind \in {"claimed", "none"} /\ Admit(m, cache, asked)
  \/ /\ kind = "wrongSubject" \/ (kind \in {"signed", "badSignature"} /\ Skew(m) > Window)
     /\ Refuse(m, asked, "401") /\ NoNonce(cache)
  \/ /\ kind \in {"signed", "badSignature"} /\ Skew(m) <= Window
     /\ Has(swept, header[m].nonce, gateNow)
     /\ Refuse(m, asked, "401") /\ NoNonce(swept)

\* A request arrives; the digest of its payload is awaited.
Classify(m, asked) ==
  LET swept == Sweep(cache, gateNow) IN
  /\ gateHost = "typescript" /\ stage[m] = "new"
  /\ \/ AnsweredEarly(m, swept, asked)
     \/ /\ Presentable(m, swept)
        /\ stage' = [stage EXCEPT ![m] = IF asked = "prompt" THEN "verifying" ELSE "probing"]
        /\ UNCHANGED verdict /\ NoNonce(swept)
  /\ UNCHANGED <<gateHost, minSenderTrust, header, gateNow>>

\* In Python nothing is awaited before the nonce is recorded.
ClassifyAtOnce(m, asked) ==
  LET swept == Sweep(cache, gateNow) IN
  /\ gateHost = "python" /\ stage[m] = "new"
  /\ \/ AnsweredEarly(m, swept, asked)
     \/ Presentable(m, swept) /\ Conclude(m, swept, asked)
  /\ UNCHANGED <<gateHost, minSenderTrust, header, gateNow>>

\* The digest of the payload is there.
Verified(m) ==
  /\ stage[m] \in {"verifying", "probing"}
  /\ Conclude(m, cache, IF stage[m] = "verifying" THEN "prompt" ELSE "status")
  /\ UNCHANGED <<gateHost, minSenderTrust, header, gateNow>>

\* acceptSender answers, or throws.
HookReturns(m) ==
  /\ stage[m] = "asking"
  /\ \E says \in HookSays :
       Answer(m, CASE says = "accept" -> "served"
                   [] says = "throw"  -> "500"
                   [] says = "reject" -> IF header[m].kind = "signed" THEN "403" ELSE "401")
  /\ UNCHANGED <<gateHost, minSenderTrust, header, gateNow, cache, wins, evicted>>

GateTick ==
  /\ gateNow < LastTick
  /\ gateNow' = gateNow + 1
  /\ UNCHANGED <<gateHost, minSenderTrust, header, cache, stage, verdict, wins, evicted>>

GateNext ==
  \/ \E m \in Messages, asked \in {"prompt", "status"} :
       Classify(m, asked) \/ ClassifyAtOnce(m, asked)
  \/ \E m \in Messages : Verified(m) \/ HookReturns(m)
  \/ GateTick

GateSpec == GateInit /\ [][GateNext]_gateVars

-----------------------------------------------------------------------------

\* Before the window of a header ends, its copies are admitted once: when record()
\* lets a second message with a nonce pass, the first one's entry has run out, at
\* ts + window, or the cap evicted it, whatever was verified at the same time; and
\* no message with a signed header is served without passing record().  From
\* ts + window on nothing is remembered, see ServedOncePerHeader (classify.ts,
\* NonceCache; identity.py).
AdmittedOnce ==
  /\ \A i, j \in DOMAIN wins :
       i < j /\ header[wins[i].msg].nonce = header[wins[j].msg].nonce
         => \/ wins[j].at >= Expires(wins[i].msg)
            \/ header[wins[i].msg].nonce \in evicted
  /\ \A m \in Messages : verdict[m] = "served" =>
       IF header[m].kind = "signed" THEN \E i \in DOMAIN wins : wins[i].msg = m
       ELSE header[m].kind \in {"claimed", "none"} /\ minSenderTrust = "any"

\* The buckets and the expiries agree, so that a sweep never drops an entry
\* that still counts, and the cap bounds the entries that count.
NonceSetSound ==
  LET live == {n \in Nonces : cache.expiry[n] > gateNow} IN
  /\ GateTypeOK
  /\ Cardinality(live) <= MaxEntries
  /\ \A n \in live : n \in cache.buckets[BucketOf(cache.expiry[n])]
  /\ \A b \in Buckets : \A n \in cache.buckets[b] : BucketOf(cache.expiry[n]) = b

\* The gate keeps its promise as long as it remembers: until ts + window a nonce
\* is let pass once, and the set of nonces forgets none before that but those the
\* cap takes (classify.ts; identity.py).
ReplaysAreRefused == AdmittedOnce /\ NonceSetSound

\* What is said of the gate: a replayed nonce is answered 401 in every mode, so of
\* the requests that carry one signed header one is served, unless the cap evicted
\* its nonce.  Not so at ts + window itself, which the check of ts takes for inside
\* the window and record() for outside, and for a copy that is still being
\* verified then (sender-header.ts, classify.ts).
ServedOncePerHeader ==
  \A m, k \in Messages :
    m # k /\ header[m] = header[k] /\ header[m].kind = "signed"
      /\ {verdict[m], verdict[k]} = {"served"}
      => header[m].nonce \in evicted
=============================================================================
