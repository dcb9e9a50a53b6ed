----------------------------- MODULE ServiceProofs -----------------------------
(***************************************************************************)
(* What the runs of MCService and PromptExchange check of an agent service *)
(* on small instances, for every value of the constants: the reply stream  *)
(* of a prompt (PromptDispatch), the resolver that tells who sent it       *)
(* (SenderResolver), the gate that asks (SenderGate), the beats from which *)
(* a client tells who is alive (HeartbeatLiveness), and what both ends of  *)
(* a prompt promise each other (PromptExchange implements ReplyContract),  *)
(* also on a clock (PromptTiming).                                         *)
(***************************************************************************)
EXTENDS HeartbeatLiveness, PromptTiming, SenderResolver, SenderGate,
        FiniteSetTheorems, WellFoundedInduction, TLAPS

(***************************************************************************)
(* The reply stream.  Everything that publishes lives inside the chain of  *)
(* interceptors, and the chain inside dispatchPrompt: a handler runs, asks *)
(* and is covered by acks only while its prompt is served.                 *)
(***************************************************************************)

\* Who is inside whom.
Nested ==
  /\ phase \in {"idle", "admitting"} => chain = "idle"
  /\ chain = "running" => phase = "serving"
  /\ handler # "notStarted" => phase \in {"serving", "ended"}
  /\ handler = "running" => chain = "running"
  /\ asking # "no" => handler = "running"
  /\ timer => phase = "serving" /\ handler # "notStarted"

NoEnd == \A i \in 1..Len(frames) : frames[i].kind # "end"

\* The first frame tells a reply from a refusal; the terminator is for the end.
FirstFrame ==
  /\ phase # "ended" => NoEnd
  /\ phase # "ended" /\ handler = "notStarted" => frames = <<>>
  /\ phase = "ended" /\ handler = "notStarted" => frames \in {<<>>, <<Error, End>>}
  /\ handler # "notStarted" => IF frames = <<>> THEN ~connected ELSE frames[1] = Ack

\* An inbox gets replies to its own question, and ask() takes them from there.
OwnReplies == \A q \in Questions : mail[q] \subseteq {q} /\ answers[q] \in {0, q}

DispatchInv == HostTypeOK /\ Nested /\ FirstFrame /\ TerminatorIsLast /\ OwnReplies

\* Publishing frames: what is appended, and where the rest stays.
LEMMA Emitted ==
  ASSUME frames \in Seq(Frames), connected \in BOOLEAN, NEW fs \in Seq(Frames), Emit(fs)
  PROVE  /\ frames' \in Seq(Frames)
         /\ connected => /\ Len(frames') = Len(frames) + Len(fs)
                         /\ \A i \in 1..Len(frames) : frames'[i] = frames[i]
                         /\ \A i \in 1..Len(fs) : frames'[Len(frames) + i] = fs[i]
                         /\ frames = <<>> => frames' = fs
         /\ ~connected => frames' = frames
<1>1. CASE connected
  <2>1. frames' = frames \o fs
    BY <1>1 DEF Emit
  <2> QED
    BY <1>1, <2>1
<1>2. CASE ~connected
  BY <1>2 DEF Emit
<1> QED
  BY <1>1, <1>2

\* One frame more, which is not the terminator.
LEMMA EmittedOne ==
  ASSUME frames \in Seq(Frames), connected \in BOOLEAN, NEW f \in Frames, f.kind # "end",
         Emit(<<f>>), NoEnd
  PROVE  /\ frames' \in Seq(Frames)
         /\ NoEnd'
         /\ TerminatorIsLast'
         /\ frames # <<>> => frames' # <<>> /\ frames'[1] = frames[1]
         /\ frames = <<>> => IF connected THEN frames' = <<f>> ELSE frames' = <<>>
<1> DEFINE fs == <<f>>
<1>1. fs \in Seq(Frames) /\ Len(fs) = 1 /\ fs[1] = f
  OBVIOUS
<1> HIDE DEF fs
<1>2. Emit(fs)
  BY DEF fs
<1>3. CASE connected
  <2>1. /\ frames' \in Seq(Frames) /\ Len(frames') = Len(frames) + 1
        /\ \A i \in 1..Len(frames) : frames'[i] = frames[i]
        /\ frames'[Len(frames) + 1] = f
        /\ frames = <<>> => frames' = fs
    <3>1. frames' \in Seq(Frames) /\ Len(frames') = Len(frames) + Len(fs)
      BY <1>1, <1>2, <1>3, Emitted
    <3>2. \A i \in 1..Len(frames) : frames'[i] = frames[i]
      BY <1>1, <1>2, <1>3, Emitted
    <3>3. \A i \in 1..Len(fs) : frames'[Len(frames) + i] = fs[i]
      BY <1>1, <1>2, <1>3, Emitted
    <3>4. frames = <<>> => frames' = fs
      BY <1>1, <1>2, <1>3, Emitted
    <3> QED
      BY <1>1, <3>1, <3>2, <3>3, <3>4
  <2>2. NoEnd'
    BY <2>1 DEF NoEnd
  <2>3. frames # <<>> => frames' # <<>> /\ frames'[1] = frames[1]
    BY <2>1
  <2>4. frames = <<>> => frames' = <<f>>
    BY <2>1 DEF fs
  <2> QED
    BY <1>3, <2>1, <2>2, <2>3, <2>4 DEF NoEnd, TerminatorIsLast
<1>4. CASE ~connected
  <2>1. frames' = frames
    BY <1>1, <1>2, <1>4, Emitted
  <2> QED
    BY <1>4, <2>1 DEF NoEnd, TerminatorIsLast
<1> QED
  BY <1>3, <1>4

\* The terminator, alone or after an error.
LEMMA EmittedEnd ==
  ASSUME frames \in Seq(Frames), connected \in BOOLEAN, NoEnd,
         NEW fs, fs = <<End>> \/ fs = <<Error, End>>, Emit(fs)
  PROVE  /\ frames' \in Seq(Frames)
         /\ TerminatorIsLast'
         /\ frames # <<>> => frames' # <<>> /\ frames'[1] = frames[1]
         /\ frames = <<>> => frames' = IF connected THEN fs ELSE <<>>
<1>1. End \in Frames /\ Error \in Frames /\ End.kind = "end" /\ Error.kind = "error"
  BY DEF End, Error, Frame, Frames, FrameKinds
<1>2. /\ fs \in Seq(Frames) /\ Len(fs) \in Nat \ {0}
      /\ \A i \in 1..Len(fs) : fs[i].kind = "end" => i = Len(fs)
  <2>1. CASE fs = <<End>>
    BY <1>1, <2>1
  <2>2. CASE fs = <<Error, End>>
    BY <1>1, <2>2
  <2> QED
    BY <2>1, <2>2
<1>5. CASE connected
  <2>1. /\ frames' \in Seq(Frames) /\ Len(frames') = Len(frames) + Len(fs)
        /\ \A i \in 1..Len(frames) : frames'[i] = frames[i]
        /\ \A i \in 1..Len(fs) : frames'[Len(frames) + i] = fs[i]
        /\ frames = <<>> => frames' = fs
    BY <1>2, <1>5, Emitted
  <2>2. ASSUME NEW i \in 1..Len(frames'), frames'[i].kind = "end" PROVE i = Len(frames')
    <3>1. i \notin 1..Len(frames)
      BY <2>1, <2>2 DEF NoEnd
    <3>2. i - Len(frames) \in 1..Len(fs) /\ i = Len(frames) + (i - Len(frames))
      BY <1>2, <2>1, <2>2, <3>1
    <3>3. fs[i - Len(frames)].kind = "end"
      BY <2>1, <2>2, <3>2
    <3> QED
      BY <1>2, <2>1, <3>2, <3>3
  <2>3. TerminatorIsLast'
    BY <2>2 DEF TerminatorIsLast
  <2>4. frames # <<>> => frames' # <<>> /\ frames'[1] = frames[1]
    BY <1>2, <2>1
  <2> QED
    BY <1>5, <2>1, <2>3, <2>4
<1>6. CASE ~connected
  <2>1. frames' = frames
    BY <1>2, <1>6, Emitted
  <2> QED
    BY <1>6, <2>1 DEF NoEnd, TerminatorIsLast
<1> QED
  BY <1>5, <1>6

\* The steps that publish nothing: of dispatchPrompt and the chain.
LEMMA SilentDispatchSteps ==
  ASSUME Abandons = FALSE, DispatchInv,
         Receive \/ Admitted \/ Disconnect
           \/ \E how \in {"returned", "threw"} : ChainSettles(how)
  PROVE  DispatchInv'
<1> USE DEF DispatchInv, handlerVars, TerminatorIsLast, NoEnd
<1>1. CASE Receive
  BY <1>1 DEF Receive, HostTypeOK, Nested, FirstFrame, OwnReplies
<1>2. CASE Admitted
  BY <1>2 DEF Admitted, HostTypeOK, Nested, FirstFrame, OwnReplies
<1>3. CASE Disconnect
  BY <1>3 DEF Disconnect, HostTypeOK, Nested, FirstFrame, OwnReplies
<1>4. ASSUME NEW how \in {"returned", "threw"}, ChainSettles(how) PROVE DispatchInv'
  BY <1>4 DEF ChainSettles, HostTypeOK, Nested, FirstFrame, OwnReplies
<1> QED
  BY <1>1, <1>2, <1>3, <1>4

\* The steps that publish nothing: of the handler, and the replies of the caller.
LEMMA SilentHandlerSteps ==
  ASSUME DispatchInv,
         AskSubscribe \/ AskAnswered \/ AskFails \/ AnyReply
           \/ \E how \in {"done", "failed"} : HandlerEnds(how)
  PROVE  DispatchInv'
<1> USE DEF DispatchInv, handlerVars, TerminatorIsLast, NoEnd
<1>1. CASE AskSubscribe
  BY <1>1, DispatchBoundsAssumption
     DEF AskSubscribe, Idle, HostTypeOK, Nested, FirstFrame, OwnReplies
<1>2. CASE AskAnswered
  <2>1. PICK r \in mail[asked] : answers' = [answers EXCEPT ![asked] = r]
    BY <1>2 DEF AskAnswered
  <2>2. answers' \in [Questions -> 0..MaxQuestions] /\ OwnReplies'
    <3>1. asked \in Questions => r = asked
      BY <2>1 DEF OwnReplies
    <3> QED
      BY <1>2, <2>1, <3>1, DispatchBoundsAssumption
         DEF AskAnswered, HostTypeOK, OwnReplies, Questions
  <2> QED
    BY <1>2, <2>2 DEF AskAnswered, HostTypeOK, Nested, FirstFrame
<1>3. CASE AskFails
  BY <1>3 DEF AskFails, HostTypeOK, Nested, FirstFrame, OwnReplies
<1>4. CASE AnyReply
  <2>1. PICK i \in 1..Len(frames) : Reply(frames[i].n)
    BY <1>4 DEF AnyReply
  <2> DEFINE q == frames[i].n
  <2>2. mail' = mail \/ mail' = [mail EXCEPT ![q] = @ \cup {q}]
    BY <2>1 DEF Reply, Inbox
  <2>3. mail' \in [Questions -> SUBSET Questions] /\ \A o \in Questions : mail'[o] \subseteq {o}
    <3> HIDE DEF q
    <3>1. CASE q \in Questions
      BY <2>2, <3>1 DEF HostTypeOK, OwnReplies
    <3>2. CASE q \notin Questions
      BY <2>2, <3>2 DEF HostTypeOK, OwnReplies
    <3> QED
      BY <3>1, <3>2
  <2>4. OwnReplies'
    BY <2>1, <2>3 DEF Reply, OwnReplies, Questions
  <2> QED
    BY <2>1, <2>3, <2>4 DEF Reply, HostTypeOK, Nested, FirstFrame
<1>5. ASSUME NEW how \in {"done", "failed"}, HandlerEnds(how) PROVE DispatchInv'
  BY <1>5 DEF HandlerEnds, Idle, HostTypeOK, Nested, FirstFrame, OwnReplies
<1> QED
  BY <1>1, <1>2, <1>3, <1>4, <1>5

\* The steps that publish one frame: next() and the keep-alive, the handler's own.
LEMMA FrameSteps ==
  ASSUME DispatchInv,
         CallNext \/ KeepAliveTick \/ SendChunk \/ CallerListening \/ AskPublish
  PROVE  DispatchInv'
<1> USE DEF DispatchInv, handlerVars
<1>0. /\ Ack \in Frames /\ Ack.kind # "end"
      /\ \A n \in Nat, k \in {"chunk", "query"} : Frame(k, n) \in Frames /\ Frame(k, n).kind # "end"
  BY DEF Ack, Frame, Frames, FrameKinds
<1>1. CASE CallNext
  <2>1. CASE handler = "notStarted"
    <3>1. NoEnd /\ frames = <<>> /\ Emit(<<Ack>>) /\ phase' = "serving" /\ handler' = "running"
      BY <1>1, <2>1 DEF CallNext, MayCallNext, Nested, FirstFrame
    <3>2. /\ frames' \in Seq(Frames) /\ NoEnd' /\ TerminatorIsLast'
          /\ IF connected THEN frames' = <<Ack>> ELSE frames' = <<>>
      BY <1>0, <3>1, EmittedOne DEF HostTypeOK
    <3>3. HostTypeOK'
      <4>1. nexts' \in 0..MaxNext /\ timer' \in BOOLEAN
        BY <1>1, <2>1, FlagsAssumption, DispatchBoundsAssumption DEF CallNext, HostTypeOK
      <4> QED
        BY <1>1, <3>1, <3>2, <4>1 DEF CallNext, HostTypeOK
    <3>4. Nested' /\ OwnReplies'
      BY <1>1, <2>1, <3>1 DEF CallNext, MayCallNext, Nested, OwnReplies
    <3>5. FirstFrame'
      BY <1>1, <3>1, <3>2 DEF CallNext, FirstFrame
    <3> QED
      BY <3>2, <3>3, <3>4, <3>5
  <2>2. CASE handler # "notStarted"
    <3>1. nexts' \in 0..MaxNext
      BY <1>1, DispatchBoundsAssumption DEF CallNext, HostTypeOK
    <3> QED
      BY <1>1, <2>2, <3>1 DEF CallNext, MayCallNext, HostTypeOK, Nested, FirstFrame, OwnReplies,
                              TerminatorIsLast, NoEnd
  <2> QED
    BY <2>1, <2>2
<1>2. ASSUME KeepAliveTick \/ SendChunk \/ CallerListening \/ AskPublish PROVE DispatchInv'
  <2>1. PICK f \in Frames : f.kind # "end" /\ Emit(<<f>>)
    <3>1. CASE KeepAliveTick \/ CallerListening
      BY <1>0, <3>1 DEF KeepAliveTick, CallerListening
    <3>2. CASE SendChunk
      <4>1. Emit(<<Frame("chunk", sent + 1)>>) /\ sent + 1 \in Nat
        BY <3>2 DEF SendChunk, HostTypeOK
      <4>2. Frame("chunk", sent + 1) \in Frames /\ Frame("chunk", sent + 1).kind # "end"
        BY <1>0, <4>1
      <4> QED
        BY <4>1, <4>2
    <3>3. CASE AskPublish
      <4>1. Emit(<<Frame("query", asked)>>) /\ asked \in Nat
        BY <3>3 DEF AskPublish, HostTypeOK
      <4>2. Frame("query", asked) \in Frames /\ Frame("query", asked).kind # "end"
        BY <1>0, <4>1
      <4> QED
        BY <4>1, <4>2
    <3> QED
      BY <1>2, <3>1, <3>2, <3>3
  <2>2. phase = "serving" /\ handler # "notStarted"
    BY <1>2 DEF KeepAliveTick, SendChunk, CallerListening, AskPublish, Idle, Nested
  <2>3. UNCHANGED <<phase, handler, chain, nexts, connected, asked, mail, answers>>
    BY <1>2 DEF KeepAliveTick, SendChunk, CallerListening, AskPublish
  <2>4. /\ frames' \in Seq(Frames) /\ NoEnd' /\ TerminatorIsLast'
        /\ frames # <<>> => frames' # <<>> /\ frames'[1] = frames[1]
        /\ frames = <<>> /\ ~connected => frames' = <<>>
    BY <2>1, <2>2, EmittedOne DEF HostTypeOK, FirstFrame
  <2>5. FirstFrame'
    BY <2>2, <2>3, <2>4 DEF FirstFrame
  <2>6. sent' \in 0..MaxChunks /\ timer' \in BOOLEAN /\ asking' \in {"no", "subscribed", "published"}
    BY <1>2, DispatchBoundsAssumption
       DEF KeepAliveTick, SendChunk, CallerListening, AskPublish, HostTypeOK
  <2>7. HostTypeOK'
    BY <2>3, <2>4, <2>6 DEF HostTypeOK
  <2>8. Nested' /\ OwnReplies'
    BY <1>2, <2>2, <2>3
       DEF KeepAliveTick, SendChunk, CallerListening, AskPublish, Idle, Nested, OwnReplies
  <2> QED
    BY <2>4, <2>5, <2>7, <2>8
<1> QED
  BY <1>1, <1>2

\* The ways out of dispatchPrompt: a malformed request, a refused one, a served one.
LEMMA EndSteps ==
  ASSUME Abandons = FALSE, DispatchInv, Malformed \/ NotAdmitted \/ Dispatched
  PROVE  DispatchInv'
<1> USE DEF DispatchInv, handlerVars
<1>1. PICK fs : (fs = <<End>> \/ fs = <<Error, End>>) /\ Emit(fs)
                /\ (handler = "notStarted" => fs = <<Error, End>>)
  BY DEF Malformed, NotAdmitted, Dispatched, Served, Answered
<1>2. phase # "ended" /\ phase' = "ended" /\ NoEnd
  BY DEF Malformed, NotAdmitted, Dispatched, FirstFrame
<1>3. UNCHANGED <<chain, nexts, handler, connected, sent, asked, asking, mail, answers>>
  BY DEF Malformed, NotAdmitted, Dispatched
<1>4. /\ frames' \in Seq(Frames) /\ TerminatorIsLast'
      /\ frames # <<>> => frames' # <<>> /\ frames'[1] = frames[1]
      /\ frames = <<>> => frames' = IF connected THEN fs ELSE <<>>
  BY <1>1, <1>2, EmittedEnd DEF HostTypeOK
<1>5. handler = "notStarted" => frames' \in {<<>>, <<Error, End>>}
  BY <1>1, <1>2, <1>4 DEF FirstFrame
<1>6. HostTypeOK'
  BY <1>2, <1>3, <1>4 DEF HostTypeOK, Malformed, NotAdmitted, Dispatched
<1>7. Nested'
  BY <1>2, <1>3 DEF Nested, Malformed, NotAdmitted, Dispatched, HostTypeOK
<1>8. FirstFrame'
  BY <1>2, <1>3, <1>4, <1>5 DEF FirstFrame
<1>9. OwnReplies'
  BY <1>3 DEF OwnReplies
<1> QED
  BY <1>4, <1>6, <1>7, <1>8, <1>9

\* A prompt begins with nothing published.
LEMMA InitDispatchInv == HostInit => DispatchInv
<1> SUFFICES ASSUME HostInit PROVE DispatchInv
  OBVIOUS
<1>1. frames \in Seq(Frames) /\ Len(frames) = 0
  BY DEF HostInit
<1>2. HostTypeOK
  <2>1. mail \in [Questions -> SUBSET Questions] /\ answers \in [Questions -> 0..MaxQuestions]
    BY DispatchBoundsAssumption DEF HostInit
  <2>2. nexts \in 0..MaxNext /\ sent \in 0..MaxChunks /\ asked \in 0..MaxQuestions
    BY DispatchBoundsAssumption DEF HostInit
  <2> QED
    BY <1>1, <2>1, <2>2 DEF HostInit, HostTypeOK
<1>3. Nested /\ FirstFrame /\ TerminatorIsLast
  BY <1>1 DEF HostInit, Nested, FirstFrame, NoEnd, TerminatorIsLast
<1>4. OwnReplies
  BY DEF HostInit, OwnReplies
<1> QED
  BY <1>2, <1>3, <1>4 DEF DispatchInv

\* Every step of the host, and every reply of the caller, keeps the invariant.
LEMMA DispatchInvKept ==
  ASSUME Abandons = FALSE, DispatchInv, [HostNext \/ AnyReply]_hostVars
  PROVE  DispatchInv'
<1>1. CASE UNCHANGED hostVars
  BY <1>1 DEF hostVars, handlerVars, DispatchInv, HostTypeOK, Nested, FirstFrame, NoEnd,
              TerminatorIsLast, OwnReplies
<1>2. CASE DispatchStep
  BY <1>2, SilentDispatchSteps, EndSteps DEF DispatchStep
<1>3. CASE ChainStep
  BY <1>3, SilentDispatchSteps, FrameSteps DEF ChainStep
<1>4. CASE HandlerStep
  BY <1>4, SilentHandlerSteps, FrameSteps DEF HandlerStep
<1>5. CASE Disconnect \/ KeepAliveTick \/ AnyReply
  BY <1>5, SilentDispatchSteps, SilentHandlerSteps, FrameSteps
<1> QED
  BY <1>1, <1>2, <1>3, <1>4, <1>5 DEF HostNext, HostTask

(* The reply stream of a prompt is one a caller can read: nothing follows  *)
(* the terminator, a refusal is an error and the terminator and no more,   *)
(* and what ask() resolves with answers its own question (service.ts:      *)
(* dispatchPrompt, PromptResponse), as long as no interceptor leaves the   *)
(* next() it called running behind its back.                               *)
THEOREM RepliesSound == Abandons = FALSE => (HostSpec => []ReplyStreamSound)
<1> SUFFICES ASSUME Abandons = FALSE PROVE HostSpec => []ReplyStreamSound
  OBVIOUS
<1>1. DispatchInv /\ [HostNext \/ AnyReply]_hostVars => DispatchInv'
  BY DispatchInvKept
<1>2. DispatchInv => ReplyStreamSound
  <2> SUFFICES ASSUME DispatchInv PROVE ReplyStreamSound
    OBVIOUS
  <2>1. RefusalIsFinal
    <3>1. Ack # Error
      BY DEF Ack, Error, Frame
    <3> QED
      BY <3>1 DEF DispatchInv, FirstFrame, RefusalIsFinal
  <2>2. AnswerIsToItsQuestion
    BY DEF DispatchInv, HostTypeOK, OwnReplies, AnswerIsToItsQuestion
  <2> QED
    BY <2>1, <2>2 DEF DispatchInv, ReplyStreamSound
<1> QED
  BY <1>1, <1>2, InitDispatchInv, PTL DEF HostSpec

(* The handler of a prompt runs once, whatever the interceptors do: also   *)
(* where they leave next() running, call it again, or throw (service.ts:   *)
(* serve; "request interceptor called next() more than once").             *)
THEOREM HandlerRunsOnce == HostSpec => ServedOnce
<1>1. [HostNext \/ AnyReply]_hostVars => [(handler \in {"done", "failed"}) => handler' = handler]_hostVars
  <2> SUFFICES ASSUME HostNext \/ AnyReply, handler \in {"done", "failed"}
               PROVE  handler' = handler
    OBVIOUS
  <2>1. CASE DispatchStep
    BY <2>1 DEF DispatchStep, Malformed, Receive, NotAdmitted, Admitted, Dispatched
  <2>2. CASE ChainStep
    BY <2>2 DEF ChainStep, CallNext, ChainSettles
  <2>3. CASE HandlerStep
    BY <2>3 DEF HandlerStep, Idle, SendChunk, CallerListening, AskSubscribe, AskPublish,
                AskAnswered, AskFails, HandlerEnds
  <2>4. CASE Disconnect \/ KeepAliveTick
    BY <2>4 DEF Disconnect, KeepAliveTick
  <2>5. CASE AnyReply
    BY <2>5 DEF AnyReply, Reply
  <2> QED
    BY <2>1, <2>2, <2>3, <2>4, <2>5 DEF HostNext, HostTask
<1> QED
  BY <1>1, PTL DEF HostSpec, ServedOnce

(***************************************************************************)
(* The sender resolver.  What an enumeration hears is not older than its   *)
(* beginning, no enumeration lasts longer than GatherTime, and no caller   *)
(* reads an index that was built before it asked.                          *)
(***************************************************************************)

Replies == [Registered -> Nat \cup {-1}]

LookupIds == ResolverIds \cup {CHOOSE d \in ResolverIds : TRUE}

LookupRecords ==
  [state : {"idle", "waiting", "reading", "returned", "rejected"}, id : LookupIds,
   began : Nat \cup {-1}, found : SUBSET [instance : Registered, at : Nat \cup {-1}]]

ResolverTypeOK ==
  /\ clock \in Nat
  /\ builtAt \in Nat \cup {-1}
  /\ index \in Replies
  /\ gathering \in [began : Nat \cup {-1}, replies : Replies]
  /\ lookup \in [Callers -> LookupRecords]

\* The enumeration in flight is young, and has heard nothing before it began.
GatheringIsYoung ==
  gathering.began # -1 =>
    /\ gathering.began <= clock /\ clock - gathering.began <= GatherTime
    /\ \A i \in Registered : gathering.replies[i] # -1 => gathering.replies[i] >= gathering.began

\* The index is at most an enumeration older than the moment it was built.
IndexIsOfItsTime ==
  /\ builtAt <= clock
  /\ \A i \in Registered : index[i] # -1 => builtAt # -1 /\ index[i] + GatherTime >= builtAt

\* Whoever waits asked before the enumeration's time was up; whoever reads, reads
\* what was heard at most GatherTime before it asked.
AskedInTime ==
  \A c \in Callers :
    /\ lookup[c].state = "waiting" =>
         gathering.began # -1 /\ gathering.began + GatherTime >= lookup[c].began
    /\ lookup[c].state = "reading" =>
         \A i \in Registered : index[i] # -1 => index[i] + GatherTime >= lookup[c].began

ResolverInv ==
  /\ ResolverTypeOK
  /\ GatheringIsYoung
  /\ IndexIsOfItsTime
  /\ AskedInTime
  /\ LookupIsRecent

\* What the index holds under an ID.
LEMMA HeldIsTyped ==
  ASSUME index \in Replies, NEW d
  PROVE  /\ Held(d) \in SUBSET [instance : Registered, at : Nat \cup {-1}]
         /\ \A r \in Held(d) : /\ r.instance \in Registered /\ IdOf[r.instance] = d
                               /\ r.at = index[r.instance] /\ r.at \in Nat
  BY DEF Held, Replies

\* A lookup that has another state and another result is still one.
LEMMA LookupStillTyped ==
  ASSUME NEW l \in LookupRecords,
         NEW s \in {"idle", "waiting", "reading", "returned", "rejected"},
         NEW f \in SUBSET [instance : Registered, at : Nat \cup {-1}]
  PROVE  [l EXCEPT !.state = s, !.found = f] \in LookupRecords
  BY DEF LookupRecords

\* A call to resolve(): answered from the index, or waiting for an enumeration.
LEMMA ResolveKeeps ==
  ASSUME ResolverInv, NEW c \in Callers, NEW d \in ResolverIds, Resolve(c, d)
  PROVE  ResolverInv'
<1> DEFINE fresh == builtAt # -1 /\ clock - builtAt < Ttl
<1>0. Ttl \in Nat /\ GatherTime \in Nat
  BY ResolverAssumption
<1>1. /\ Held(d) \in SUBSET [instance : Registered, at : Nat \cup {-1}]
      /\ \A r \in Held(d) : /\ r.instance \in Registered /\ IdOf[r.instance] = d
                            /\ r.at = index[r.instance] /\ r.at \in Nat
  BY HeldIsTyped DEF ResolverInv, ResolverTypeOK
<1>2. UNCHANGED <<clock, index, builtAt>>
  BY DEF Resolve
<1>3. CASE fresh
  <2>1. /\ lookup' = [lookup EXCEPT ![c] = [state |-> "returned", id |-> d, began |-> clock,
                                           found |-> Held(d)]]
        /\ UNCHANGED gathering
    BY <1>3 DEF Resolve
  <2>2. ResolverTypeOK'
    BY <1>1, <1>2, <2>1 DEF ResolverInv, ResolverTypeOK, LookupRecords, LookupIds
  <2>3. GatheringIsYoung' /\ IndexIsOfItsTime' /\ AskedInTime'
    BY <1>2, <2>1 DEF ResolverInv, ResolverTypeOK, GatheringIsYoung, IndexIsOfItsTime, AskedInTime
  <2>4. \A r \in Held(d) : r.at + GatherTime + (IF Ttl = 0 THEN 0 ELSE Ttl - 1) >= clock
    BY <1>0, <1>1, <1>3 DEF ResolverInv, ResolverTypeOK, IndexIsOfItsTime
  <2>5. LookupIsRecent'
    BY <1>1, <2>1, <2>4 DEF ResolverInv, ResolverTypeOK, LookupIsRecent
  <2> QED
    BY <2>2, <2>3, <2>5 DEF ResolverInv
<1>4. CASE ~fresh
  <2>1. lookup' = [lookup EXCEPT ![c] = [state |-> "waiting", id |-> d, began |-> clock,
                                        found |-> {}]]
    BY <1>4 DEF Resolve
  <2>2. gathering' = IF gathering.began # -1 THEN gathering
                     ELSE [began |-> clock, replies |-> EmptyIndex]
    BY <1>4 DEF Resolve, NotRunning
  <2>3. EmptyIndex \in Replies
    BY DEF EmptyIndex, Replies
  <2>4. ResolverTypeOK'
    BY <1>2, <2>1, <2>2, <2>3 DEF ResolverInv, ResolverTypeOK, LookupRecords, LookupIds
  <2>5. GatheringIsYoung' /\ gathering'.began # -1 /\ gathering'.began + GatherTime >= clock
        /\ (gathering.began # -1 => gathering' = gathering)
    BY <1>0, <1>2, <2>2 DEF ResolverInv, ResolverTypeOK, GatheringIsYoung, EmptyIndex
  <2>6. IndexIsOfItsTime'
    BY <1>2 DEF ResolverInv, IndexIsOfItsTime
  <2>7. AskedInTime'
    BY <1>2, <2>1, <2>5 DEF ResolverInv, ResolverTypeOK, AskedInTime
  <2>8. LookupIsRecent'
    BY <2>1 DEF ResolverInv, ResolverTypeOK, LookupIsRecent
  <2> QED
    BY <2>4, <2>5, <2>6, <2>7, <2>8 DEF ResolverInv
<1> QED
  BY <1>3, <1>4

\* The enumeration: an answer, its end, its failure.
LEMMA GatheringKeeps ==
  ASSUME ResolverInv,
         EnumerationEnds \/ EnumerationFails \/ \E i \in Registered : InfoReply(i)
  PROVE  ResolverInv'
<1>0. GatherTime \in Nat
  BY ResolverAssumption
<1>1. ASSUME NEW i \in Registered, InfoReply(i) PROVE ResolverInv'
  <2>1. gathering' = [gathering EXCEPT !.replies[i] = clock] /\ gathering.began # -1
    BY <1>1 DEF InfoReply
  <2>2. UNCHANGED <<clock, index, builtAt, lookup>>
    BY <1>1 DEF InfoReply
  <2>3. ResolverTypeOK' /\ GatheringIsYoung'
    BY <2>1, <2>2 DEF ResolverInv, ResolverTypeOK, GatheringIsYoung, Replies
  <2>4. IndexIsOfItsTime' /\ AskedInTime' /\ LookupIsRecent'
    BY <2>1, <2>2 DEF ResolverInv, ResolverTypeOK, IndexIsOfItsTime, AskedInTime, LookupIsRecent
  <2> QED
    BY <2>3, <2>4 DEF ResolverInv
<1>2. NotRunning \in [began : Nat \cup {-1}, replies : Replies] /\ NotRunning.began = -1
  BY DEF NotRunning, EmptyIndex, Replies
<1>3. ASSUME NEW how \in {"reading", "rejected"}, lookup' = Wake(how), ResolverTypeOK
      PROVE  /\ lookup' \in [Callers -> LookupRecords]
             /\ \A c \in Callers :
                  /\ lookup'[c].state = IF lookup[c].state = "waiting" THEN how ELSE lookup[c].state
                  /\ lookup'[c].id = lookup[c].id /\ lookup'[c].began = lookup[c].began
                  /\ lookup'[c].found = lookup[c].found
  BY <1>3 DEF Wake, ResolverTypeOK, LookupRecords
<1>4. CASE EnumerationFails
  <2>1. gathering' = NotRunning /\ lookup' = Wake("rejected") /\ UNCHANGED <<clock, index, builtAt>>
    BY <1>4 DEF EnumerationFails
  <2>2. ResolverTypeOK'
    BY <1>2, <1>3, <2>1 DEF ResolverInv, ResolverTypeOK
  <2>3. GatheringIsYoung' /\ IndexIsOfItsTime'
    BY <1>2, <2>1 DEF ResolverInv, GatheringIsYoung, IndexIsOfItsTime
  <2>4. AskedInTime' /\ LookupIsRecent'
    BY <1>3, <2>1 DEF ResolverInv, AskedInTime, LookupIsRecent
  <2> QED
    BY <2>2, <2>3, <2>4 DEF ResolverInv
<1>5. CASE EnumerationEnds
  <2>1. /\ gathering' = NotRunning /\ lookup' = Wake("reading") /\ index' = gathering.replies
        /\ builtAt' = clock /\ clock' = clock /\ gathering.began # -1
        /\ \A c \in Callers : lookup[c].state # "reading"
    BY <1>5 DEF EnumerationEnds, NobodyReading
  <2>2. ResolverTypeOK'
    BY <1>2, <1>3, <2>1 DEF ResolverInv, ResolverTypeOK
  <2>3. GatheringIsYoung'
    BY <1>2, <2>1 DEF GatheringIsYoung
  <2>4. IndexIsOfItsTime'
    BY <1>0, <2>1 DEF ResolverInv, ResolverTypeOK, GatheringIsYoung, IndexIsOfItsTime, Replies
  <2>5. AskedInTime'
    <3> SUFFICES ASSUME NEW c \in Callers, lookup'[c].state \in {"waiting", "reading"}
                 PROVE  /\ lookup'[c].state = "reading"
                        /\ \A i \in Registered :
                             index'[i] # -1 => index'[i] + GatherTime >= lookup'[c].began
      BY DEF AskedInTime
    <3>1. lookup[c].state = "waiting" /\ lookup'[c].state = "reading" /\ lookup'[c].began = lookup[c].began
      BY <1>3, <2>1 DEF ResolverInv
    <3>2. gathering.began + GatherTime >= lookup[c].began
      BY <3>1 DEF ResolverInv, AskedInTime
    <3>3. gathering.began \in Nat /\ lookup[c].began \in Nat \cup {-1} /\ gathering.replies \in Replies
      BY <2>1 DEF ResolverInv, ResolverTypeOK, LookupRecords
    <3> QED
      BY <1>0, <2>1, <3>1, <3>2, <3>3 DEF ResolverInv, GatheringIsYoung, Replies
  <2>6. LookupIsRecent'
    BY <1>3, <2>1 DEF ResolverInv, LookupIsRecent
  <2> QED
    BY <2>2, <2>3, <2>4, <2>5, <2>6 DEF ResolverInv
<1> QED
  BY <1>1, <1>4, <1>5

\* A caller reads the index; the index is dropped; agents and time come and go.
LEMMA OthersKeep ==
  ASSUME ResolverInv,
         \/ \E c \in Callers : ReadIndex(c)
         \/ Invalidate \/ (\E i \in Registered : Relist(i)) \/ ResolverTick
         \/ UNCHANGED resolverVars
  PROVE  ResolverInv'
<1>0. GatherTime \in Nat /\ Ttl \in Nat
  BY ResolverAssumption
<1>1. ASSUME NEW c \in Callers, ReadIndex(c) PROVE ResolverInv'
  <2> DEFINE d == lookup[c].id
  <2>1. /\ Held(d) \in SUBSET [instance : Registered, at : Nat \cup {-1}]
        /\ \A r \in Held(d) : /\ r.instance \in Registered /\ IdOf[r.instance] = d
                              /\ r.at = index[r.instance] /\ r.at \in Nat
    BY HeldIsTyped DEF ResolverInv, ResolverTypeOK
  <2>2. /\ lookup' = [lookup EXCEPT ![c].state = "returned", ![c].found = Held(d)]
        /\ lookup[c].state = "reading" /\ UNCHANGED <<clock, index, builtAt, gathering>>
    BY <1>1 DEF ReadIndex
  <2>3. ResolverTypeOK'
    <3> DEFINE now == [lookup[c] EXCEPT !.state = "returned", !.found = Held(d)]
    <3>1. lookup \in [Callers -> LookupRecords] /\ lookup[c] \in LookupRecords
      BY DEF ResolverInv, ResolverTypeOK
    <3>2. now \in LookupRecords
      BY <2>1, <3>1, LookupStillTyped
    <3>3. lookup' = [lookup EXCEPT ![c] = now]
      BY <2>2, <3>1
    <3> HIDE DEF now
    <3>4. lookup' \in [Callers -> LookupRecords]
      BY <3>1, <3>2, <3>3
    <3> QED
      BY <2>2, <3>4 DEF ResolverInv, ResolverTypeOK
  <2>4. GatheringIsYoung' /\ IndexIsOfItsTime' /\ AskedInTime'
    BY <2>2 DEF ResolverInv, ResolverTypeOK, GatheringIsYoung, IndexIsOfItsTime, AskedInTime
  <2>5. \A r \in Held(d) : r.at + GatherTime + (IF Ttl = 0 THEN 0 ELSE Ttl - 1) >= lookup[c].began
    <3>1. \A i \in Registered : index[i] # -1 => index[i] + GatherTime >= lookup[c].began
      BY <2>2 DEF ResolverInv, AskedInTime
    <3>2. lookup[c].began \in Nat \cup {-1}
      BY DEF ResolverInv, ResolverTypeOK, LookupRecords
    <3> QED
      BY <1>0, <2>1, <3>1, <3>2
  <2>6. LookupIsRecent'
    BY <2>1, <2>2, <2>5 DEF ResolverInv, ResolverTypeOK, LookupIsRecent
  <2> QED
    BY <2>3, <2>4, <2>6 DEF ResolverInv
<1>2. CASE Invalidate
  <2>1. index' = EmptyIndex /\ builtAt' = -1 /\ UNCHANGED <<clock, gathering, lookup>>
    BY <1>2 DEF Invalidate
  <2>2. EmptyIndex \in Replies /\ \A i \in Registered : EmptyIndex[i] = -1
    BY DEF EmptyIndex, Replies
  <2> QED
    BY <2>1, <2>2 DEF ResolverInv, ResolverTypeOK, GatheringIsYoung, IndexIsOfItsTime,
                      AskedInTime, LookupIsRecent
<1>3. ASSUME NEW i \in Registered, Relist(i) PROVE ResolverInv'
  BY <1>3 DEF Relist, ResolverInv, ResolverTypeOK, GatheringIsYoung, IndexIsOfItsTime,
              AskedInTime, LookupIsRecent
<1>4. CASE ResolverTick
  <2>1. /\ clock' = clock + 1 /\ UNCHANGED <<index, builtAt, gathering, lookup>>
        /\ gathering.began # -1 => clock - gathering.began < GatherTime
    BY <1>4 DEF ResolverTick
  <2> QED
    BY <1>0, <2>1 DEF ResolverInv, ResolverTypeOK, GatheringIsYoung, IndexIsOfItsTime,
                      AskedInTime, LookupIsRecent
<1>5. CASE UNCHANGED resolverVars
  BY <1>5 DEF resolverVars, ResolverInv, ResolverTypeOK, GatheringIsYoung, IndexIsOfItsTime,
              AskedInTime, LookupIsRecent
<1> QED
  BY <1>1, <1>2, <1>3, <1>4, <1>5

(* What resolve() returns was said by an instance of that ID at most one   *)
(* enumeration and one time to live before the call, and nobody waits for  *)
(* an enumeration that is over, whatever is shared, fails or is            *)
(* invalidated in between (resolve-sender.ts: resolve, invalidate).        *)
THEOREM LookupsSound == ResolverSpec => []SharedLookupSound
<1>1. ResolverInit => ResolverInv
  <2> SUFFICES ASSUME ResolverInit PROVE ResolverInv
    OBVIOUS
  <2>1. EmptyIndex \in Replies /\ \A i \in Registered : EmptyIndex[i] = -1
    BY DEF EmptyIndex, Replies
  <2>2. gathering \in [began : Nat \cup {-1}, replies : Replies] /\ gathering.began = -1
    BY <2>1 DEF ResolverInit, NotRunning
  <2>3. lookup \in [Callers -> LookupRecords]
        /\ \A c \in Callers : lookup[c].state = "idle"
    BY DEF ResolverInit, LookupRecords, LookupIds
  <2> QED
    BY <2>1, <2>2, <2>3 DEF ResolverInit, ResolverInv, ResolverTypeOK, GatheringIsYoung,
                            IndexIsOfItsTime, AskedInTime, LookupIsRecent
<1>2. ResolverInv /\ [ResolverNext]_resolverVars => ResolverInv'
  BY ResolveKeeps, GatheringKeeps, OthersKeep DEF ResolverNext
<1>3. ResolverInv => SharedLookupSound
  BY DEF ResolverInv, AskedInTime, GatheringIsYoung, SharedLookupSound, WaitersHaveEnumeration
<1> QED
  BY <1>1, <1>2, <1>3, PTL DEF ResolverSpec

(***************************************************************************)
(* The sender gate.  Its nonce cache keeps every entry that counts in the  *)
(* bucket of its expiry and nowhere else, so that a sweep of past buckets  *)
(* drops only what has expired.  In Python DropStale sees to it; in        *)
(* TypeScript it is so because a nonce that comes again comes in a copy of *)
(* the same message, with the same expiry: senders that sign another       *)
(* message with a nonce break it (the run gate_replay).                    *)
(***************************************************************************)

CacheType == [expiry  : [Nonces -> 0..(LastTick + Window)],
              buckets : [Buckets -> SUBSET Nonces]]

\* A nonce is in no other bucket than that of its expiry, and in that one while
\* it counts.
WellFiled(c, t) ==
  /\ \A d \in Buckets : \A n \in c.buckets[d] : c.expiry[n] # 0 /\ BucketOf(c.expiry[n]) = d
  /\ \A n \in Nonces : c.expiry[n] > t => n \in c.buckets[BucketOf(c.expiry[n])]

Live(c, t) == {n \in Nonces : c.expiry[n] > t}

\* In TypeScript an entry's expiry is that of the headers that carry its nonce.
FromHeaders(c) ==
  gateHost = "typescript" =>
    \A n \in Nonces : c.expiry[n] # 0 =>
      \E m \in Messages : header[m].kind = "signed" /\ header[m].nonce = n /\ Expires(m) = c.expiry[n]

Filed(c, t) == c \in CacheType /\ WellFiled(c, t) /\ FromHeaders(c)

\* Later is in a later bucket, or in the same.
LEMMA BucketsInOrder ==
  ASSUME NEW s \in Nat, NEW t \in Nat
  PROVE  /\ BucketOf(s) \in Nat /\ BucketOf(t) \in Nat
         /\ s <= t => BucketOf(s) <= BucketOf(t)
<1>1. Second \in Nat \ {0}
  BY GateAssumption
<1>2. ASSUME NEW x \in Nat PROVE x \div Second \in Nat
  BY <1>1
<1>3. ASSUME s <= t PROVE s \div Second <= t \div Second
  BY <1>1, <1>3
<1> QED
  BY <1>2, <1>3 DEF BucketOf

\* Every expiry has a bucket.
LEMMA ExpiryHasBucket ==
  ASSUME NEW e \in 0..(LastTick + Window)
  PROVE  e \in Nat /\ BucketOf(e) \in Buckets
<1>1. e \in Nat /\ LastTick + Window \in Nat /\ e <= LastTick + Window
  BY GateAssumption
<1>2. /\ BucketOf(e) \in Nat /\ BucketOf(LastTick + Window) \in Nat
      /\ BucketOf(e) <= BucketOf(LastTick + Window)
  BY <1>1, BucketsInOrder
<1> QED
  BY <1>1, <1>2 DEF Buckets

\* What is left when buckets are dropped: the same, or nothing.
LEMMA WithoutBuckets ==
  ASSUME NEW c \in CacheType, NEW t \in Nat, WellFiled(c, t), NEW gone \in SUBSET Buckets
  PROVE  LET r == Without(c, gone) IN
         /\ r \in CacheType /\ WellFiled(r, t)
         /\ FromHeaders(c) => FromHeaders(r)
         /\ \A n \in Nonces : r.expiry[n] = c.expiry[n] \/ r.expiry[n] = 0
         /\ \A n \in Nonces : c.expiry[n] > t /\ BucketOf(c.expiry[n]) \notin gone
                                => r.expiry[n] = c.expiry[n]
         /\ \A n \in Nonces : r.expiry[n] > t => BucketOf(c.expiry[n]) \notin gone
<1> DEFINE keys == UNION {c.buckets[d] : d \in gone}
           r == Without(c, gone)
<1>1. /\ c.expiry \in [Nonces -> 0..(LastTick + Window)]
      /\ c.buckets \in [Buckets -> SUBSET Nonces]
  BY DEF CacheType
<1>2. /\ r.expiry = [n \in Nonces |-> IF n \in keys THEN 0 ELSE c.expiry[n]]
      /\ r.buckets = [d \in Buckets |-> IF d \in gone THEN {} ELSE c.buckets[d]]
      /\ r = [expiry |-> r.expiry, buckets |-> r.buckets]
  BY DEF Without
<1>3. 0 \in 0..(LastTick + Window)
  BY GateAssumption
<1>4. r \in CacheType
  <2>1. r.expiry \in [Nonces -> 0..(LastTick + Window)]
    BY <1>1, <1>2, <1>3
  <2>2. r.buckets \in [Buckets -> SUBSET Nonces]
    BY <1>1, <1>2
  <2> HIDE DEF r
  <2> QED
    BY <1>2, <2>1, <2>2 DEF CacheType
<1>5. \A n \in Nonces : n \in keys => BucketOf(c.expiry[n]) \in gone
  BY DEF WellFiled
<1>6. \A n \in Nonces : c.expiry[n] > t /\ BucketOf(c.expiry[n]) \in gone => n \in keys
  BY DEF WellFiled
<1> HIDE DEF r, keys
<1>7. \A n \in Nonces : r.expiry[n] = IF n \in keys THEN 0 ELSE c.expiry[n]
  BY <1>2
<1>8. \A d \in Buckets : r.buckets[d] = IF d \in gone THEN {} ELSE c.buckets[d]
  BY <1>2
<1>9. WellFiled(r, t)
  <2>1. ASSUME NEW d \in Buckets, NEW n \in r.buckets[d]
        PROVE  r.expiry[n] # 0 /\ BucketOf(r.expiry[n]) = d
    <3>1. d \notin gone /\ n \in c.buckets[d] /\ n \in Nonces
      BY <1>1, <1>8, <2>1
    <3>2. c.expiry[n] # 0 /\ BucketOf(c.expiry[n]) = d
      BY <3>1 DEF WellFiled
    <3> QED
      BY <1>5, <1>7, <3>1, <3>2
  <2>2. ASSUME NEW n \in Nonces, r.expiry[n] > t PROVE n \in r.buckets[BucketOf(r.expiry[n])]
    <3>1. n \notin keys /\ r.expiry[n] = c.expiry[n]
      BY <1>7, <2>2
    <3>2. n \in c.buckets[BucketOf(c.expiry[n])] /\ BucketOf(c.expiry[n]) \notin gone
      BY <1>6, <2>2, <3>1 DEF WellFiled
    <3>3. BucketOf(c.expiry[n]) \in Buckets
      BY <1>1, ExpiryHasBucket
    <3> QED
      BY <1>8, <3>1, <3>2, <3>3
  <2> QED
    BY <2>1, <2>2 DEF WellFiled
<1>10. FromHeaders(c) => FromHeaders(r)
  BY <1>7 DEF FromHeaders
<1> QED
  BY <1>4, <1>5, <1>6, <1>7, <1>9, <1>10 DEF r

\* A sweep drops what has expired, and nothing that counts.
LEMMA SweepSound ==
  ASSUME NEW c, NEW t \in 0..LastTick, Filed(c, t)
  PROVE  /\ Filed(Sweep(c, t), t)
         /\ \A n \in Nonces : Sweep(c, t).expiry[n] \in {c.expiry[n], 0}
         /\ \A n \in Nonces : c.expiry[n] > t => Sweep(c, t).expiry[n] = c.expiry[n]
<1> DEFINE gone == {d \in Buckets : d < BucketOf(t)}
<1>1. t \in Nat /\ gone \in SUBSET Buckets /\ c \in CacheType
  BY GateAssumption DEF Filed
<1>2. \A n \in Nonces : c.expiry[n] > t => BucketOf(c.expiry[n]) \notin gone
  <2> SUFFICES ASSUME NEW n \in Nonces, c.expiry[n] > t PROVE BucketOf(c.expiry[n]) \notin gone
    OBVIOUS
  <2>1. c.expiry[n] \in Nat
    BY <1>1, ExpiryHasBucket DEF CacheType
  <2>2. BucketOf(t) \in Nat /\ BucketOf(c.expiry[n]) \in Nat /\ BucketOf(t) <= BucketOf(c.expiry[n])
    BY <1>1, <2>1, BucketsInOrder
  <2> QED
    BY <2>2
<1> HIDE DEF gone
<1>3. Sweep(c, t) = Without(c, gone)
  BY DEF Sweep, gone
<1> QED
  BY <1>1, <1>2, <1>3, WithoutBuckets DEF Filed

\* A set of natural numbers has a least element, and Min returns it.
LEMMA MinIsIn ==
  ASSUME NEW T \in SUBSET Nat, T # {}
  PROVE  Min(T) \in T
<1> DEFINE R == {ss \in Nat \X Nat : ss[1] < ss[2]}
<1>1. IsWellFoundedOn(R, Nat)
  BY NatLessThanWellFounded, Zenon DEF OpToRel
<1>2. PICK x \in T : \A y \in T : ~(<<y, x>> \in R)
  BY <1>1, WFMin
<1>3. ASSUME NEW y \in T PROVE x <= y
  <2>1. <<y, x>> \notin R /\ x \in Nat /\ y \in Nat
    BY <1>2
  <2> QED
    BY <2>1
<1> QED
  BY <1>2, <1>3 DEF Min

\* The last bucket there is.
LEMMA LastBucket ==
  /\ Max(Buckets) \in Buckets /\ Buckets \subseteq Nat
  /\ \A d \in Buckets : d <= Max(Buckets) /\ 0..d \subseteq Buckets
<1>1. BucketOf(LastTick + Window) \in Nat
  BY GateAssumption, BucketsInOrder
<1>2. \E d \in Buckets : \A g \in Buckets : d >= g
  BY <1>1 DEF Buckets
<1>3. Max(Buckets) \in Buckets /\ \A g \in Buckets : Max(Buckets) >= g
  BY <1>2 DEF Max
<1> QED
  BY <1>1, <1>3 DEF Buckets

\* The cap drops whole buckets from the oldest on, until what counts fits.
LEMMA CapSound ==
  ASSUME NEW c, NEW t \in 0..LastTick, Filed(c, t)
  PROVE  /\ Filed(EnforceCap(c), t)
         /\ \A n \in Nonces : EnforceCap(c).expiry[n] \in {c.expiry[n], 0}
         /\ Cardinality(Live(EnforceCap(c), t)) <= MaxEntries
<1>0. t \in Nat /\ MaxEntries \in Nat /\ IsFiniteSet(Nonces)
  BY GateAssumption
<1>1. ASSUME NEW e \in CacheType, Size(e) <= MaxEntries PROVE Cardinality(Live(e, t)) <= MaxEntries
  <2> DEFINE S == {n \in Nonces : e.expiry[n] # 0}
  <2>1. IsFiniteSet(S)
    BY <1>0, FS_Subset
  <2>2. Live(e, t) \in SUBSET S
    BY <1>0 DEF Live, CacheType
  <2>3. Cardinality(Live(e, t)) <= Cardinality(S) /\ IsFiniteSet(Live(e, t))
    BY <2>1, <2>2, FS_Subset
  <2>4. Cardinality(S) \in Nat /\ Cardinality(Live(e, t)) \in Nat
    BY <2>1, <2>3, FS_CardinalityType
  <2> QED
    BY <1>0, <1>1, <2>3, <2>4 DEF Size
<1>2. CASE Size(c) <= MaxEntries
  BY <1>1, <1>2 DEF EnforceCap, Filed
<1>3. CASE ~(Size(c) <= MaxEntries)
  <2> DEFINE T == {d \in Buckets : Size(Without(c, 0..d)) <= MaxEntries} \cup {Max(Buckets)}
             k == Min(T)
             r == Without(c, 0..k)
  <2>1. EnforceCap(c) = r
    BY <1>3 DEF EnforceCap
  <2>2. k \in T /\ k \in Buckets
    <3>1. T \in SUBSET Nat /\ T # {} /\ T \subseteq Buckets
      BY LastBucket
    <3> QED
      BY <3>1, MinIsIn
  <2>3. 0..k \in SUBSET Buckets
    BY <2>2, LastBucket
  <2> DEFINE gone == 0..k
  <2>4. /\ Filed(r, t)
        /\ \A n \in Nonces : r.expiry[n] \in {c.expiry[n], 0}
        /\ \A n \in Nonces : r.expiry[n] > t => BucketOf(c.expiry[n]) \notin gone
    <3> HIDE DEF gone
    <3>1. r = Without(c, gone) /\ gone \in SUBSET Buckets
      BY <2>3 DEF gone
    <3> HIDE DEF r
    <3> QED
      BY <1>0, <3>1, WithoutBuckets DEF Filed
  <2>5. Cardinality(Live(r, t)) <= MaxEntries
    <3>1. CASE Size(r) <= MaxEntries
      <4> HIDE DEF r
      <4> QED
        BY <1>1, <2>4, <3>1 DEF Filed
    <3>2. CASE ~(Size(r) <= MaxEntries)
      <4>1. k = Max(Buckets)
        BY <2>2, <3>2
      <4>2. Buckets \subseteq gone
        BY <4>1, LastBucket
      <4>3. \A n \in Nonces : BucketOf(c.expiry[n]) \in Buckets
        BY ExpiryHasBucket DEF Filed, CacheType
      <4>4. Live(r, t) = {}
        BY <2>4, <4>2, <4>3 DEF Live
      <4> QED
        BY <1>0, <4>4, FS_EmptySet
    <3> QED
      BY <3>1, <3>2
  <2> QED
    BY <2>1, <2>4, <2>5
<1> QED
  BY <1>2, <1>3

\* What an implementation's senders sign: in TypeScript a nonce is of one message
\* and its copies.
HeadersFresh ==
  /\ gateHost \in Hosts
  /\ header \in [Messages -> [kind : Kinds, nonce : Nonces, ts : Stamps]]
  /\ gateHost = "typescript" =>
       \A m, k \in Messages :
         header[m].kind = "signed" /\ header[k].kind = "signed"
           /\ header[m].nonce = header[k].nonce => header[m].ts = header[k].ts

\* A header's expiry is one the cache can hold.
LEMMA ExpiryTyped ==
  ASSUME HeadersFresh, NEW m \in Messages
  PROVE  Expires(m) \in 1..(LastTick + Window) /\ header[m].nonce \in Nonces
<1>1. header[m].ts \in 0..LastTick /\ header[m].nonce \in Nonces
  BY GateAssumption DEF HeadersFresh
<1> QED
  BY <1>1, GateAssumption DEF Expires

\* A nonce that has expired makes room for its next use.
LEMMA DropStaleSound ==
  ASSUME NEW c, NEW t \in 0..LastTick, Filed(c, t), NEW n \in Nonces, c.expiry[n] <= t
  PROVE  /\ Filed(DropStale(c, n), t)
         /\ DropStale(c, n).expiry = c.expiry
         /\ gateHost = "python" => \A d \in Buckets : n \notin DropStale(c, n).buckets[d]
<1>0. /\ t \in Nat /\ c \in CacheType /\ BucketOf(c.expiry[n]) \in Buckets /\ c.expiry[n] \in Nat
      /\ c.expiry \in [Nonces -> 0..(LastTick + Window)] /\ c.buckets \in [Buckets -> SUBSET Nonces]
  BY GateAssumption, ExpiryHasBucket DEF Filed, CacheType
<1>1. CASE gateHost = "python" /\ c.expiry[n] # 0
  <2> DEFINE bucket == BucketOf(c.expiry[n])
             left == [c.buckets EXCEPT ![bucket] = @ \ {n}]
  <2>1. DropStale(c, n) = [c EXCEPT !.buckets = left]
    BY <1>0, <1>1 DEF DropStale, CacheType
  <2>2. left \in [Buckets -> SUBSET Nonces] /\ \A d \in Buckets : left[d] \subseteq c.buckets[d]
    BY <1>0
  <2>3. \A d \in Buckets : n \notin left[d]
    BY <1>0 DEF Filed, WellFiled
  <2>4. \A o \in Nonces, d \in Buckets : o # n /\ o \in c.buckets[d] => o \in left[d]
    BY <1>0
  <2> HIDE DEF left
  <2> DEFINE r == [c EXCEPT !.buckets = left]
  <2>5. r.expiry = c.expiry /\ r.buckets = left /\ r \in CacheType
    BY <1>0, <2>2 DEF CacheType
  <2> HIDE DEF r
  <2>6. WellFiled(r, t)
    <3>1. \A d \in Buckets : \A o \in r.buckets[d] : r.expiry[o] # 0 /\ BucketOf(r.expiry[o]) = d
      BY <2>2, <2>5 DEF Filed, WellFiled
    <3>2. ASSUME NEW o \in Nonces, r.expiry[o] > t PROVE o \in r.buckets[BucketOf(r.expiry[o])]
      <4>1. o # n /\ c.expiry[o] > t /\ c.expiry[o] \in 0..(LastTick + Window)
        BY <1>0, <2>5, <3>2
      <4>2. o \in c.buckets[BucketOf(c.expiry[o])] /\ BucketOf(c.expiry[o]) \in Buckets
        BY <4>1, ExpiryHasBucket DEF Filed, WellFiled
      <4> QED
        BY <2>4, <2>5, <4>1, <4>2
    <3> QED
      BY <3>1, <3>2 DEF WellFiled
  <2>7. FromHeaders(r)
    BY <2>5 DEF Filed, FromHeaders
  <2> QED
    BY <2>1, <2>3, <2>5, <2>6, <2>7 DEF Filed, r
<1>2. CASE ~(gateHost = "python" /\ c.expiry[n] # 0)
  <2>1. DropStale(c, n) = c
    BY <1>2 DEF DropStale
  <2> QED
    BY <1>2, <2>1 DEF Filed, WellFiled
<1> QED
  BY <1>1, <1>2

\* The cache with the nonce of a header added, as record() adds it.
Refiled(c, m) ==
  [c EXCEPT !.expiry[header[m].nonce] = Expires(m),
            !.buckets[BucketOf(Expires(m))] = @ \cup {header[m].nonce}]

\* A nonce that is filed anew is in its bucket and in no other.
LEMMA HeldSound ==
  ASSUME HeadersFresh, NEW c, NEW t \in 0..LastTick, Filed(c, t), NEW m \in Messages,
         header[m].kind = "signed", c.expiry[header[m].nonce] <= t,
         gateHost = "typescript" \/ \A d \in Buckets : header[m].nonce \notin c.buckets[d]
  PROVE  /\ Filed(Refiled(c, m), t)
         /\ \A o \in Nonces :
              Refiled(c, m).expiry[o] = IF o = header[m].nonce THEN Expires(m) ELSE c.expiry[o]
<1> DEFINE n == header[m].nonce
           e == Expires(m)
           bucket == BucketOf(e)
           x == [c.expiry EXCEPT ![n] = e]
           y == [c.buckets EXCEPT ![bucket] = @ \cup {n}]
           held == Refiled(c, m)
<1>0. /\ c.expiry \in [Nonces -> 0..(LastTick + Window)] /\ c.buckets \in [Buckets -> SUBSET Nonces]
      /\ e \in 1..(LastTick + Window) /\ n \in Nonces /\ t \in Nat /\ c \in CacheType
  BY GateAssumption, ExpiryTyped DEF Filed, CacheType
<1>1. bucket \in Buckets /\ e \in 0..(LastTick + Window)
  BY <1>0, ExpiryHasBucket
<1>2. /\ held.expiry = x /\ held.buckets = y /\ held = [expiry |-> x, buckets |-> y]
  <2>1. held = [c EXCEPT !.expiry[n] = e, !.buckets[bucket] = @ \cup {n}]
    BY DEF Refiled
  <2>2. held = [c EXCEPT !.expiry = x, !.buckets = y]
    BY <2>1, Zenon
  <2> HIDE DEF x, y, held
  <2> QED
    BY <1>0, <2>2 DEF CacheType
<1>3. gateHost = "typescript" => \A d \in Buckets : n \in c.buckets[d] => d = bucket
  <2> SUFFICES ASSUME gateHost = "typescript", NEW d \in Buckets, n \in c.buckets[d] PROVE d = bucket
    OBVIOUS
  <2>1. c.expiry[n] # 0 /\ BucketOf(c.expiry[n]) = d
    BY DEF Filed, WellFiled
  <2>2. PICK k \in Messages : header[k].kind = "signed" /\ header[k].nonce = n /\ Expires(k) = c.expiry[n]
    BY <1>0, <2>1 DEF Filed, FromHeaders
  <2>3. Expires(k) = Expires(m)
    BY <2>2 DEF HeadersFresh, Expires
  <2> QED
    BY <2>1, <2>2, <2>3
<1>4. \A d \in Buckets : n \in c.buckets[d] => d = bucket
  BY <1>3
<1>5. gateHost = "typescript" => \E k \in Messages : header[k].kind = "signed" /\ header[k].nonce = n /\ Expires(k) = e
  OBVIOUS
<1> HIDE DEF n, e, bucket
<1>6. /\ x \in [Nonces -> 0..(LastTick + Window)] /\ x[n] = e
      /\ \A o \in Nonces : o # n => x[o] = c.expiry[o]
      /\ y \in [Buckets -> SUBSET Nonces] /\ y[bucket] = c.buckets[bucket] \cup {n}
      /\ \A d \in Buckets : d # bucket => y[d] = c.buckets[d]
  BY <1>0, <1>1
<1> HIDE DEF x, y, held
<1>7. held \in CacheType
  BY <1>2, <1>6 DEF CacheType
<1>8. WellFiled(held, t)
  <2>1. ASSUME NEW d \in Buckets, NEW o \in held.buckets[d]
        PROVE  held.expiry[o] # 0 /\ BucketOf(held.expiry[o]) = d
    <3>1. CASE o = n
      <4>1. d = bucket
        BY <1>2, <1>4, <1>6, <2>1, <3>1
      <4> QED
        BY <1>0, <1>2, <1>6, <3>1, <4>1 DEF bucket
    <3>2. CASE o # n
      <4>1. o \in c.buckets[d] /\ o \in Nonces
        BY <1>0, <1>2, <1>6, <2>1, <3>2
      <4> QED
        BY <1>2, <1>6, <3>2, <4>1 DEF Filed, WellFiled
    <3> QED
      BY <3>1, <3>2
  <2>2. ASSUME NEW o \in Nonces, held.expiry[o] > t PROVE o \in held.buckets[BucketOf(held.expiry[o])]
    <3>1. CASE o = n
      BY <1>2, <1>6, <3>1 DEF bucket
    <3>2. CASE o # n
      <4>1. held.expiry[o] = c.expiry[o] /\ c.expiry[o] \in 0..(LastTick + Window)
        BY <1>0, <1>2, <1>6, <3>2
      <4>2. o \in c.buckets[BucketOf(c.expiry[o])] /\ BucketOf(c.expiry[o]) \in Buckets
        BY <2>2, <4>1, ExpiryHasBucket DEF Filed, WellFiled
      <4> QED
        BY <1>2, <1>6, <4>1, <4>2
    <3> QED
      BY <3>1, <3>2
  <2> QED
    BY <2>1, <2>2 DEF WellFiled
<1>9. FromHeaders(held)
  BY <1>2, <1>5, <1>6 DEF Filed, FromHeaders
<1> QED
  BY <1>2, <1>6, <1>7, <1>8, <1>9 DEF Filed, n, e, held

Fits(c, t) == Cardinality(Live(c, t)) <= MaxEntries

\* Dropping entries, and time going on, leave what counts within the cap.
LEMMA StillFits ==
  ASSUME NEW c \in CacheType, NEW r \in CacheType, NEW t \in Nat, NEW u \in Nat, t <= u,
         Fits(c, t), \A n \in Nonces : r.expiry[n] \in {c.expiry[n], 0}
  PROVE  Fits(r, u)
<1>1. /\ IsFiniteSet(Nonces) /\ MaxEntries \in Nat
      /\ c.expiry \in [Nonces -> 0..(LastTick + Window)]
  BY GateAssumption DEF CacheType
<1>2. \A n \in Nonces : r.expiry[n] > u => c.expiry[n] > t
  <2> SUFFICES ASSUME NEW n \in Nonces, r.expiry[n] > u PROVE c.expiry[n] > t
    OBVIOUS
  <2>1. c.expiry[n] \in Nat
    BY <1>1, GateAssumption
  <2> QED
    BY <2>1
<1>3. Live(r, u) \in SUBSET Live(c, t) /\ Live(c, t) \in SUBSET Nonces
  BY <1>2 DEF Live
<1>4. /\ IsFiniteSet(Live(c, t)) /\ IsFiniteSet(Live(r, u))
      /\ Cardinality(Live(r, u)) <= Cardinality(Live(c, t))
  BY <1>1, <1>3, FS_Subset
<1>5. Cardinality(Live(c, t)) \in Nat /\ Cardinality(Live(r, u)) \in Nat
  BY <1>4, FS_CardinalityType
<1> QED
  BY <1>1, <1>4, <1>5 DEF Fits

\* record(): a nonce is new if no entry of it counts; it is filed unless its own
\* time is up or the cap drops it, and no other entry that counts is changed
\* but by the cap.
LEMMA RecordSound ==
  ASSUME HeadersFresh, NEW c, NEW t \in 0..LastTick, Filed(c, t), Fits(c, t),
         NEW m \in Messages, header[m].kind = "signed"
  PROVE  LET n == header[m].nonce
             r == Record(c, n, Expires(m), t)
         IN  /\ Filed(r.cache, t) /\ Fits(r.cache, t)
             /\ r.new \in BOOLEAN
             /\ r.new <=> c.expiry[n] <= t
             /\ \A o \in Nonces : c.expiry[o] > t => r.cache.expiry[o] \in {c.expiry[o], 0}
             /\ ~r.new => r.cache.expiry[n] = c.expiry[n]
             /\ r.new /\ Expires(m) > t => r.cache.expiry[n] \in {Expires(m), 0}
<1> DEFINE n == header[m].nonce
           e == Expires(m)
           swept == Sweep(c, t)
           dropped == DropStale(swept, n)
           held == Refiled(dropped, m)
           r == Record(c, n, e, t)
<1>0. /\ t \in Nat /\ c \in CacheType /\ n \in Nonces /\ e \in 1..(LastTick + Window)
      /\ c.expiry \in [Nonces -> 0..(LastTick + Window)]
  BY GateAssumption, ExpiryTyped DEF Filed, CacheType
<1>1. /\ Filed(swept, t) /\ swept \in CacheType
      /\ \A o \in Nonces : swept.expiry[o] \in {c.expiry[o], 0}
      /\ \A o \in Nonces : c.expiry[o] > t => swept.expiry[o] = c.expiry[o]
  BY SweepSound DEF Filed
<1>2. Fits(swept, t)
  BY <1>0, <1>1, StillFits
<1>3. swept.expiry[n] > t <=> c.expiry[n] > t
  BY <1>0, <1>1
<1>4. c.expiry[n] \in Nat /\ swept.expiry[n] \in Nat
  BY <1>0, <1>1, GateAssumption
<1>5. CASE Has(swept, n, t)
  <2>1. r = [new |-> FALSE, cache |-> swept]
    BY <1>5 DEF Record
  <2>2. r.new = FALSE /\ r.cache = swept /\ c.expiry[n] > t
    BY <1>3, <1>5, <2>1 DEF Has
  <2>3. swept.expiry[n] = c.expiry[n] /\ ~(c.expiry[n] <= t)
    BY <1>0, <1>1, <1>4, <2>2
  <2> HIDE DEF r, swept, e
  <2> QED
    BY <1>1, <1>2, <2>2, <2>3 DEF r, e, n
<1>6. CASE ~Has(swept, n, t)
  <2>1. swept.expiry[n] <= t /\ c.expiry[n] <= t
    BY <1>0, <1>3, <1>4, <1>6 DEF Has
  <2>2. /\ Filed(dropped, t) /\ dropped.expiry = swept.expiry
        /\ gateHost = "python" => \A d \in Buckets : n \notin dropped.buckets[d]
    <3> HIDE DEF swept, n
    <3> QED
      BY <1>0, <1>1, <2>1, DropStaleSound
  <2>3. dropped \in CacheType /\ Fits(dropped, t)
    <3>1. dropped \in CacheType
      BY <2>2 DEF Filed
    <3> HIDE DEF dropped, swept
    <3> QED
      BY <1>0, <1>1, <1>2, <2>2, <3>1, StillFits
  <2>4. CASE e <= t
    <3>1. r = [new |-> TRUE, cache |-> dropped]
      BY <1>6, <2>4 DEF Record
    <3>2. r.new = TRUE /\ r.cache = dropped
      BY <3>1
    <3>3. ~(e > t)
      BY <1>0, <2>4
    <3> HIDE DEF r, dropped, swept, e
    <3> QED
      BY <1>0, <1>1, <2>1, <2>2, <2>3, <3>2, <3>3 DEF r, n, e
  <2>5. CASE ~(e <= t)
    <3>1. r = [new |-> TRUE, cache |-> EnforceCap(held)]
      BY <1>6, <2>5 DEF Record, Refiled
    <3>2. r.new = TRUE /\ r.cache = EnforceCap(held)
      BY <3>1
    <3>3. /\ Filed(held, t)
          /\ \A o \in Nonces : held.expiry[o] = IF o = n THEN e ELSE dropped.expiry[o]
      <4>1. gateHost = "typescript" \/ \A d \in Buckets : n \notin dropped.buckets[d]
        BY <2>2, GateAssumption DEF HeadersFresh
      <4>2. dropped.expiry[n] <= t
        BY <2>1, <2>2
      <4> HIDE DEF dropped
      <4> QED
        BY <2>2, <4>1, <4>2, HeldSound
    <3> HIDE DEF held
    <3>4. /\ Filed(EnforceCap(held), t) /\ Fits(EnforceCap(held), t)
          /\ \A o \in Nonces : EnforceCap(held).expiry[o] \in {held.expiry[o], 0}
      BY <3>3, CapSound DEF Fits
    <3>5. \A o \in Nonces : c.expiry[o] > t => o # n /\ held.expiry[o] = c.expiry[o]
      BY <1>0, <1>1, <1>4, <2>1, <2>2, <3>3
    <3> HIDE DEF r, dropped, swept, e
    <3> QED
      BY <1>0, <2>1, <3>2, <3>3, <3>4, <3>5 DEF r, n, e
  <2> QED
    BY <2>4, <2>5
<1> QED
  BY <1>5, <1>6

\* A message let pass that still counts is in the cache, or the cap took it.
WinsAreKept ==
  \A i \in 1..Len(wins) :
    LET n == header[wins[i].msg].nonce IN
    Expires(wins[i].msg) > gateNow => n \in evicted \/ cache.expiry[n] >= Expires(wins[i].msg)

\* Of two messages with one nonce the second passed after the first's time.
WinsAreApart ==
  \A i, j \in 1..Len(wins) :
    i < j /\ header[wins[i].msg].nonce = header[wins[j].msg].nonce
      => wins[j].at >= Expires(wins[i].msg) \/ header[wins[i].msg].nonce \in evicted

\* Who may be served: a signed message that passed record(), or one that claims
\* no signature where none is asked for.
Passed(m) ==
  IF header[m].kind = "signed" THEN \E i \in 1..Len(wins) : wins[i].msg = m
  ELSE header[m].kind \in {"claimed", "none"} /\ minSenderTrust = "any"

NonceInv ==
  /\ wins \in Seq([msg : Messages, at : 0..LastTick])
  /\ Filed(cache, gateNow) /\ Fits(cache, gateNow)
  /\ WinsAreKept /\ WinsAreApart

GateInv ==
  /\ HeadersFresh /\ GateTypeOK /\ NonceInv
  /\ \A m \in Messages : stage[m] = "asking" \/ verdict[m] = "served" => Passed(m)

\* A cache that differs from the set of nonces by what no longer counts.
AsGood(c) ==
  /\ Filed(c, gateNow) /\ Fits(c, gateNow)
  /\ \A n \in Nonces : cache.expiry[n] > gateNow => c.expiry[n] = cache.expiry[n]

GateConstant == <<gateHost, minSenderTrust, header, gateNow>>

\* The set of nonces, as it is and swept.
LEMMA CachesAsGood ==
  ASSUME GateInv
  PROVE  AsGood(cache) /\ AsGood(Sweep(cache, gateNow))
<1>1. gateNow \in 0..LastTick /\ gateNow \in Nat /\ Filed(cache, gateNow) /\ Fits(cache, gateNow)
  BY GateAssumption DEF GateInv, GateTypeOK, NonceInv
<1>2. /\ Filed(Sweep(cache, gateNow), gateNow)
      /\ \A n \in Nonces : Sweep(cache, gateNow).expiry[n] \in {cache.expiry[n], 0}
      /\ \A n \in Nonces : cache.expiry[n] > gateNow
                             => Sweep(cache, gateNow).expiry[n] = cache.expiry[n]
  BY <1>1, SweepSound
<1>3. Fits(Sweep(cache, gateNow), gateNow)
  BY <1>1, <1>2, StillFits DEF Filed
<1> QED
  BY <1>1, <1>2, <1>3 DEF AsGood

\* What is remembered of a message that passed.
LEMMA WinsTyped ==
  ASSUME GateInv
  PROVE  \A i \in 1..Len(wins) : wins[i].msg \in Messages /\ wins[i].at \in Nat
<1> DEFINE W == [msg : Messages, at : 0..LastTick]
<1>1. wins \in Seq(W)
  BY DEF GateInv, NonceInv
<1>2. \A w \in W : w.msg \in Messages /\ w.at \in Nat
  BY GateAssumption
<1> HIDE DEF W
<1>3. \A i \in 1..Len(wins) : wins[i] \in W
  BY <1>1
<1> QED
  BY <1>2, <1>3

\* Answering without a look at the nonce leaves what passed as it is.
LEMMA NoNonceKeeps ==
  ASSUME GateInv, NEW c, AsGood(c), NoNonce(c), UNCHANGED GateConstant
  PROVE  NonceInv' /\ UNCHANGED wins
<1>1. cache' = c /\ UNCHANGED <<wins, evicted, gateHost, header, gateNow>>
  BY DEF NoNonce, GateConstant
<1>2. gateNow \in Nat /\ \A m \in Messages : header[m].nonce \in Nonces /\ Expires(m) \in Nat
  BY ExpiryTyped, GateAssumption DEF GateInv, GateTypeOK
<1>3. cache \in CacheType /\ \A n \in Nonces : cache.expiry[n] \in Nat
  BY GateAssumption DEF GateInv, NonceInv, Filed, CacheType
<1>4. (Filed(cache, gateNow) /\ Fits(cache, gateNow))'
  BY <1>1 DEF AsGood, Filed, FromHeaders, WellFiled, Expires, Fits, Live
<1>5. WinsAreKept'
  <2> SUFFICES ASSUME NEW i \in 1..Len(wins), Expires(wins[i].msg) > gateNow,
                      header[wins[i].msg].nonce \notin evicted
               PROVE  c.expiry[header[wins[i].msg].nonce] >= Expires(wins[i].msg)
    BY <1>1 DEF WinsAreKept, Expires
  <2>1. wins[i].msg \in Messages
    BY WinsTyped
  <2>2. cache.expiry[header[wins[i].msg].nonce] >= Expires(wins[i].msg)
    BY DEF GateInv, NonceInv, WinsAreKept
  <2> QED
    BY <1>2, <1>3, <2>1, <2>2 DEF AsGood
<1>6. WinsAreApart'
  BY <1>1 DEF GateInv, NonceInv, WinsAreApart, Expires
<1> QED
  BY <1>1, <1>4, <1>5, <1>6 DEF GateInv, NonceInv

\* record() of a signed message: it passes only if nothing that counts is known
\* of its nonce, and is remembered then.
LEMMA RecordNonceKeeps ==
  ASSUME GateInv, NEW c, AsGood(c), NEW m \in Messages, header[m].kind = "signed",
         RecordNonce(m, c), UNCHANGED GateConstant
  PROVE  /\ NonceInv'
         /\ \A i \in 1..Len(wins) : i \in 1..Len(wins') /\ wins'[i] = wins[i]
         /\ Record(c, header[m].nonce, Expires(m), gateNow).new
              => \E i \in 1..Len(wins') : wins'[i].msg = m
<1> DEFINE n == header[m].nonce
           r == Record(c, n, Expires(m), gateNow)
           more == {o \in Nonces : /\ r.cache.expiry[o] = 0
                                   /\ \/ c.expiry[o] > gateNow
                                      \/ o = n /\ r.new /\ Expires(m) > gateNow}
<1>1. /\ cache' = r.cache /\ evicted' = evicted \cup more
      /\ wins' = IF r.new THEN Append(wins, [msg |-> m, at |-> gateNow]) ELSE wins
      /\ UNCHANGED <<gateHost, header, gateNow>>
  BY DEF RecordNonce, GateConstant
<1>2. /\ Filed(r.cache, gateNow) /\ Fits(r.cache, gateNow)
      /\ r.new \in BOOLEAN
      /\ r.new <=> c.expiry[n] <= gateNow
      /\ \A o \in Nonces : c.expiry[o] > gateNow => r.cache.expiry[o] \in {c.expiry[o], 0}
      /\ r.new /\ Expires(m) > gateNow => r.cache.expiry[n] \in {Expires(m), 0}
  BY RecordSound DEF GateInv, GateTypeOK, AsGood
<1>3. /\ gateNow \in Nat /\ gateNow \in 0..LastTick
      /\ \A k \in Messages : header[k].nonce \in Nonces /\ Expires(k) \in Nat
  BY ExpiryTyped, GateAssumption DEF GateInv, GateTypeOK
<1>4. \A o \in Nonces : cache.expiry[o] \in Nat
  BY GateAssumption DEF GateInv, NonceInv, Filed, CacheType
<1>5. \A i \in 1..Len(wins) : wins[i].msg \in Messages /\ wins[i].at \in Nat
  BY WinsTyped
<1>6. n \in Nonces /\ wins \in Seq([msg : Messages, at : 0..LastTick])
  BY <1>3 DEF GateInv, NonceInv
<1> HIDE DEF r, n
\* A message whose nonce still counted, unless the cap took it, is not new.
<1>7. ASSUME NEW i \in 1..Len(wins), Expires(wins[i].msg) > gateNow,
             header[wins[i].msg].nonce \notin evicted
      PROVE  LET o == header[wins[i].msg].nonce IN
             /\ o \in Nonces /\ c.expiry[o] = cache.expiry[o]
             /\ c.expiry[o] > gateNow /\ c.expiry[o] >= Expires(wins[i].msg)
  <2>1. cache.expiry[header[wins[i].msg].nonce] >= Expires(wins[i].msg)
    BY <1>7 DEF GateInv, NonceInv, WinsAreKept
  <2>2. header[wins[i].msg].nonce \in Nonces /\ Expires(wins[i].msg) \in Nat
    BY <1>3, <1>5
  <2>3. cache.expiry[header[wins[i].msg].nonce] \in Nat
    BY <1>4, <2>2
  <2>4. cache.expiry[header[wins[i].msg].nonce] > gateNow
    BY <1>3, <1>7, <2>1, <2>2, <2>3
  <2>5. c.expiry[header[wins[i].msg].nonce] = cache.expiry[header[wins[i].msg].nonce]
    BY <2>2, <2>4 DEF AsGood
  <2> QED
    BY <2>1, <2>2, <2>4, <2>5
<1>8. ASSUME NEW i \in 1..Len(wins), Expires(wins[i].msg) > gateNow
      PROVE  LET o == header[wins[i].msg].nonce IN
             o \in evicted' \/ r.cache.expiry[o] >= Expires(wins[i].msg)
  BY <1>1, <1>2, <1>7, <1>8
<1>9. (Filed(cache, gateNow) /\ Fits(cache, gateNow))'
  BY <1>1, <1>2 DEF Filed, FromHeaders, WellFiled, Expires, Fits, Live
<1>10. CASE r.new
  <2> DEFINE w == [msg |-> m, at |-> gateNow]
  <2>1. /\ wins' \in Seq([msg : Messages, at : 0..LastTick])
        /\ Len(wins') = Len(wins) + 1 /\ Len(wins) \in Nat
        /\ wins'[Len(wins) + 1] = w
        /\ \A i \in 1..Len(wins) : wins'[i] = wins[i]
    BY <1>1, <1>3, <1>6, <1>10
  <2>2. w.msg = m /\ w.at = gateNow
    OBVIOUS
  <2> HIDE DEF w
  <2>3. WinsAreKept'
    <3> SUFFICES ASSUME NEW i \in 1..Len(wins'), Expires(wins'[i].msg) > gateNow
                 PROVE  LET o == header[wins'[i].msg].nonce IN
                        o \in evicted' \/ r.cache.expiry[o] >= Expires(wins'[i].msg)
      BY <1>1 DEF WinsAreKept, Expires
    <3>1. CASE i \in 1..Len(wins)
      BY <1>8, <2>1, <3>1
    <3>2. CASE i = Len(wins) + 1
      <4>1. wins'[i].msg = m /\ r.cache.expiry[n] \in {Expires(m), 0}
        BY <1>2, <1>10, <2>1, <2>2, <3>2
      <4>2. CASE r.cache.expiry[n] = 0
        BY <1>1, <1>6, <1>10, <4>1, <4>2 DEF n
      <4>3. CASE r.cache.expiry[n] = Expires(m)
        BY <1>3, <4>1, <4>3 DEF n
      <4> QED
        BY <4>1, <4>2, <4>3
    <3> QED
      BY <2>1, <3>1, <3>2
  <2>4. WinsAreApart'
    <3> SUFFICES ASSUME NEW i \in 1..Len(wins'), NEW j \in 1..Len(wins'), i < j,
                        header[wins'[i].msg].nonce = header[wins'[j].msg].nonce,
                        header[wins'[i].msg].nonce \notin evicted'
                 PROVE  wins'[j].at >= Expires(wins'[i].msg)
      BY <1>1 DEF WinsAreApart, Expires
    <3>1. i \in 1..Len(wins) /\ wins'[i] = wins[i] /\ header[wins[i].msg].nonce \notin evicted
      BY <1>1, <2>1
    <3>2. CASE j \in 1..Len(wins)
      <4>1. wins'[j] = wins[j] /\ WinsAreApart
        BY <2>1, <3>2 DEF GateInv, NonceInv
      <4> QED
        BY <1>1, <3>1, <3>2, <4>1 DEF WinsAreApart
    <3>3. CASE j = Len(wins) + 1
      <4>1. wins'[j].at = gateNow /\ header[wins[i].msg].nonce = n
        BY <2>1, <2>2, <3>1, <3>3 DEF n
      <4>2. ~(Expires(wins[i].msg) > gateNow)
        <5>1. c.expiry[n] <= gateNow
          BY <1>2, <1>10
        <5> SUFFICES ASSUME Expires(wins[i].msg) > gateNow PROVE FALSE
          OBVIOUS
        <5>2. c.expiry[n] = cache.expiry[n] /\ c.expiry[n] > gateNow
          BY <1>7, <3>1, <4>1
        <5> QED
          BY <1>3, <1>4, <1>6, <5>1, <5>2
      <4> QED
        BY <1>3, <1>5, <3>1, <4>1, <4>2
    <3>4. j \in 1..Len(wins) \/ j = Len(wins) + 1
      BY <2>1
    <3> QED
      BY <3>2, <3>3, <3>4
  <2>5. Len(wins) + 1 \in 1..Len(wins') /\ wins'[Len(wins) + 1].msg = m
    BY <2>1, <2>2
  <2>6. \A i \in 1..Len(wins) : i \in 1..Len(wins')
    BY <2>1
  <2> QED
    BY <1>9, <2>1, <2>3, <2>4, <2>5, <2>6 DEF NonceInv
<1>11. CASE ~r.new
  <2>1. wins' = wins
    BY <1>1, <1>11
  <2>2. WinsAreKept'
    BY <1>1, <1>8, <2>1 DEF WinsAreKept, Expires
  <2>3. WinsAreApart'
    BY <1>1, <2>1 DEF GateInv, NonceInv, WinsAreApart, Expires
  <2> QED
    BY <1>6, <1>9, <1>11, <2>1, <2>2, <2>3 DEF NonceInv, r, n
<1> QED
  BY <1>2, <1>10, <1>11

\* After the nonces: nobody is asked about, or served, who has not passed.
LEMMA GateInvKept ==
  ASSUME GateInv, NonceInv', UNCHANGED GateConstant,
         \A i \in 1..Len(wins) : i \in 1..Len(wins') /\ wins'[i] = wins[i],
         stage' \in [Messages -> {"new", "verifying", "probing", "asking", "done"}],
         verdict' \in [Messages -> {"open", "served", "status", "400", "401", "403", "500"}],
         \A m \in Messages :
           /\ stage'[m] = "asking" => stage[m] = "asking" \/ Passed(m)'
           /\ verdict'[m] = "served" => verdict[m] = "served" \/ stage[m] = "asking"
  PROVE  GateInv'
<1>1. UNCHANGED <<gateHost, minSenderTrust, header, gateNow>>
  BY DEF GateConstant
<1>2. cache' \in CacheType
  BY DEF NonceInv, Filed
<1>3. HeadersFresh' /\ GateTypeOK'
  BY <1>1, <1>2 DEF GateInv, HeadersFresh, GateTypeOK, CacheType
<1>4. \A k \in Messages : Passed(k) => Passed(k)'
  BY <1>1 DEF Passed
<1>5. \A k \in Messages : stage'[k] = "asking" \/ verdict'[k] = "served" => Passed(k)'
  BY <1>4 DEF GateInv
<1> QED
  BY <1>3, <1>5 DEF GateInv

\* Answering a message that is not served.
LEMMA AnswerKeeps ==
  ASSUME GateInv, NEW m \in Messages,
         NEW code \in {"status", "400", "401"}, Answer(m, code),
         NonceInv', UNCHANGED GateConstant,
         \A i \in 1..Len(wins) : i \in 1..Len(wins') /\ wins'[i] = wins[i]
  PROVE  GateInv'
<1>1. /\ stage' = [stage EXCEPT ![m] = "done"] /\ verdict' = [verdict EXCEPT ![m] = code]
      /\ stage \in [Messages -> {"new", "verifying", "probing", "asking", "done"}]
      /\ verdict \in [Messages -> {"open", "served", "status", "400", "401", "403", "500"}]
  BY DEF Answer, GateInv, GateTypeOK
<1>2. /\ stage' \in [Messages -> {"new", "verifying", "probing", "asking", "done"}]
      /\ verdict' \in [Messages -> {"open", "served", "status", "400", "401", "403", "500"}]
  BY <1>1
<1>3. \A k \in Messages : /\ stage'[k] = "asking" => stage[k] = "asking"
                          /\ verdict'[k] = "served" => verdict[k] = "served"
  BY <1>1
<1> QED
  BY <1>2, <1>3, GateInvKept

\* A request that is turned down, without a look at the nonce or after it was
\* found: the sets swept or not.
LEMMA RefuseKeeps ==
  ASSUME GateInv, NEW m \in Messages, NEW endpoint \in {"prompt", "status"},
         NEW code \in {"400", "401"}, Refuse(m, endpoint, code),
         NEW c, AsGood(c), NoNonce(c), UNCHANGED GateConstant
  PROVE  GateInv'
<1>1. NonceInv' /\ wins' = wins
  BY NoNonceKeeps
<1>2. PICK k \in {"status", "400", "401"} : Answer(m, k)
  BY DEF Refuse
<1> QED
  BY <1>1, <1>2, AnswerKeeps

\* What follows the classification, of a sender who signed or does not claim to.
LEMMA AdmitKeeps ==
  ASSUME GateInv, NEW m \in Messages, header[m].kind \in {"signed", "claimed", "none"},
         NEW endpoint \in {"prompt", "status"}, NEW c, AsGood(c), Admit(m, c, endpoint),
         UNCHANGED GateConstant
  PROVE  GateInv'
<1> DEFINE verified == header[m].kind = "signed"
           won      == Record(c, header[m].nonce, Expires(m), gateNow).new
<1>1. ASSUME verified, RecordNonce(m, c)
      PROVE  /\ NonceInv'
             /\ \A i \in 1..Len(wins) : i \in 1..Len(wins') /\ wins'[i] = wins[i]
             /\ won => \E i \in 1..Len(wins') : wins'[i].msg = m
  BY <1>1, RecordNonceKeeps
<1>2. ASSUME ~verified, NoNonce(c)
      PROVE  /\ NonceInv'
             /\ \A i \in 1..Len(wins) : i \in 1..Len(wins') /\ wins'[i] = wins[i]
  BY <1>2, NoNonceKeeps
<1>3. CASE endpoint = "prompt" /\ minSenderTrust = "signed" /\ ~verified
           /\ Answer(m, "401") /\ NoNonce(c)
  BY <1>2, <1>3, AnswerKeeps
<1>4. CASE verified /\ ~won /\ Refuse(m, endpoint, "401") /\ RecordNonce(m, c)
  <2>1. PICK k \in {"status", "401"} : Answer(m, k)
    BY <1>4 DEF Refuse
  <2> QED
    BY <1>1, <1>4, <2>1, AnswerKeeps
<1>5. CASE /\ endpoint = "status" /\ (verified => won) /\ Answer(m, "status")
           /\ IF verified THEN RecordNonce(m, c) ELSE NoNonce(c)
  BY <1>1, <1>2, <1>5, AnswerKeeps
<1>6. CASE /\ endpoint = "prompt" /\ IF verified THEN won ELSE minSenderTrust = "any"
           /\ stage' = [stage EXCEPT ![m] = "asking"] /\ UNCHANGED verdict
           /\ IF verified THEN RecordNonce(m, c) ELSE NoNonce(c)
  <2>1. /\ NonceInv'
        /\ \A i \in 1..Len(wins) : i \in 1..Len(wins') /\ wins'[i] = wins[i]
        /\ verified => \E i \in 1..Len(wins') : wins'[i].msg = m
    BY <1>1, <1>2, <1>6
  <2>2. Passed(m)'
    BY <1>6, <2>1 DEF Passed, GateConstant
  <2>3. /\ stage' \in [Messages -> {"new", "verifying", "probing", "asking", "done"}]
        /\ \A k \in Messages : stage'[k] = "asking" => stage[k] = "asking" \/ k = m
    BY <1>6 DEF GateInv, GateTypeOK
  <2>4. /\ verdict' \in [Messages -> {"open", "served", "status", "400", "401", "403", "500"}]
        /\ \A k \in Messages : verdict'[k] = "served" => verdict[k] = "served"
    BY <1>6 DEF GateInv, GateTypeOK
  <2> QED
    BY <2>1, <2>2, <2>3, <2>4, GateInvKept
<1> QED
  BY <1>3, <1>4, <1>5, <1>6 DEF Admit

\* The signature is checked, then what a verified sender is endpoint for.
LEMMA ConcludeKeeps ==
  ASSUME GateInv, NEW m \in Messages, NEW endpoint \in {"prompt", "status"},
         NEW c, AsGood(c), Conclude(m, c, endpoint), UNCHANGED GateConstant
  PROVE  GateInv'
<1>1. CASE Refuse(m, endpoint, "401") /\ NoNonce(c)
  BY <1>1, RefuseKeeps
<1>2. CASE header[m].kind = "signed" /\ Admit(m, c, endpoint)
  BY <1>2, AdmitKeeps
<1> QED
  BY <1>1, <1>2 DEF Conclude

\* A request arrives, in either implementation, or its digest is there.
LEMMA ClassificationKeeps ==
  ASSUME GateInv, NEW m \in Messages,
         \/ \E endpoint \in {"prompt", "status"} : Classify(m, endpoint) \/ ClassifyAtOnce(m, endpoint)
         \/ Verified(m)
  PROVE  GateInv'
<1> DEFINE swept == Sweep(cache, gateNow)
<1>1. AsGood(cache) /\ AsGood(swept)
  BY CachesAsGood
<1>2. UNCHANGED GateConstant
  BY DEF Classify, ClassifyAtOnce, Verified, GateConstant
<1> HIDE DEF swept
<1>3. ASSUME NEW endpoint \in {"prompt", "status"}, AnsweredEarly(m, swept, endpoint) PROVE GateInv'
  <2>1. CASE Refuse(m, endpoint, "400") /\ NoNonce(cache)
    BY <1>1, <1>2, <2>1, RefuseKeeps
  <2>2. CASE header[m].kind \in {"claimed", "none"} /\ Admit(m, cache, endpoint)
    BY <1>1, <1>2, <2>2, AdmitKeeps
  <2>3. CASE Refuse(m, endpoint, "401") /\ NoNonce(cache)
    BY <1>1, <1>2, <2>3, RefuseKeeps
  <2>4. CASE Refuse(m, endpoint, "401") /\ NoNonce(swept)
    BY <1>1, <1>2, <2>4, RefuseKeeps
  <2> QED
    BY <1>3, <2>1, <2>2, <2>3, <2>4 DEF AnsweredEarly
<1>4. ASSUME NEW endpoint \in {"prompt", "status"}, Classify(m, endpoint) PROVE GateInv'
  <2>1. CASE AnsweredEarly(m, swept, endpoint)
    BY <1>3, <2>1
  <2>2. CASE /\ stage' = [stage EXCEPT ![m] = IF endpoint = "prompt" THEN "verifying" ELSE "probing"]
             /\ UNCHANGED verdict /\ NoNonce(swept)
    <3>1. NonceInv' /\ wins' = wins
      BY <1>1, <1>2, <2>2, NoNonceKeeps
    <3>2. /\ stage' \in [Messages -> {"new", "verifying", "probing", "asking", "done"}]
          /\ \A k \in Messages : stage'[k] = "asking" => stage[k] = "asking"
      BY <2>2 DEF GateInv, GateTypeOK
    <3>3. verdict' = verdict
          /\ verdict \in [Messages -> {"open", "served", "status", "400", "401", "403", "500"}]
      BY <2>2 DEF GateInv, GateTypeOK
    <3> QED
      BY <1>2, <3>1, <3>2, <3>3, GateInvKept
  <2> QED
    BY <1>4, <2>1, <2>2 DEF Classify, swept
<1>5. ASSUME NEW endpoint \in {"prompt", "status"}, ClassifyAtOnce(m, endpoint) PROVE GateInv'
  <2>1. CASE AnsweredEarly(m, swept, endpoint)
    BY <1>3, <2>1
  <2>2. CASE Conclude(m, swept, endpoint)
    BY <1>1, <1>2, <2>2, ConcludeKeeps
  <2> QED
    BY <1>5, <2>1, <2>2 DEF ClassifyAtOnce, swept
<1>6. CASE Verified(m)
  <2>1. PICK endpoint \in {"prompt", "status"} : Conclude(m, cache, endpoint)
    BY <1>6 DEF Verified
  <2> QED
    BY <1>1, <1>2, <2>1, ConcludeKeeps
<1> QED
  BY <1>4, <1>5, <1>6

\* What remains: the hook answers, time goes on, nothing happens.
LEMMA OtherGateStepsKeep ==
  ASSUME GateInv, (\E m \in Messages : HookReturns(m)) \/ GateTick \/ UNCHANGED gateVars
  PROVE  GateInv'
<1>1. ASSUME NEW m \in Messages, HookReturns(m) PROVE GateInv'
  <2>1. UNCHANGED <<GateConstant, cache, wins, evicted>>
    BY <1>1 DEF HookReturns, GateConstant
  <2>2. NonceInv'
    BY <2>1 DEF GateInv, NonceInv, Filed, FromHeaders, WellFiled, Fits, Live, WinsAreKept,
                WinsAreApart, Expires, GateConstant
  <2>3. PICK code \in {"served", "500", "403", "401"} : Answer(m, code)
    BY <1>1, GateAssumption DEF HookReturns
  <2>4. /\ stage' = [stage EXCEPT ![m] = "done"] /\ verdict' = [verdict EXCEPT ![m] = code]
        /\ stage \in [Messages -> {"new", "verifying", "probing", "asking", "done"}]
        /\ verdict \in [Messages -> {"open", "served", "status", "400", "401", "403", "500"}]
        /\ stage[m] = "asking"
    BY <1>1, <2>3 DEF Answer, HookReturns, GateInv, GateTypeOK
  <2>5. /\ stage' \in [Messages -> {"new", "verifying", "probing", "asking", "done"}]
        /\ verdict' \in [Messages -> {"open", "served", "status", "400", "401", "403", "500"}]
    BY <2>4
  <2>6. \A k \in Messages : /\ stage'[k] = "asking" => stage[k] = "asking"
                            /\ verdict'[k] = "served" => verdict[k] = "served" \/ stage[k] = "asking"
    BY <2>4
  <2> QED
    BY <2>1, <2>2, <2>5, <2>6, GateInvKept
<1>2. CASE GateTick
  <2>1. /\ gateNow' = gateNow + 1 /\ gateNow \in Nat /\ gateNow' \in 0..LastTick
        /\ UNCHANGED <<gateHost, minSenderTrust, header, cache, stage, verdict, wins, evicted>>
    BY <1>2, GateAssumption DEF GateTick, GateInv, GateTypeOK
  <2>2. HeadersFresh' /\ GateTypeOK'
    BY <2>1 DEF GateInv, HeadersFresh, GateTypeOK
  <2>3. cache \in CacheType /\ \A n \in Nonces : cache.expiry[n] \in Nat
    BY GateAssumption DEF GateInv, NonceInv, Filed, CacheType
  <2>4. Filed(cache, gateNow)'
    BY <2>1, <2>3 DEF GateInv, NonceInv, Filed, WellFiled, FromHeaders, Expires
  <2>5. Fits(cache, gateNow)'
    <3>1. Fits(cache, gateNow + 1)
      BY <2>1, <2>3, StillFits DEF GateInv, NonceInv
    <3> QED
      BY <2>1, <3>1 DEF Fits, Live
  <2>6. WinsAreKept'
    <3> SUFFICES ASSUME NEW i \in 1..Len(wins), Expires(wins[i].msg) > gateNow + 1
                 PROVE  LET n == header[wins[i].msg].nonce IN
                        n \in evicted \/ cache.expiry[n] >= Expires(wins[i].msg)
      BY <2>1 DEF WinsAreKept, Expires
    <3>1. Expires(wins[i].msg) \in Nat
      BY WinsTyped, ExpiryTyped, GateAssumption DEF GateInv
    <3> QED
      BY <2>1, <3>1 DEF GateInv, NonceInv, WinsAreKept
  <2>7. WinsAreApart'
    BY <2>1 DEF GateInv, NonceInv, WinsAreApart, Expires
  <2>8. \A m \in Messages : stage'[m] = "asking" \/ verdict'[m] = "served" => Passed(m)'
    BY <2>1 DEF GateInv, Passed
  <2>9. NonceInv'
    BY <2>1, <2>4, <2>5, <2>6, <2>7 DEF GateInv, NonceInv
  <2> QED
    BY <2>2, <2>8, <2>9 DEF GateInv
<1>3. CASE UNCHANGED gateVars
  BY <1>3 DEF gateVars, GateInv, HeadersFresh, GateTypeOK, NonceInv, Filed, FromHeaders, WellFiled,
              Fits, Live, WinsAreKept, WinsAreApart, Expires, Passed
<1> QED
  BY <1>1, <1>2, <1>3

\* Nothing is known of any nonce at first, and what senders sign is theirs.
LEMMA InitGateInv == "typescript" \notin Reusing /\ GateInit => GateInv
<1> SUFFICES ASSUME "typescript" \notin Reusing, GateInit PROVE GateInv
  OBVIOUS
<1>1. (CHOOSE n \in Nonces : TRUE) \in Nonces
  BY GateAssumption
<1>2. (CHOOSE s \in Stamps : \A r \in Stamps : s <= r) \in Stamps
  <2>1. Stamps \in SUBSET Nat /\ Stamps # {}
    BY GateAssumption
  <2>2. Min(Stamps) \in Stamps
    BY <2>1, MinIsIn
  <2> QED
    BY <2>2 DEF Min
<1>3. header \in [Messages -> [kind : Kinds, nonce : Nonces, ts : Stamps]]
  BY <1>1, <1>2 DEF GateInit, Kinds
<1>4. HeadersFresh
  <2>1. gateHost \in Hosts
    BY DEF GateInit
  <2>2. ASSUME gateHost = "typescript", NEW m \in Messages, NEW k \in Messages,
               header[m].kind = "signed", header[k].kind = "signed",
               header[m].nonce = header[k].nonce
        PROVE  header[m].ts = header[k].ts
    <3>1. {header[m].kind, header[k].kind} = {"signed"}
      BY <2>2
    <3> QED
      BY <2>2, <3>1 DEF GateInit
  <2> QED
    BY <1>3, <2>1, <2>2 DEF HeadersFresh
<1>5. /\ wins = <<>> /\ gateNow = 0 /\ cache.expiry = [n \in Nonces |-> 0]
      /\ cache.buckets = [b \in Buckets |-> {}]
      /\ cache = [expiry |-> cache.expiry, buckets |-> cache.buckets]
  BY DEF GateInit
<1>6. cache \in CacheType
  <2>1. cache.expiry \in [Nonces -> 0..(LastTick + Window)]
    BY <1>5, GateAssumption
  <2>2. cache.buckets \in [Buckets -> SUBSET Nonces]
    BY <1>5
  <2> QED
    BY <1>5, <2>1, <2>2 DEF CacheType
<1>7. GateTypeOK
  BY <1>3, <1>6, GateAssumption DEF GateInit, GateTypeOK, CacheType
<1>8. Filed(cache, gateNow)
  BY <1>5, <1>6 DEF Filed, WellFiled, FromHeaders
<1>9. Fits(cache, gateNow)
  <2>1. Live(cache, gateNow) = {}
    BY <1>5 DEF Live
  <2> QED
    BY <2>1, FS_EmptySet, GateAssumption DEF Fits
<1>10. wins \in Seq([msg : Messages, at : 0..LastTick]) /\ Len(wins) = 0
  BY <1>5
<1>11. WinsAreKept /\ WinsAreApart
  BY <1>10 DEF WinsAreKept, WinsAreApart
<1>12. \A m \in Messages : stage[m] # "asking" /\ verdict[m] # "served"
  BY DEF GateInit
<1> QED
  BY <1>4, <1>7, <1>8, <1>9, <1>10, <1>11, <1>12 DEF GateInv, NonceInv

(* Every nonce is admitted at most once before its window ends, from a set *)
(* that forgets none too early but what its cap takes, and none is served  *)
(* that did not pass (classify.ts: NonceSet, admitPrompt; identity.py), as *)
(* long as TypeScript senders draw a fresh nonce for a new message.        *)
THEOREM ReplaysRefused == "typescript" \notin Reusing => (GateSpec => []ReplaysAreRefused)
<1> SUFFICES ASSUME "typescript" \notin Reusing PROVE GateSpec => []ReplaysAreRefused
  OBVIOUS
<1>1. GateInit => GateInv
  BY InitGateInv
<1>2. GateInv /\ [GateNext]_gateVars => GateInv'
  BY ClassificationKeeps, OtherGateStepsKeep DEF GateNext
<1>3. GateInv => ReplaysAreRefused
  <2> SUFFICES ASSUME GateInv PROVE ReplaysAreRefused
    OBVIOUS
  <2>1. DOMAIN wins = 1..Len(wins)
    BY DEF GateInv, NonceInv
  <2>2. AdmittedOnce
    BY <2>1 DEF GateInv, NonceInv, WinsAreApart, Passed, AdmittedOnce
  <2>3. NonceSetSound
    BY DEF GateInv, NonceInv, Filed, WellFiled, Fits, Live, NonceSetSound
  <2> QED
    BY <2>2, <2>3 DEF ReplaysAreRefused
<1> QED
  BY <1>1, <1>2, <1>3, PTL DEF GateSpec


(***************************************************************************)
(* Heartbeats: AliveIsOnline and DeadIsOffline, for every set of           *)
(* instances, every interval and every network within the assumption.      *)
(***************************************************************************)

\* Before it starts, an instance has sent and is owed nothing.
Unborn(i) ==
  life[i] = "unborn" => /\ age[i] = None /\ transit[i] = None
                        /\ due[i] = 0 /\ lost[i] = 0
                        /\ dead[i] = 0

\* A beat under way is the last one sent, and no turn has passed since.
UnderWay(i) ==
  (life[i] = "alive" /\ transit[i] # None)
    => lost[i] = 0 /\ transit[i] = Interval[i] - due[i]

\* With no beat under way, the last beat seen is older than its successor's
\* turn by the beats lost since.
SeenUpToLost(i) ==
  (life[i] = "alive" /\ ~closed /\ age[i] # None /\ transit[i] = None)
    => age[i] <= lost[i] * Interval[i] + (Interval[i] - due[i])

\* With a beat under way, at most MaxLost were lost before it.
SeenBeforeUnderWay(i) ==
  (life[i] = "alive" /\ ~closed /\ age[i] # None /\ transit[i] # None)
    => age[i] <= (MaxLost[i] + 1) * Interval[i] + transit[i]

\* What a dead instance sent, it sent before it died.
SentBeforeDeath(i) ==
  /\ life[i] = "alive" => dead[i] = 0
  /\ (life[i] = "dead" /\ transit[i] # None) => dead[i] <= transit[i]
  /\ (life[i] = "dead" /\ age[i] # None /\ transit[i] = None)
       => age[i] >= OldAge(i) \/ dead[i] <= age[i] + Delay[i]

\* An open client that has seen a beat is still subscribed.
StillSubscribed ==
  \A i \in Instances : (~closed /\ age[i] # None) => subscribed

BeatInv ==
  /\ HeartbeatTypeOK
  /\ StillSubscribed
  /\ \A i \in Instances : /\ Unborn(i) /\ UnderWay(i)
                          /\ SeenUpToLost(i) /\ SeenBeforeUnderWay(i)
                          /\ SentBeforeDeath(i)

-----------------------------------------------------------------------------
\* At most m intervals are lost, and m is at most two.
LEMMA LostIntervals ==
  ASSUME NEW m \in 0..2, NEW l \in 0..m, NEW n \in Nat
  PROVE  /\ l * n <= m * n
         /\ (m + 1) * n = m * n + n
         /\ (l + 1) * n = l * n + n
  <1>1. (l + 1) * n = l * n + n /\ (m + 1) * n = m * n + n
    OBVIOUS
  <1>2. l * n <= m * n
    <2>1. m * n - l * n = (m - l) * n
      OBVIOUS
    <2>2. m - l \in Nat
      OBVIOUS
    <2>3. (m - l) * n \in Nat
      BY <2>2
    <2>4. m * n \in Int /\ l * n \in Int
      OBVIOUS
    <2> QED
      BY <2>1, <2>3, <2>4
  <1> QED
    BY <1>1, <1>2

\* Each instance's own bounds, as the proofs use them.
LEMMA Bounds ==
  ASSUME NEW i \in Instances
  PROVE  /\ Interval[i] \in Nat \ {0} /\ MaxLost[i] \in 0..2 /\ Delay[i] \in Nat
         /\ Delay[i] < Interval[i]
         /\ MaxLost[i] = 2 => Delay[i] = 0
  BY HeartbeatAssumption DEF HeartbeatAssumption, Slack

\* The initial states.
LEMMA InitInv == Init => BeatInv
  <1> SUFFICES ASSUME Init PROVE BeatInv
    OBVIOUS
  <1>1. ASSUME NEW i \in Instances PROVE 0 <= MaxLost[i]
    <2>1. MaxLost[i] \in 0..2
      BY Bounds
    <2> QED
      BY <2>1
  <1>2. HeartbeatTypeOK
    <2>1. \A i \in Instances : Interval[i] \in Nat
      BY HeartbeatAssumption DEF HeartbeatAssumption
    <2>2. due \in [Instances -> Nat] /\ \A i \in Instances : due[i] <= Interval[i]
      BY <2>1 DEF Init
    <2>3. lost \in [Instances -> Nat] /\ \A i \in Instances : lost[i] <= MaxLost[i]
      BY <1>1 DEF Init
    <2> QED
      BY <2>2, <2>3 DEF Init, HeartbeatTypeOK
  <1>3. StillSubscribed
    BY DEF Init, StillSubscribed
  <1>4. ASSUME NEW i \in Instances
        PROVE  /\ Unborn(i) /\ UnderWay(i)
               /\ SeenUpToLost(i) /\ SeenBeforeUnderWay(i)
               /\ SentBeforeDeath(i)
    BY <1>4 DEF Init, Unborn, UnderWay, SeenUpToLost, SeenBeforeUnderWay, SentBeforeDeath
  <1> QED
    BY <1>2, <1>3, <1>4 DEF BeatInv

\* Every step keeps the types.
LEMMA NextTypeOK == BeatInv /\ [Next]_vars => HeartbeatTypeOK'
  <1> SUFFICES ASSUME BeatInv, [Next]_vars PROVE HeartbeatTypeOK'
    OBVIOUS
  <1> USE HeartbeatAssumption DEF HeartbeatAssumption, HeartbeatTypeOK
  <1>0. HeartbeatTypeOK
    BY DEF BeatInv
  <1>1. CASE Tick
    <2>1. \A i \in Instances : due'[i] \in Nat /\ due'[i] <= Interval[i]
      BY <1>0, <1>1 DEF Tick
    <2>2. /\ transit' \in [Instances -> Nat \cup {None}]
          /\ \A i \in Instances : transit'[i] # None => transit'[i] <= Delay[i]
      BY <1>0, <1>1, Bounds DEF Tick
    <2>3. dead' \in [Instances -> Nat]
      BY <1>0, <1>1 DEF Tick, UpTo, LongDead, Slack
    <2>4. age' \in [Instances -> Nat \cup {None}]
      BY <1>0, <1>1 DEF Tick, UpTo, OldAge, Slack
    <2> QED
      BY <1>0, <1>1, <2>1, <2>2, <2>3, <2>4 DEF Tick
  <1>2. ASSUME NEW i \in Instances, Start(i) PROVE HeartbeatTypeOK'
    BY <1>0, <1>2 DEF Start, tracker
  <1>3. ASSUME NEW i \in Instances, Die(i) PROVE HeartbeatTypeOK'
    BY <1>0, <1>3 DEF Die, tracker
  <1>4. ASSUME NEW i \in Instances, Beat(i) PROVE HeartbeatTypeOK'
    BY <1>0, <1>4 DEF Beat, tracker
  <1>5. ASSUME NEW i \in Instances, Arrive(i) PROVE HeartbeatTypeOK'
    BY <1>0, <1>5 DEF Arrive, Seen
  <1>6. CASE StartTracking \/ OnHeartbeat \/ Close
    BY <1>0, <1>6 DEF StartTracking, OnHeartbeat, Close, hosts
  <1>7. CASE UNCHANGED vars
    BY <1>0, <1>7 DEF vars, hosts, tracker
  <1> QED
    BY <1>1, <1>2, <1>3, <1>4, <1>5, <1>6, <1>7 DEF Next

\* Every step keeps what is said of each instance.
LEMMA NextInv == BeatInv /\ [Next]_vars => BeatInv'
  <1> SUFFICES ASSUME BeatInv, [Next]_vars PROVE BeatInv'
    OBVIOUS
  <1> DEFINE Of(i) == /\ Unborn(i) /\ UnderWay(i)
                      /\ SeenUpToLost(i) /\ SeenBeforeUnderWay(i)
                      /\ SentBeforeDeath(i)
             Kept == StillSubscribed' /\ \A i \in Instances : Of(i)'
  <1> USE HeartbeatAssumption DEF HeartbeatAssumption
  <1>0. HeartbeatTypeOK /\ StillSubscribed /\ \A i \in Instances : Of(i)
    BY DEF BeatInv
  <1>1. ASSUME Tick PROVE Kept
    <2>1. StillSubscribed'
      BY <1>0, <1>1 DEF Tick, StillSubscribed, HeartbeatTypeOK
    <2>2. ASSUME NEW i \in Instances PROVE Of(i)'
      <3>a. /\ life' = life /\ lost' = lost /\ closed' = closed
            /\ Interval[i] \in Nat /\ due[i] \in Nat
        BY <1>0, <1>1, <2>2 DEF Tick, HeartbeatTypeOK
      <3>b. life[i] = "alive" => due'[i] = due[i] - 1
        BY <1>1, <2>2 DEF Tick
      <3>c. age[i] # None => age[i] \in Nat /\ age'[i] \in Nat /\ age'[i] <= age[i] + 1
        BY <1>0, <1>1, <2>2 DEF Tick, UpTo, OldAge, Slack, HeartbeatTypeOK
      <3>d. age[i] = None => age'[i] = None
        BY <1>1, <2>2 DEF Tick
      <3>e. transit[i] # None => transit[i] \in Nat /\ transit'[i] = transit[i] + 1
        BY <1>0, <1>1, <2>2 DEF Tick, HeartbeatTypeOK
      <3>f. transit[i] = None <=> transit'[i] = None
        BY <1>0, <1>1, <2>2, <3>e DEF Tick
      <3>1. Unborn(i)'
        BY <1>0, <1>1, <2>2 DEF Tick, Unborn, HeartbeatTypeOK
      <3>2. UnderWay(i)'
        BY <1>0, <1>1, <2>2 DEF Tick, UnderWay, HeartbeatTypeOK
      <3>3. SeenUpToLost(i)'
        <4> DEFINE n == lost[i] * Interval[i]
        <4>1. n \in Int
          BY <1>0, <2>2 DEF HeartbeatTypeOK
        <4>2. lost' = lost
          BY <1>1 DEF Tick
        <4> HIDE DEF n
        <4>3. (life[i] = "alive" /\ ~closed /\ age[i] # None /\ transit[i] = None)
                 => age[i] <= n + (Interval[i] - due[i])
          BY <1>0, <2>2 DEF SeenUpToLost, n
        <4>4. (life'[i] = "alive" /\ ~closed' /\ age'[i] # None /\ transit'[i] = None)
                 => age'[i] <= n + (Interval[i] - due'[i])
          BY <3>a, <3>b, <3>c, <3>d, <3>f, <4>1, <4>3
        <4> QED
          BY <4>2, <4>4 DEF SeenUpToLost, n
      <3>4. SeenBeforeUnderWay(i)'
        <4> DEFINE n == (MaxLost[i] + 1) * Interval[i]
        <4>1. n \in Int
          BY <2>2
        <4> HIDE DEF n
        <4>2. (life[i] = "alive" /\ ~closed /\ age[i] # None /\ transit[i] # None)
                 => age[i] <= n + transit[i]
          BY <1>0, <2>2 DEF SeenBeforeUnderWay, n
        <4>3. (life'[i] = "alive" /\ ~closed' /\ age'[i] # None /\ transit'[i] # None)
                 => age'[i] <= n + transit'[i]
          BY <3>a, <3>c, <3>d, <3>e, <3>f, <4>1, <4>2
        <4> QED
          BY <4>3 DEF SeenBeforeUnderWay, n
      <3>5. SentBeforeDeath(i)'
        <4>1. /\ Delay[i] \in Nat /\ OldAge(i) \in Nat
              /\ LongDead(i) = OldAge(i) + Delay[i]
          BY <2>2, Bounds DEF OldAge, LongDead, Slack
        <4>2. dead[i] \in Nat
          BY <1>0, <2>2 DEF HeartbeatTypeOK
        <4>3. dead'[i] = IF life[i] = "dead" THEN UpTo(dead[i], LongDead(i)) ELSE 0
          BY <1>1, <2>2 DEF Tick
        <4>4. age[i] # None => age'[i] = UpTo(age[i], OldAge(i))
          BY <1>1, <2>2 DEF Tick
        <4>5. SentBeforeDeath(i)
          BY <1>0, <2>2
        <4>6. OldAge(i)' = OldAge(i)
          BY DEF OldAge
        <4> HIDE DEF OldAge, LongDead
        <4> QED
          BY <3>a, <3>c, <3>d, <3>e, <3>f, <4>1, <4>2, <4>3, <4>4, <4>5, <4>6
             DEF SentBeforeDeath, UpTo
      <3> QED
        BY <3>1, <3>2, <3>3, <3>4, <3>5
    <2> QED
      BY <2>1, <2>2
  <1>2. ASSUME NEW j \in Instances, Start(j) PROVE Kept
    <2>1. StillSubscribed'
      BY <1>0, <1>2 DEF Start, tracker, StillSubscribed
    <2>2. ASSUME NEW i \in Instances PROVE Of(i)'
      BY <1>0, <1>2, <2>2
         DEF Start, tracker, HeartbeatTypeOK, Unborn, UnderWay, SeenUpToLost,
             SeenBeforeUnderWay, SentBeforeDeath, OldAge
    <2> QED
      BY <2>1, <2>2
  <1>3. ASSUME NEW j \in Instances, Die(j) PROVE Kept
    <2>1. StillSubscribed'
      BY <1>0, <1>3 DEF Die, tracker, StillSubscribed
    <2>2. ASSUME NEW i \in Instances PROVE Of(i)'
      <3>1. SentBeforeDeath(i)'
        BY <1>0, <1>3, <2>2 DEF Die, tracker, HeartbeatTypeOK, SentBeforeDeath, OldAge
      <3>2. (Unborn(i) /\ UnderWay(i) /\ SeenUpToLost(i) /\ SeenBeforeUnderWay(i))'
        BY <1>0, <1>3, <2>2
           DEF Die, tracker, HeartbeatTypeOK, Unborn, UnderWay, SeenUpToLost,
               SeenBeforeUnderWay
      <3> QED
        BY <3>1, <3>2
    <2> QED
      BY <2>1, <2>2
  <1>4. ASSUME NEW j \in Instances, Beat(j) PROVE Kept
    <2>1. StillSubscribed'
      BY <1>0, <1>4 DEF Beat, tracker, StillSubscribed
    <2>2. ASSUME NEW i \in Instances, i # j PROVE Of(i)'
      BY <1>0, <1>4, <2>2
         DEF Beat, tracker, HeartbeatTypeOK, Unborn, UnderWay, SeenUpToLost,
             SeenBeforeUnderWay, SentBeforeDeath, OldAge
    <2>3. transit[j] = None
      BY <1>0, <1>4 DEF Beat, HeartbeatTypeOK, UnderWay
    <2>4. (~closed /\ age[j] # None) => age[j] <= lost[j] * Interval[j] + Interval[j]
      BY <1>0, <1>4, <2>3 DEF Beat, HeartbeatTypeOK, SeenUpToLost
    <2>5. Unborn(j)' /\ UnderWay(j)' /\ SentBeforeDeath(j)'
      BY <1>0, <1>4, <2>3
         DEF Beat, tracker, HeartbeatTypeOK, Unborn, UnderWay, SentBeforeDeath, OldAge
    <2>6. SeenUpToLost(j)'
      <3>1. CASE transit'[j] # None
        BY <3>1 DEF SeenUpToLost
      <3>2. CASE transit'[j] = None
        <4>1. lost'[j] = lost[j] + 1 /\ due'[j] = Interval[j] /\ age' = age /\ closed' = closed
          BY <1>0, <1>4, <3>2 DEF Beat, tracker, HeartbeatTypeOK
        <4>2. (lost[j] + 1) * Interval[j] = lost[j] * Interval[j] + Interval[j]
          BY <1>0, LostIntervals DEF HeartbeatTypeOK
        <4> QED
          BY <1>0, <2>4, <4>1, <4>2 DEF SeenUpToLost, HeartbeatTypeOK
      <3> QED
        BY <3>1, <3>2
    <2>7. SeenBeforeUnderWay(j)'
      <3>1. CASE transit'[j] = None
        BY <3>1 DEF SeenBeforeUnderWay
      <3>2. CASE transit'[j] # None
        <4>1. transit'[j] = 0 /\ age' = age /\ closed' = closed
          BY <1>0, <1>4, <2>3, <3>2 DEF Beat, tracker, HeartbeatTypeOK
        <4>2. /\ lost[j] * Interval[j] <= MaxLost[j] * Interval[j]
              /\ (MaxLost[j] + 1) * Interval[j] = MaxLost[j] * Interval[j] + Interval[j]
          BY <1>0, Bounds, LostIntervals DEF HeartbeatTypeOK
        <4>3. lost[j] * Interval[j] \in Int /\ MaxLost[j] * Interval[j] \in Int
          BY <1>0, Bounds DEF HeartbeatTypeOK
        <4> QED
          BY <1>0, <2>4, <4>1, <4>2, <4>3 DEF SeenBeforeUnderWay, HeartbeatTypeOK
      <3> QED
        BY <3>1, <3>2
    <2> QED
      BY <2>1, <2>2, <2>5, <2>6, <2>7
  <1>5. ASSUME NEW j \in Instances, Arrive(j) PROVE Kept
    <2>1. StillSubscribed'
      BY <1>0, <1>5 DEF Arrive, Seen, StillSubscribed, HeartbeatTypeOK
    <2>2. ASSUME NEW i \in Instances, i # j PROVE Of(i)'
      BY <1>0, <1>5, <2>2
         DEF Arrive, Seen, HeartbeatTypeOK, Unborn, UnderWay, SeenUpToLost,
             SeenBeforeUnderWay, SentBeforeDeath, OldAge
    <2>3. (Unborn(j) /\ UnderWay(j) /\ SeenBeforeUnderWay(j))'
      BY <1>0, <1>5
         DEF Arrive, Seen, HeartbeatTypeOK, Unborn, UnderWay, SeenBeforeUnderWay
    <2>4. SeenUpToLost(j)'
      <3>1. ~closed /\ age'[j] # None /\ life[j] = "alive" => age'[j] = 0
        BY <1>0, <1>5 DEF Arrive, Seen, HeartbeatTypeOK, StillSubscribed
      <3>2. lost[j] * Interval[j] >= 0 /\ lost[j] * Interval[j] \in Int
        BY <1>0 DEF HeartbeatTypeOK
      <3> QED
        BY <1>0, <1>5, <3>1, <3>2 DEF Arrive, SeenUpToLost, HeartbeatTypeOK
    <2>5. SentBeforeDeath(j)'
      BY <1>0, <1>5 DEF Arrive, Seen, HeartbeatTypeOK, SentBeforeDeath, OldAge
    <2> QED
      BY <2>1, <2>2, <2>3, <2>4, <2>5
  <1>6. ASSUME StartTracking \/ OnHeartbeat \/ Close PROVE Kept
    <2>1. StillSubscribed'
      BY <1>0, <1>6 DEF StartTracking, OnHeartbeat, Close, hosts, StillSubscribed
    <2>2. ASSUME NEW i \in Instances PROVE Of(i)'
      BY <1>0, <1>6, <2>2
         DEF StartTracking, OnHeartbeat, Close, hosts, HeartbeatTypeOK, Unborn, UnderWay,
             SeenUpToLost, SeenBeforeUnderWay, SentBeforeDeath, OldAge
    <2> QED
      BY <2>1, <2>2
  <1>7. ASSUME UNCHANGED vars PROVE Kept
    BY <1>0, <1>7
       DEF vars, hosts, tracker, StillSubscribed, Unborn, UnderWay, SeenUpToLost,
           SeenBeforeUnderWay, SentBeforeDeath, OldAge
  <1>8. Kept
    BY <1>1, <1>2, <1>3, <1>4, <1>5, <1>6, <1>7 DEF Next
  <1>9. HeartbeatTypeOK'
    BY NextTypeOK
  <1> QED
    BY <1>8, <1>9 DEF BeatInv

\* The inductive invariant holds of every reachable state.
THEOREM Invariance == Spec => []BeatInv
  BY InitInv, NextInv, PTL DEF Spec

\* A live instance is online to an open client, however its beats are lost and
\* delayed within the assumption (tracker.ts: liveness).
THEOREM AliveOnline == Spec => []AliveIsOnline
  <1>1. BeatInv => AliveIsOnline
    <2> SUFFICES ASSUME BeatInv, ~closed, NEW i \in Instances,
                        life[i] = "alive", age[i] # None
                 PROVE  age[i] <= Slack * Interval[i]
      BY DEF AliveIsOnline, Online
    <2>1. HeartbeatTypeOK /\ SeenUpToLost(i) /\ SeenBeforeUnderWay(i) /\ UnderWay(i)
      BY DEF BeatInv
    <2>2. \/ MaxLost[i] = 0 \/ MaxLost[i] = 1
          \/ MaxLost[i] = 2 /\ Delay[i] = 0
      BY Bounds
    <2>3. /\ lost[i] * Interval[i] <= MaxLost[i] * Interval[i]
          /\ (MaxLost[i] + 1) * Interval[i] = MaxLost[i] * Interval[i] + Interval[i]
      BY <2>1, Bounds, LostIntervals DEF HeartbeatTypeOK
    <2>4. lost[i] * Interval[i] \in Int /\ MaxLost[i] * Interval[i] \in Int
      BY <2>1, Bounds DEF HeartbeatTypeOK
    <2>5. CASE transit[i] = None
      BY <2>1, <2>2, <2>3, <2>4, <2>5, HeartbeatAssumption
         DEF HeartbeatTypeOK, HeartbeatAssumption, SeenUpToLost, Slack
    <2>6. CASE transit[i] # None
      BY <2>1, <2>2, <2>3, <2>4, <2>6, HeartbeatAssumption
         DEF HeartbeatTypeOK, HeartbeatAssumption, SeenBeforeUnderWay, Slack
    <2> QED
      BY <2>5, <2>6
  <1> QED
    BY Invariance, <1>1, PTL

\* An instance dead for longer than the slack and a beat's delay is offline,
\* whatever the other instances do (tracker.ts: entries per instance id).
THEOREM DeadOffline == Spec => []DeadIsOffline
  <1>1. BeatInv => DeadIsOffline
    BY HeartbeatAssumption
       DEF BeatInv, DeadIsOffline, Online, HeartbeatAssumption, HeartbeatTypeOK, Unborn,
           SentBeforeDeath, OldAge, Slack
  <1> QED
    BY Invariance, <1>1, PTL

\* What a client of the SDK reads from liveness(): both together (tracker.ts).
THEOREM Verdicts == Spec => []VerdictsAreRight
  BY AliveOnline, DeadOffline, PTL DEF VerdictsAreRight

-----------------------------------------------------------------------------
(***************************************************************************)
(* The exchange, whatever the interceptors do.  What the consumer was given*)
(* and what its iterator holds are what arrived, from its start and without*)
(* a gap; and it was given nothing that ends a reply.  So the next frame it*)
(* takes is the next of the reply, or the one that ended it.               *)
(***************************************************************************)
Sendable == ReplyItems \cup {Error, End}

FramesTyped ==
  /\ frames \in Seq(Sendable)
  /\ sent \in 0..MaxChunks /\ asked \in 0..MaxQuestions
  /\ asking # "no" => asked \in Questions

ArrivedSound ==
  /\ delivered \in 0..Len(frames)
  /\ arrived \in Seq(Sendable)

ViewSound ==
  /\ at # "ended" => outcome = "none"
  /\ buffer \in Seq(Sendable) /\ got \in Seq(ReplyItems)
  /\ Len(got) + Len(buffer) <= Len(arrived)
  /\ ~stopped => Len(got) + Len(buffer) = Len(arrived)
  /\ \A i \in 1..Len(got) : got[i] = arrived[i]
  /\ \A i \in 1..Len(buffer) : buffer[i] = arrived[Len(got) + i]

ExchangeInv == FramesTyped /\ ArrivedSound /\ ViewSound

LEMMA KindsTell ==
  /\ \A f \in ReplyItems : f.kind \notin {"error", "end"}
  /\ Error.kind = "error" /\ End.kind = "end" /\ Error # End
  /\ Error \notin ReplyItems /\ End \notin ReplyItems
<1>1. \A k, n : Frame(k, n).kind = k
  BY DEF Frame
<1>2. Ack.kind = "ack" /\ Error.kind = "error" /\ End.kind = "end"
  BY <1>1 DEF Ack, Error, End
<1>3. ASSUME NEW f \in ReplyItems PROVE f.kind \in {"ack", "chunk", "query"}
  <2>1. CASE f = Ack
    BY <1>2, <2>1
  <2>2. CASE \E n \in 1..MaxChunks : f = Frame("chunk", n)
    BY <1>1, <2>2
  <2>3. CASE \E n \in Questions : f = Frame("query", n)
    BY <1>1, <2>3
  <2> QED BY <1>3, <2>1, <2>2, <2>3 DEF ReplyItems
<1>4. \A f \in ReplyItems : f.kind \notin {"error", "end"}
  BY <1>3
<1>5. "error" # "end" /\ Error # End
  BY <1>2
<1> QED BY <1>2, <1>4, <1>5

LEMMA FirstIsLeast ==
  ASSUME NEW fs \in Seq(Sendable), Ends(fs) # {}
  PROVE  FirstEnd(fs) \in Ends(fs) /\ \A j \in Ends(fs) : FirstEnd(fs) <= j
<1>1. Ends(fs) \subseteq Nat
  BY DEF Ends
<1>2. PICK x \in Ends(fs) : \A y \in Ends(fs) : ~(<<y, x>> \in OpToRel(<, Nat))
  BY <1>1, WFMin, NatLessThanWellFounded, Zenon
<1>3. \A y \in Ends(fs) : ~(y < x)
  BY <1>1, <1>2, Zenon DEF OpToRel
<1>4. \A y \in Ends(fs) : x <= y
  BY <1>1, <1>3
<1> QED BY <1>4 DEF FirstEnd

\* The first end is where the frames before it are items.
LEMMA FirstIs ==
  ASSUME NEW fs \in Seq(Sendable), NEW n \in 1..Len(fs), fs[n].kind \in {"error", "end"},
         \A i \in 1..(n - 1) : fs[i].kind \notin {"error", "end"}
  PROVE  Ends(fs) # {} /\ FirstEnd(fs) = n
<1>1. n \in Ends(fs) /\ \A j \in Ends(fs) : n <= j
  BY DEF Ends
<1>2. FirstEnd(fs) \in Ends(fs) /\ FirstEnd(fs) <= n
  BY <1>1, FirstIsLeast
<1>3. FirstEnd(fs) \in 1..Len(fs)
  BY <1>2 DEF Ends
<1> QED BY <1>1, <1>2, <1>3

\* One frame more.
LEMMA ContentGrows ==
  ASSUME NEW fs \in Seq(Sendable), NEW f \in Sendable, NEW gs, gs = Append(fs, f)
  PROVE  /\ Ends(fs) # {} => Content(gs) = Content(fs) /\ Verdict(gs) = Verdict(fs)
         /\ Ends(fs) = {} => Content(fs) = fs /\ Verdict(fs) = "open"
         /\ Ends(fs) = {} /\ f \in ReplyItems => Content(gs) = Append(fs, f) /\ Verdict(gs) = "open"
         /\ Ends(fs) = {} /\ f \notin ReplyItems =>
              Content(gs) = fs /\ Verdict(gs) \in {"failed", "complete"}
<1>0. /\ gs \in Seq(Sendable) /\ Len(gs) = Len(fs) + 1 /\ gs[Len(fs) + 1] = f /\ Len(fs) \in Nat
      /\ \A i \in 1..Len(fs) : gs[i] = fs[i]
  OBVIOUS
<1>1. CASE Ends(fs) # {}
  <2>1. PICK n : n = FirstEnd(fs)
    OBVIOUS
  <2>2. n \in 1..Len(fs) /\ fs[n].kind \in {"error", "end"} /\ \A j \in Ends(fs) : n <= j
    BY <1>1, <2>1, FirstIsLeast DEF Ends
  <2>3. \A i \in 1..(n - 1) : gs[i].kind \notin {"error", "end"}
    <3> SUFFICES ASSUME NEW i \in 1..(n - 1), gs[i].kind \in {"error", "end"} PROVE FALSE
      OBVIOUS
    <3>1. i \in 1..Len(fs)
      BY <1>0, <2>2
    <3>2. i \in Ends(fs)
      BY <1>0, <3>1 DEF Ends
    <3> QED BY <2>2, <3>1, <3>2
  <2>4. Ends(gs) # {} /\ FirstEnd(gs) = n
    <3>1. n \in 1..Len(gs) /\ gs[n].kind \in {"error", "end"}
      BY <1>0, <2>2
    <3> QED BY <1>0, <2>3, <3>1, FirstIs, Zenon
  <2>5. SubSeq(gs, 1, n - 1) = SubSeq(fs, 1, n - 1)
    BY <1>0, <2>2
  <2>6. gs[n] = fs[n]
    BY <1>0, <2>2
  <2> QED BY <1>1, <2>1, <2>4, <2>5, <2>6 DEF Content, Verdict
<1>2. CASE Ends(fs) = {}
  <2>1. \A i \in 1..Len(fs) : gs[i].kind \notin {"error", "end"}
    BY <1>0, <1>2 DEF Ends
  <2>2. Content(fs) = fs /\ Verdict(fs) = "open"
    BY <1>2 DEF Content, Verdict
  <2>3. CASE f \in ReplyItems
    <3>1. f.kind \notin {"error", "end"}
      BY <2>3, KindsTell
    <3>2. \A i \in 1..Len(gs) : gs[i].kind \notin {"error", "end"}
      <4> SUFFICES ASSUME NEW i \in 1..Len(gs) PROVE gs[i].kind \notin {"error", "end"}
        OBVIOUS
      <4>1. i \in 1..Len(fs) \/ i = Len(fs) + 1
        BY <1>0
      <4> QED BY <1>0, <2>1, <3>1, <4>1
    <3>3. Ends(gs) = {}
      BY <3>2 DEF Ends
    <3> QED BY <1>2, <2>2, <2>3, <3>3 DEF Content, Verdict
  <2>4. CASE f \notin ReplyItems
    <3>1. f.kind \in {"error", "end"}
      BY <2>4, KindsTell DEF Sendable
    <3>2. Ends(gs) # {} /\ FirstEnd(gs) = Len(fs) + 1
      <4>1. PICK m : m = Len(fs) + 1
        OBVIOUS
      <4>2. m \in 1..Len(gs) /\ gs[m].kind \in {"error", "end"}
        BY <1>0, <3>1, <4>1
      <4>3. \A i \in 1..(m - 1) : gs[i].kind \notin {"error", "end"}
        <5>1. 1..(m - 1) = 1..Len(fs)
          BY <1>0, <4>1
        <5> QED BY <2>1, <5>1, Zenon
      <4>4. Ends(gs) # {} /\ FirstEnd(gs) = m
        BY <1>0, <4>2, <4>3, FirstIs, Zenon
      <4> QED BY <4>1, <4>4
    <3>3. SubSeq(gs, 1, Len(fs)) = fs
      BY <1>0
    <3>4. Content(gs) = fs
      <4>1. (Len(fs) + 1) - 1 = Len(fs)
        BY <1>0
      <4>2. Content(gs) = SubSeq(gs, 1, (Len(fs) + 1) - 1)
        BY <3>2, Zenon DEF Content
      <4> QED BY <3>3, <4>1, <4>2, Zenon
    <3>5. Verdict(gs) \in {"failed", "complete"}
      BY <3>2 DEF Verdict
    <3> QED BY <1>2, <2>2, <2>4, <3>4, <3>5
  <2> QED BY <1>2, <2>3, <2>4
<1> QED BY <1>1, <1>2

\* The frame after n items: the next item, or the end of the reply.
LEMMA ContentAt ==
  ASSUME NEW fs \in Seq(Sendable), NEW n \in Nat, n < Len(fs),
         \A i \in 1..n : fs[i] \in ReplyItems
  PROVE  /\ fs[n + 1] \in ReplyItems => n < Len(Content(fs)) /\ Content(fs)[n + 1] = fs[n + 1]
         /\ fs[n + 1] = End => Verdict(fs) = "complete" /\ Content(fs) = SubSeq(fs, 1, n)
         /\ fs[n + 1] = Error => Verdict(fs) = "failed"
<1>0. n + 1 \in 1..Len(fs) /\ \A i \in 1..n : fs[i].kind \notin {"error", "end"}
  BY KindsTell
<1>1. CASE fs[n + 1] \in ReplyItems
  <2>1. CASE Ends(fs) = {}
    BY <1>0, <1>1, <2>1, KindsTell DEF Content
  <2>2. CASE Ends(fs) # {}
    <3>1. PICK m : m = FirstEnd(fs)
      OBVIOUS
    <3>2. m \in 1..Len(fs) /\ fs[m].kind \in {"error", "end"}
      BY <2>2, <3>1, FirstIsLeast DEF Ends
    <3>3. m # n + 1 /\ m \notin 1..n
      BY <1>0, <1>1, <3>2, KindsTell
    <3>4. n + 1 <= m - 1
      BY <3>2, <3>3
    <3>5. Content(fs) = SubSeq(fs, 1, m - 1)
      BY <2>2, <3>1 DEF Content
    <3> QED BY <1>1, <3>2, <3>4, <3>5, KindsTell
  <2> QED BY <2>1, <2>2
<1>2. CASE fs[n + 1] \in {Error, End}
  <2>1. fs[n + 1].kind \in {"error", "end"}
    BY <1>2, KindsTell
  <2>2. Ends(fs) # {} /\ FirstEnd(fs) = n + 1
    <3>1. PICK m : m = n + 1
      OBVIOUS
    <3>2. m \in 1..Len(fs) /\ fs[m].kind \in {"error", "end"} /\ \A i \in 1..(m - 1) : fs[i].kind \notin {"error", "end"}
      BY <1>0, <2>1, <3>1
    <3> QED BY <3>1, <3>2, FirstIs
  <2>3. Content(fs) = SubSeq(fs, 1, n)
    BY <2>2 DEF Content
  <2>4. Verdict(fs) = IF fs[n + 1].kind = "error" THEN "failed" ELSE "complete"
    BY <2>2 DEF Verdict
  <2> QED BY <1>2, <2>3, <2>4, KindsTell
<1> QED BY <1>1, <1>2 DEF Sendable

-----------------------------------------------------------------------------

LEMMA EmitsSendable ==
  ASSUME frames \in Seq(Sendable), NEW fs \in Seq(Sendable), Emit(fs)
  PROVE  frames' \in Seq(Sendable) /\ Len(frames') >= Len(frames)
<1>1. CASE connected
  BY <1>1 DEF Emit
<1>2. CASE ~connected
  BY <1>2 DEF Emit
<1> QED BY <1>1, <1>2

\* What the host sends, under whatever interceptors.
LEMMA HostSends ==
  ASSUME FramesTyped, HostNext \/ \E q \in Questions : Reply(q)
  PROVE  FramesTyped' /\ Len(frames') >= Len(frames)
<1> USE DEF handlerVars
<1>1. Ack \in Sendable /\ <<Ack>> \in Seq(Sendable) /\ <<Error, End>> \in Seq(Sendable) /\ <<End>> \in Seq(Sendable)
  BY DEF Sendable, ReplyItems
<1>2. ASSUME UNCHANGED <<sent, asked, asking>>,
             \E fs \in {<<Ack>>, <<Error, End>>, <<End>>} : Emit(fs)
      PROVE  FramesTyped' /\ Len(frames') >= Len(frames)
  BY <1>1, <1>2, EmitsSendable DEF FramesTyped
<1>3. ASSUME UNCHANGED <<frames, sent, asked>>, asking' \in {asking, "no"}
      PROVE  FramesTyped' /\ Len(frames') >= Len(frames)
  BY <1>3 DEF FramesTyped
<1>4. CASE DispatchStep
  BY <1>2, <1>3, <1>4 DEF DispatchStep, Malformed, Receive, NotAdmitted, Admitted, Dispatched
<1>5. CASE ChainStep
  BY <1>2, <1>3, <1>5 DEF ChainStep, CallNext, ChainSettles
<1>6. CASE SendChunk
  <2>1. sent + 1 \in 1..MaxChunks /\ sent' = sent + 1 /\ asked' = asked /\ asking' = asking
        /\ Emit(<<Frame("chunk", sent + 1)>>)
    BY <1>6, DispatchBoundsAssumption DEF SendChunk, FramesTyped
  <2>2. Frame("chunk", sent + 1) \in Sendable
    BY <2>1 DEF Sendable, ReplyItems
  <2>3. <<Frame("chunk", sent + 1)>> \in Seq(Sendable)
    BY <2>2
  <2>4. frames' \in Seq(Sendable) /\ Len(frames') >= Len(frames)
    BY <2>1, <2>3, EmitsSendable DEF FramesTyped
  <2> QED BY <2>1, <2>4, DispatchBoundsAssumption DEF FramesTyped
<1>7. CASE AskSubscribe
  BY <1>7, DispatchBoundsAssumption DEF AskSubscribe, FramesTyped, Questions
<1>8. CASE AskPublish
  <2>1. asked \in Questions /\ UNCHANGED <<sent, asked>> /\ asking' = "published"
        /\ Emit(<<Frame("query", asked)>>)
    BY <1>8 DEF AskPublish, FramesTyped
  <2>2. Frame("query", asked) \in Sendable
    BY <2>1 DEF Sendable, ReplyItems
  <2>3. <<Frame("query", asked)>> \in Seq(Sendable)
    BY <2>2
  <2>4. frames' \in Seq(Sendable) /\ Len(frames') >= Len(frames)
    BY <2>1, <2>3, EmitsSendable DEF FramesTyped
  <2> QED BY <2>1, <2>4 DEF FramesTyped
<1>9. CASE CallerListening
  BY <1>2, <1>9 DEF CallerListening
<1>10. CASE AskAnswered \/ AskFails \/ (\E how \in {"done", "failed"} : HandlerEnds(how)) \/ Disconnect
  BY <1>3, <1>10 DEF AskAnswered, AskFails, HandlerEnds, Disconnect
<1>11. CASE KeepAliveTick
  BY <1>2, <1>11 DEF KeepAliveTick
<1>12. ASSUME NEW q \in Questions, Reply(q) PROVE FramesTyped' /\ Len(frames') >= Len(frames)
  BY <1>3, <1>12 DEF Reply
<1> QED
  BY <1>4, <1>5, <1>6, <1>7, <1>8, <1>9, <1>10, <1>11, <1>12 DEF HostNext, HostTask, HandlerStep

-----------------------------------------------------------------------------

\* A step of the exchange, as the contract sees it: a step of its, or none.
Kept == ExchangeInv' /\ [Contract!ContractNext]_(Contract!contractVars)

\* The frames that arrived stay; the consumer is shown nothing, and is told
\* nothing or why its stream ended without one.
GivenUp ==
  /\ arrived' = arrived /\ got' = got
  /\ \/ outcome' = outcome
     \/ outcome = "none" /\ outcome' \in StreamEnds \ {"done", "serviceError"}

LEMMA GivenUpKeeps ==
  ASSUME GivenUp
  PROVE  [Contract!ContractNext]_(Contract!contractVars)
<1>1. CASE outcome' = outcome
  BY <1>1 DEF GivenUp, Told, Contract!contractVars
<1>2. CASE outcome = "none" /\ outcome' \in StreamEnds \ {"done", "serviceError"}
  <2>1. Told = "nothing" /\ Told' = "gaveUp"
    BY <1>2 DEF Told, StreamEnds
  <2>2. Contract!GiveUp
    BY <2>1 DEF GivenUp, Contract!GiveUp
  <2> QED BY <2>2 DEF Contract!ContractNext
<1> QED BY <1>1, <1>2 DEF GivenUp

\* What the iterator holds may shrink, and nothing more comes of a stopped one.
LEMMA ViewShrinks ==
  ASSUME ViewSound, ArrivedSound, UNCHANGED <<arrived, got>>,
         buffer' = buffer \/ (stopped' /\ \E kept \in 0..Len(buffer) : buffer' = SubSeq(buffer, 1, kept)),
         stopped => stopped', at' # "ended" => outcome' = "none",
         stopped' = stopped \/ stopped'
  PROVE  ViewSound'
<1>1. CASE buffer' = buffer
  BY <1>1 DEF ViewSound
<1>2. ASSUME stopped', NEW kept \in 0..Len(buffer), buffer' = SubSeq(buffer, 1, kept) PROVE ViewSound'
  <2>1. buffer \in Seq(Sendable) /\ got \in Seq(ReplyItems) /\ arrived \in Seq(Sendable)
    BY DEF ViewSound, ArrivedSound
  <2>2. buffer' \in Seq(Sendable) /\ Len(buffer') = kept /\ \A i \in 1..kept : buffer'[i] = buffer[i]
    BY <1>2, <2>1
  <2>3. kept \in Nat /\ kept <= Len(buffer) /\ \A i \in 1..kept : i \in 1..Len(buffer)
    BY <2>1
  <2> QED BY <1>2, <2>1, <2>2, <2>3 DEF ViewSound
<1> QED BY <1>1, <1>2

\* The end of the iteration drops what is held.
LEMMA FinishesSound ==
  ASSUME ViewSound, ArrivedSound, NEW how, Finish(how), UNCHANGED <<arrived, got>>
  PROVE  ViewSound'
<1>1. buffer' = <<>> /\ stopped' = TRUE /\ at' = "ended"
  BY DEF Finish
<1>2. Len(got) \in Nat /\ Len(buffer) \in Nat /\ Len(arrived) \in Nat /\ <<>> \in Seq(Sendable) /\ Len(<<>>) = 0
  BY DEF ViewSound, ArrivedSound
<1> QED BY <1>1, <1>2 DEF ViewSound

LEMMA TakeKeeps ==
  ASSUME ExchangeInv, Take, UNCHANGED <<hostVars, netVars>>
  PROVE  Kept
<1> DEFINE f == Head(buffer)
           n == Len(got)
<1>1. at = "reading" /\ buffer # <<>> /\ outcome = "none" /\ Told = "nothing"
  BY DEF Take, ExchangeInv, ViewSound, Told
<1>2. buffer \in Seq(Sendable) /\ got \in Seq(ReplyItems) /\ arrived \in Seq(Sendable)
      /\ n + Len(buffer) <= Len(arrived) /\ n \in Nat /\ Len(buffer) \in Nat /\ Len(buffer) >= 1
  BY <1>1 DEF ExchangeInv, ViewSound, ArrivedSound
<1>3. f = arrived[n + 1] /\ n < Len(arrived) /\ f \in Sendable
  BY <1>1, <1>2 DEF ExchangeInv, ViewSound
<1>4. \A i \in 1..n : arrived[i] \in ReplyItems /\ got[i] = arrived[i]
  BY <1>2 DEF ExchangeInv, ViewSound
<1>5. /\ f \in ReplyItems => n < Len(Content(arrived)) /\ Content(arrived)[n + 1] = f
      /\ f = End => Verdict(arrived) = "complete" /\ Content(arrived) = SubSeq(arrived, 1, n)
      /\ f = Error => Verdict(arrived) = "failed"
  BY <1>2, <1>3, <1>4, ContentAt
<1>6. FramesTyped' /\ ArrivedSound' /\ arrived' = arrived
  BY DEF ExchangeInv, FramesTyped, ArrivedSound, hostVars, netVars
<1>7. CASE aborted
  <2>1. Finish("aborted") /\ got' = got
    BY <1>7 DEF Take
  <2>2. ViewSound'
    BY <1>6, <2>1, FinishesSound DEF ExchangeInv
  <2>3. GivenUp
    BY <1>1, <1>6, <2>1 DEF GivenUp, Finish, StreamEnds
  <2> QED BY <1>6, <2>2, <2>3, GivenUpKeeps DEF Kept, ExchangeInv
<1>8. CASE ~aborted /\ f = Error
  <2>1. Finish("serviceError") /\ got' = got
    BY <1>8, KindsTell DEF Take
  <2>2. ViewSound'
    BY <1>6, <2>1, FinishesSound DEF ExchangeInv
  <2>3. Told' = "error"
    BY <2>1 DEF Told, Finish
  <2>4. Contract!TellError
    BY <1>1, <1>5, <1>6, <1>8, <2>1, <2>3 DEF Contract!TellError
  <2> QED BY <1>6, <2>2, <2>4 DEF Kept, ExchangeInv, Contract!ContractNext
<1>9. CASE ~aborted /\ f = End
  <2>1. Finish("done") /\ got' = got
    BY <1>9, KindsTell DEF Take
  <2>2. ViewSound'
    BY <1>6, <2>1, FinishesSound DEF ExchangeInv
  <2>3. Told' = "done"
    BY <2>1 DEF Told, Finish
  <2>4. got = SubSeq(arrived, 1, n)
    BY <1>2, <1>3, <1>4
  <2>5. Contract!TellDone
    BY <1>1, <1>5, <1>6, <1>9, <2>1, <2>3, <2>4 DEF Contract!TellDone
  <2> QED BY <1>6, <2>2, <2>5 DEF Kept, ExchangeInv, Contract!ContractNext
<1>10. CASE ~aborted /\ f \in ReplyItems
  <2>1. Yield(f)
    BY <1>10, KindsTell DEF Take
  <2>2. got' = Append(got, f) /\ buffer' = Tail(buffer) /\ at' = "yielded" /\ UNCHANGED <<outcome, stopped>>
    BY <2>1 DEF Yield
  <2>3. Told' = Told
    BY <2>2 DEF Told
  <2>4. Contract!Show
    BY <1>1, <1>5, <1>6, <1>10, <2>2, <2>3 DEF Contract!Show
  <2>5. got' \in Seq(ReplyItems) /\ Len(got') = n + 1 /\ \A i \in 1..(n + 1) : got'[i] = arrived[i]
    <3>1. got' \in Seq(ReplyItems) /\ Len(got') = n + 1 /\ got'[n + 1] = f /\ \A i \in 1..n : got'[i] = got[i]
      BY <1>2, <1>10, <2>2
    <3> HIDE DEF f, n
    <3> QED BY <1>2, <1>3, <1>4, <3>1
  <2>6. buffer' \in Seq(Sendable) /\ Len(buffer') = Len(buffer) - 1
        /\ \A i \in 1..Len(buffer') : buffer'[i] = arrived[n + 1 + i]
    <3>1. buffer' \in Seq(Sendable) /\ Len(buffer') = Len(buffer) - 1
          /\ \A i \in 1..Len(buffer') : buffer'[i] = buffer[i + 1]
      BY <1>1, <1>2, <2>2
    <3>2. \A i \in 1..Len(buffer) : buffer[i] = arrived[n + i]
      BY DEF ExchangeInv, ViewSound
    <3> HIDE DEF f, n
    <3>3. \A i \in 1..Len(buffer') : i + 1 \in 1..Len(buffer) /\ n + (i + 1) = n + 1 + i
      BY <1>2, <3>1
    <3> QED BY <3>1, <3>2, <3>3
  <2>7. ViewSound'
    <3> HIDE DEF f, n
    <3>1. Len(got') + Len(buffer') = n + Len(buffer)
      BY <1>2, <2>5, <2>6
    <3> QED BY <1>1, <1>2, <1>6, <2>2, <2>5, <2>6, <3>1 DEF ExchangeInv, ViewSound, n
  <2> QED BY <1>6, <2>4, <2>7 DEF Kept, ExchangeInv, Contract!ContractNext
<1> QED BY <1>3, <1>7, <1>8, <1>9, <1>10 DEF Sendable

LEMMA CallerKeeps ==
  ASSUME ExchangeInv, Caller
  PROVE  Kept
<1>1. UNCHANGED <<hostVars, netVars>>
  BY DEF Caller
<1>2. FramesTyped' /\ ArrivedSound' /\ arrived' = arrived
  BY <1>1 DEF ExchangeInv, FramesTyped, ArrivedSound, hostVars, netVars
<1>3. ASSUME got' = got, NEW how \in StreamEnds \ {"done", "serviceError"}, Finish(how), at # "ended" PROVE Kept
  <2>1. ViewSound'
    BY <1>2, <1>3, FinishesSound DEF ExchangeInv
  <2>2. GivenUp
    BY <1>2, <1>3 DEF GivenUp, Finish, ExchangeInv, ViewSound
  <2> QED BY <1>2, <2>1, <2>2, GivenUpKeeps DEF Kept, ExchangeInv
<1>4. ASSUME UNCHANGED <<got, outcome>>, at # "ended", at' # "ended",
             (UNCHANGED <<stopped, buffer>>) \/ StopIterator
      PROVE  Kept
  <2>1. ViewSound'
    BY <1>2, <1>4, ViewShrinks DEF ExchangeInv, StopIterator, ViewSound
  <2>2. GivenUp
    BY <1>2, <1>4 DEF GivenUp
  <2> QED BY <1>2, <2>1, <2>2, GivenUpKeeps DEF Kept, ExchangeInv
<1>5. Refused \in StreamEnds \ {"done", "serviceError"} /\ Drained \in StreamEnds \ {"done", "serviceError"}
  BY DEF Refused, Drained, StreamEnds
<1>6. {"unsent", "broken", "stalled", "transport"} \subseteq StreamEnds \ {"done", "serviceError"}
  BY DEF StreamEnds
<1>7. CASE Take
  BY <1>1, <1>7, TakeKeeps
<1>8. CASE Iterate \/ Requested
  BY <1>3, <1>4, <1>5, <1>8 DEF Iterate, Requested
<1>9. CASE PrepareFails \/ Exhausted \/ Stall \/ TransportFails \/ Break
  BY <1>3, <1>5, <1>6, <1>9 DEF PrepareFails, Exhausted, Stall, TransportFails, Break
<1>10. CASE Publish \/ Resume
  BY <1>4, <1>10 DEF Publish, Resume
<1>11. CASE Cancel \/ Abort \/ MaxWait
  BY <1>4, <1>11 DEF Cancel, Abort, MaxWait, Iterating
<1> QED
  BY <1>7, <1>8, <1>9, <1>10, <1>11 DEF Caller, StreamNext, StreamTask, StreamProgress

LEMMA DeliverKeeps ==
  ASSUME ExchangeInv, Deliver
  PROVE  Kept
<1> DEFINE f == frames[delivered + 1]
<1>1. /\ frames \in Seq(Sendable) /\ arrived \in Seq(Sendable) /\ delivered + 1 \in 1..Len(frames)
      /\ arrived' = Append(arrived, f) /\ delivered' = delivered + 1 /\ FrameArrives(f)
      /\ UNCHANGED hostVars
  BY DEF Deliver, ExchangeInv, FramesTyped, ArrivedSound
<1>2. f \in Sendable
  BY <1>1
<1>3. UNCHANGED <<at, outcome, stopped, got>> /\ buffer' = IF stopped THEN buffer ELSE Append(buffer, f)
  BY <1>1 DEF FrameArrives
<1>4. Told' = Told
  BY <1>3 DEF Told
<1>5. FramesTyped' /\ ArrivedSound'
  <2> HIDE DEF f
  <2> QED BY <1>1, <1>2 DEF ExchangeInv, FramesTyped, ArrivedSound, hostVars
<1>6. ViewSound'
  <2> HIDE DEF f
  <2>1. /\ buffer \in Seq(Sendable) /\ got \in Seq(ReplyItems)
        /\ Len(arrived') = Len(arrived) + 1 /\ arrived'[Len(arrived) + 1] = f
        /\ \A i \in 1..Len(arrived) : arrived'[i] = arrived[i]
    BY <1>1, <1>2 DEF ExchangeInv, ViewSound
  <2>2. \A i \in 1..Len(got) : got[i] = arrived'[i]
    BY <1>1, <2>1 DEF ExchangeInv, ViewSound
  <2>3. \A i \in 1..Len(buffer) : buffer[i] = arrived'[Len(got) + i]
    <3> SUFFICES ASSUME NEW i \in 1..Len(buffer) PROVE buffer[i] = arrived'[Len(got) + i]
      OBVIOUS
    <3>1. Len(got) + i \in 1..Len(arrived)
      BY <1>1, <2>1 DEF ExchangeInv, ViewSound
    <3> QED BY <2>1, <3>1 DEF ExchangeInv, ViewSound
  <2>4. CASE stopped
    <3>1. Len(got) + Len(buffer) <= Len(arrived')
      BY <1>1, <2>1 DEF ExchangeInv, ViewSound
    <3> QED BY <1>3, <2>1, <2>2, <2>3, <2>4, <3>1 DEF ExchangeInv, ViewSound
  <2>5. CASE ~stopped
    <3>1. /\ buffer' \in Seq(Sendable) /\ Len(buffer') = Len(buffer) + 1 /\ buffer'[Len(buffer) + 1] = f
          /\ \A i \in 1..Len(buffer) : buffer'[i] = buffer[i]
      BY <1>2, <1>3, <2>1, <2>5
    <3>2. Len(got) + Len(buffer) = Len(arrived) /\ Len(got) \in Nat /\ Len(buffer) \in Nat
      BY <2>1, <2>5 DEF ExchangeInv, ViewSound
    <3>3. Len(got) + Len(buffer') = Len(arrived')
      BY <2>1, <3>1, <3>2
    <3>4. \A i \in 1..Len(buffer') : buffer'[i] = arrived'[Len(got) + i]
      <4> SUFFICES ASSUME NEW i \in 1..Len(buffer') PROVE buffer'[i] = arrived'[Len(got) + i]
        OBVIOUS
      <4>1. i \in 1..Len(buffer) \/ i = Len(buffer) + 1
        BY <3>1, <3>2
      <4>2. CASE i \in 1..Len(buffer)
        BY <2>3, <3>1, <4>2
      <4>3. CASE i = Len(buffer) + 1
        BY <2>1, <3>1, <3>2, <4>3
      <4> QED BY <4>1, <4>2, <4>3
    <3> QED BY <1>3, <2>1, <2>2, <2>5, <3>1, <3>3, <3>4 DEF ExchangeInv, ViewSound
  <2> QED BY <2>4, <2>5
<1>7. [Contract!ContractNext]_(Contract!contractVars)
  <2> HIDE DEF f
  <2>1. /\ Ends(arrived) # {} => Content(arrived') = Content(arrived) /\ Verdict(arrived') = Verdict(arrived)
        /\ Ends(arrived) = {} => Content(arrived) = arrived /\ Verdict(arrived) = "open"
        /\ Ends(arrived) = {} /\ f \in ReplyItems => Content(arrived') = Append(arrived, f) /\ Verdict(arrived') = "open"
        /\ Ends(arrived) = {} /\ f \notin ReplyItems =>
              Content(arrived') = arrived /\ Verdict(arrived') \in {"failed", "complete"}
    BY <1>1, <1>2, ContentGrows
  <2>2. CASE Ends(arrived) # {}
    BY <1>3, <1>4, <2>1, <2>2 DEF Contract!contractVars
  <2>3. CASE Ends(arrived) = {} /\ f \in ReplyItems
    BY <1>3, <1>4, <2>1, <2>3 DEF Contract!ContractNext, Contract!Produce
  <2>4. CASE Ends(arrived) = {} /\ f \notin ReplyItems
    BY <1>3, <1>4, <2>1, <2>4 DEF Contract!ContractNext, Contract!Conclude
  <2> QED BY <2>2, <2>3, <2>4
<1> QED BY <1>5, <1>6, <1>7 DEF Kept, ExchangeInv

\* The host goes on, a frame or a reply is lost, the consumer replies: the caller
\* sees nothing of it.
LEMMA UnseenKeeps ==
  ASSUME ExchangeInv, Host \/ Lose \/ ReplyToQuery \/ ReplyArrives \/ UNCHANGED exchangeVars
  PROVE  Kept
<1>1. UNCHANGED <<at, outcome, stopped, buffer, got, arrived>>
  BY DEF Host, Lose, ReplyToQuery, ReplyArrives, streamVars, netVars, exchangeVars
<1>2. FramesTyped' /\ Len(frames') >= Len(frames) /\ delivered' \in 0..Len(frames')
  <2>1. delivered \in 0..Len(frames) /\ Len(frames) \in Nat
    BY DEF ExchangeInv, ArrivedSound, FramesTyped
  <2>2. CASE Host
    <3>1. FramesTyped' /\ Len(frames') >= Len(frames) /\ delivered' = delivered
      BY <2>2, HostSends DEF Host, ExchangeInv, netVars
    <3>2. Len(frames') \in Nat
      BY <3>1 DEF FramesTyped
    <3> QED BY <2>1, <3>1, <3>2
  <2>3. CASE Lose \/ ReplyToQuery \/ UNCHANGED exchangeVars
    <3>1. UNCHANGED hostVars /\ delivered' \in 0..Len(frames)
      BY <2>1, <2>3 DEF Lose, ReplyToQuery, exchangeVars, netVars
    <3> QED BY <2>1, <3>1 DEF ExchangeInv, FramesTyped, hostVars
  <2>4. ASSUME NEW q \in replies, Reply(q) \/ UNCHANGED hostVars, delivered' = delivered
        PROVE  FramesTyped' /\ Len(frames') >= Len(frames) /\ delivered' \in 0..Len(frames')
    <3>1. UNCHANGED <<frames, sent, asked, asking>>
      BY <2>4 DEF Reply, hostVars
    <3> QED BY <2>1, <2>4, <3>1 DEF ExchangeInv, FramesTyped
  <2>5. CASE ReplyArrives
    BY <2>4, <2>5 DEF ReplyArrives
  <2> QED BY <2>2, <2>3, <2>5
<1>3. ArrivedSound' /\ ViewSound'
  BY <1>1, <1>2 DEF ExchangeInv, ArrivedSound, ViewSound
<1>4. GivenUp
  BY <1>1 DEF GivenUp
<1> QED BY <1>2, <1>3, <1>4, GivenUpKeeps DEF Kept, ExchangeInv

LEMMA ExchangeStarts ==
  ASSUME ExchangeInit
  PROVE  ExchangeInv
<1>1. frames = <<>> /\ arrived = <<>> /\ buffer = <<>> /\ got = <<>> /\ Len(<<>>) = 0
  BY DEF ExchangeInit, HostInit, StreamInit
<1> QED BY <1>1, DispatchBoundsAssumption
       DEF ExchangeInit, HostInit, StreamInit, ExchangeInv, FramesTyped, ArrivedSound, ViewSound

\* Whatever the interceptors, the network, the timers and the caller do, the caller
\* sees what arrived of the host's reply in order, is told "done" only of a
\* complete reply of which it has seen all that arrived, and hears of an error only
\* if one arrived: every step of the exchange is one of ReplyContract or none
\* (service.ts: dispatchPrompt; prompt-stream.ts).
THEOREM KeepsReply == ExchangeSpec => KeepsReplyContract
<1>1. ExchangeInit => ExchangeInv /\ Contract!ContractInit
  <2> SUFFICES ASSUME ExchangeInit PROVE ExchangeInv /\ Contract!ContractInit
    OBVIOUS
  <2>1. arrived = <<>> /\ got = <<>> /\ Len(<<>>) = 0
    BY DEF ExchangeInit, StreamInit
  <2>2. ExchangeInv
    BY ExchangeStarts
  <2>3. Ends(arrived) = {}
    BY <2>1 DEF Ends
  <2>4. Content(arrived) = <<>> /\ Verdict(arrived) = "open" /\ Told = "nothing"
    BY <2>1, <2>3 DEF Content, Verdict, Told, ExchangeInit, StreamInit
  <2> QED BY <2>1, <2>2, <2>4 DEF Contract!ContractInit
<1>2. ExchangeInv /\ [ExchangeNext]_exchangeVars => Kept
  BY CallerKeeps, DeliverKeeps, UnseenKeeps DEF ExchangeNext
<1> QED BY <1>1, <1>2, PTL DEF ExchangeSpec, KeepsReplyContract, Contract!ContractSpec, Kept

-----------------------------------------------------------------------------
(***************************************************************************)
(* The exchange on a clock.  While the handler of a living connection      *)
(* works, its keep-alive timer is armed; and the caller's timer, once the  *)
(* leading ack was seen, is never ahead of it while nothing is on its way. *)
(***************************************************************************)
Covered ==
  /\ phase \in {"idle", "admitting"} => chain = "idle" /\ handler = "notStarted"
  /\ chain = "running" => phase = "serving"
  /\ timer \/ asking # "no" => handler # "notStarted"
  /\ phase # "ended" /\ handler = "notStarted" => frames = <<>>
  /\ phase = "serving" /\ handler = "running" /\ connected /\ KeepAlive => timer
  /\ timer => published

\* Nothing is on its way to the consumer.
Quiescent == delivered = Len(frames) /\ buffer = <<>> /\ ~stopped

ClockSound ==
  /\ quiet \in Nat /\ sinceAck \in Nat
  /\ timer => sinceAck <= KeepAliveTicks
  /\ timer /\ at = "reading" /\ got # <<>> =>
       /\ quiet <= KeepAliveTicks
       /\ Quiescent => quiet <= sinceAck

NothingFirst == frames = <<>> => arrived = <<>> /\ buffer = <<>> /\ got = <<>>

TimedInv == ExchangeInv /\ Covered /\ NothingFirst /\ ClockSound

LEMMA EmitGrows ==
  ASSUME frames \in Seq(Sendable), NEW fs \in Seq(Sendable), fs # <<>>, Emit(fs)
  PROVE  /\ ~connected => frames' = frames
         /\ connected => Len(frames') > Len(frames)
         /\ frames' = <<>> => frames = <<>>
<1>1. CASE connected
  BY <1>1 DEF Emit
<1>2. CASE ~connected
  BY <1>2 DEF Emit
<1> QED BY <1>1, <1>2

\* What the host does keeps its handler covered.
LEMMA HostCovers ==
  ASSUME Covered, published, published', HostTask \/ KeepAliveTick
  PROVE  Covered'
<1> USE DEF handlerVars, Covered
<1>1. CASE Malformed \/ Receive \/ NotAdmitted \/ Admitted \/ Dispatched
  BY <1>1 DEF Malformed, Receive, NotAdmitted, Admitted, Dispatched
<1>2. CASE ChainStep
  BY <1>2 DEF ChainStep, CallNext, ChainSettles, MayCallNext
<1>3. CASE SendChunk \/ CallerListening \/ AskSubscribe \/ AskPublish
  BY <1>3 DEF SendChunk, CallerListening, AskSubscribe, AskPublish, Idle
<1>4. CASE AskAnswered \/ AskFails \/ (\E how \in {"done", "failed"} : HandlerEnds(how)) \/ Disconnect
  BY <1>4 DEF AskAnswered, AskFails, HandlerEnds, Idle, Disconnect
<1>5. CASE KeepAliveTick
  BY <1>5 DEF KeepAliveTick
<1> QED BY <1>1, <1>2, <1>3, <1>4, <1>5 DEF HostTask, DispatchStep, HandlerStep

LEMMA ReplyCovers ==
  ASSUME Covered, published' = published, (\E q \in replies : Reply(q)) \/ UNCHANGED hostVars
  PROVE  Covered'
BY DEF Covered, Reply, hostVars

\* A step on the clock is one of the exchange, or only the clock's.
LEMMA TimedIsExchange ==
  ASSUME Covered, TimedNext \/ UNCHANGED timedVars
  PROVE  ExchangeNext \/ UNCHANGED exchangeVars
<1>1. CASE Task
  BY <1>1 DEF Task, ExchangeNext, Host, HostNext, Caller, StreamNext
<1>2. CASE KeepAliveFires
  <2>1. published
    BY <1>2 DEF KeepAliveFires, KeepAliveTick, Covered
  <2> QED BY <1>2, <2>1 DEF KeepAliveFires, ExchangeNext, Host, HostNext
<1>3. CASE StallFires
  BY <1>3 DEF StallFires, ExchangeNext, Caller, StreamNext
<1>4. CASE ClockTicks \/ UNCHANGED timedVars
  BY <1>4 DEF ClockTicks, timedVars
<1> QED BY <1>1, <1>2, <1>3, <1>4 DEF TimedNext

LEMMA ExchangeInvKept ==
  ASSUME ExchangeInv, ExchangeNext \/ UNCHANGED exchangeVars
  PROVE  ExchangeInv'
BY CallerKeeps, DeliverKeeps, UnseenKeeps DEF ExchangeNext, Kept

LEMMA CoveredKept ==
  ASSUME Covered, TimedNext \/ UNCHANGED timedVars
  PROVE  Covered'
<1>1. ASSUME UNCHANGED hostVars, published' = published \/ published' PROVE Covered'
  BY <1>1 DEF Covered, hostVars
<1>2. ASSUME StreamTask \/ Stall PROVE published' = published \/ published'
  BY <1>2 DEF StreamTask, Stall, StreamProgress, Publish, Requested, Take, Exhausted, Resume, Iterate,
              PrepareFails, TransportFails, Break, Cancel, Abort, MaxWait
<1>3. CASE Task
  <2>1. CASE published /\ HostTask /\ UNCHANGED <<streamVars, netVars>>
    BY <2>1, HostCovers DEF streamVars
  <2>2. CASE StreamTask /\ UNCHANGED <<hostVars, netVars>>
    BY <1>1, <1>2, <2>2
  <2>3. CASE Deliver \/ ReplyToQuery
    BY <1>1, <2>3 DEF Deliver, FrameArrives, ReplyToQuery, streamVars
  <2>4. CASE ReplyArrives
    BY <2>4, ReplyCovers DEF ReplyArrives, streamVars
  <2> QED BY <1>3, <2>1, <2>2, <2>3, <2>4 DEF Task
<1>4. CASE KeepAliveFires
  BY <1>4, HostCovers DEF KeepAliveFires, KeepAliveTick, Covered, streamVars
<1>5. CASE StallFires
  BY <1>1, <1>2, <1>5 DEF StallFires
<1>6. CASE ClockTicks \/ UNCHANGED timedVars
  BY <1>1, <1>6 DEF ClockTicks, timedVars, exchangeVars, streamVars
<1> QED BY <1>3, <1>4, <1>5, <1>6 DEF TimedNext

LEMMA NothingFirstKept ==
  ASSUME ExchangeInv, ExchangeInv', NothingFirst, ExchangeNext \/ UNCHANGED exchangeVars
  PROVE  NothingFirst'
<1>1. /\ frames \in Seq(Sendable) /\ frames' \in Seq(Sendable) /\ delivered \in 0..Len(frames)
      /\ buffer \in Seq(Sendable)
  BY DEF ExchangeInv, FramesTyped, ArrivedSound, ViewSound
<1>2. CASE Host
  <2>1. Len(frames') >= Len(frames) /\ UNCHANGED <<arrived, buffer, got>>
    BY <1>2, HostSends DEF ExchangeInv, Host, streamVars, netVars
  <2>2. frames' = <<>> => frames = <<>>
    BY <1>1, <2>1
  <2> QED BY <2>1, <2>2 DEF NothingFirst
<1>3. CASE Caller
  <2>1. UNCHANGED <<frames, arrived>>
    BY <1>3 DEF Caller, hostVars, netVars
  <2>2. arrived' = <<>> => buffer' = <<>> /\ got' = <<>>
    <3>1. /\ buffer' \in Seq(Sendable) /\ got' \in Seq(ReplyItems) /\ arrived' \in Seq(Sendable)
          /\ Len(got') + Len(buffer') <= Len(arrived')
      BY DEF ExchangeInv, ViewSound, ArrivedSound
    <3> QED BY <3>1
  <2> QED BY <2>1, <2>2 DEF NothingFirst
<1>4. CASE Deliver
  <2>1. delivered < Len(frames) /\ frames' = frames
    BY <1>4 DEF Deliver, hostVars
  <2>2. frames # <<>>
    BY <1>1, <2>1
  <2> QED BY <2>1, <2>2 DEF NothingFirst
<1>5. CASE Lose \/ ReplyToQuery \/ ReplyArrives \/ UNCHANGED exchangeVars
  BY <1>5 DEF Lose, ReplyToQuery, ReplyArrives, Reply, NothingFirst, exchangeVars, streamVars, hostVars, netVars
<1> QED BY <1>2, <1>3, <1>4, <1>5 DEF ExchangeNext

LEMMA TaskKeepsClock ==
  ASSUME TicksAssumption, TimedInv, ExchangeInv', Covered', NothingFirst', Task
  PROVE  ClockSound'
<1>1. /\ frames \in Seq(Sendable) /\ frames' \in Seq(Sendable)
      /\ delivered \in 0..Len(frames) /\ delivered' \in 0..Len(frames')
      /\ buffer \in Seq(Sendable) /\ buffer' \in Seq(Sendable)
  BY DEF TimedInv, ExchangeInv, FramesTyped, ArrivedSound, ViewSound
<1>2. quiet' \in Nat /\ sinceAck' \in Nat /\ (timer' => sinceAck' <= KeepAliveTicks)
  BY DEF TicksAssumption, Task, Rearm, TimedInv, ClockSound
<1>3. CASE published /\ HostTask /\ UNCHANGED <<streamVars, netVars>>
  <2>1. UNCHANGED <<at, got, buffer, stopped, delivered>> /\ quiet' = quiet /\ (timer => sinceAck' = sinceAck)
    BY <1>3 DEF streamVars, netVars, Task, Rearm
  <2>2. Len(frames') >= Len(frames)
    BY <1>3, HostSends DEF HostNext, TimedInv, ExchangeInv
  <2>3. Quiescent' => Quiescent
    BY <1>1, <2>1, <2>2 DEF Quiescent
  <2>4. timer' /\ ~timer => frames = <<>>
    BY <1>3 DEF HostTask, DispatchStep, Malformed, Receive, NotAdmitted, Admitted, Dispatched, ChainStep,
         CallNext, ChainSettles, MayCallNext, HandlerStep, SendChunk, CallerListening, AskSubscribe, AskPublish, AskAnswered,
         AskFails, HandlerEnds, Disconnect, TimedInv, Covered
  <2>5. CASE timer
    BY <1>2, <2>1, <2>3, <2>5 DEF TimedInv, ClockSound
  <2>6. CASE timer' /\ ~timer
    BY <1>2, <2>1, <2>4, <2>6 DEF TimedInv, NothingFirst, ClockSound
  <2> QED BY <1>2, <2>5, <2>6 DEF ClockSound
<1>4. CASE StreamTask /\ UNCHANGED <<hostVars, netVars>>
  <2>1. UNCHANGED <<timer, frames, delivered>> /\ sinceAck' = sinceAck
    BY <1>4 DEF hostVars, netVars, Task, Rearm
  <2>2. at' = "reading" /\ at # "reading" => quiet' = 0
    BY DEF Task, Rearm
  <2>3. at' = "reading" /\ at = "reading" => got' = got /\ ~Quiescent' /\ quiet' = quiet
    BY <1>4 DEF StreamTask, StreamProgress, Publish, Requested, Take, Yield, Finish, Exhausted, Resume, Iterate, PrepareFails,
         TransportFails, Break, Cancel, Abort, MaxWait, StopIterator, Iterating, Quiescent, Task, Rearm
  <2>4. CASE at' = "reading" /\ at # "reading"
    BY <1>2, <2>2, <2>4 DEF TicksAssumption, ClockSound
  <2>5. CASE at' = "reading" /\ at = "reading"
    BY <1>2, <2>1, <2>3, <2>5 DEF TimedInv, ClockSound
  <2> QED BY <1>2, <2>4, <2>5 DEF ClockSound
<1>5. CASE Deliver
  <2>1. UNCHANGED <<at, got, stopped, timer>> /\ quiet' = quiet /\ sinceAck' = sinceAck
    BY <1>5 DEF Deliver, FrameArrives, hostVars, Task, Rearm
  <2>2. ~Quiescent'
    <3>1. CASE stopped
      BY <2>1, <3>1 DEF Quiescent
    <3>2. CASE ~stopped
      <4>1. buffer' = Append(buffer, frames[delivered + 1])
        BY <1>5, <3>2 DEF Deliver, FrameArrives
      <4>2. buffer' # <<>>
        BY <1>1, <4>1
      <4> QED BY <4>2 DEF Quiescent
    <3> QED BY <3>1, <3>2
  <2> QED BY <1>2, <2>1, <2>2 DEF TimedInv, ClockSound
<1>6. CASE ReplyToQuery \/ ReplyArrives
  <2>1. UNCHANGED <<at, got, stopped, buffer, frames, delivered, timer>> /\ quiet' = quiet /\ sinceAck' = sinceAck
    BY <1>6 DEF ReplyToQuery, ReplyArrives, Reply, streamVars, hostVars, Task, Rearm
  <2> QED BY <1>2, <2>1 DEF TimedInv, ClockSound, Quiescent
<1> QED BY <1>3, <1>4, <1>5, <1>6 DEF Task

LEMMA TimersKeepClock ==
  ASSUME TicksAssumption, TimedInv, ExchangeInv', KeepAliveFires \/ StallFires \/ ClockTicks \/ UNCHANGED timedVars
  PROVE  ClockSound'
<1>1. /\ frames \in Seq(Sendable) /\ frames' \in Seq(Sendable)
      /\ delivered \in 0..Len(frames) /\ KeepAliveTicks \in Nat /\ 0 <= KeepAliveTicks
  BY DEF TicksAssumption, TimedInv, ExchangeInv, FramesTyped, ArrivedSound
<1>2. CASE KeepAliveFires
  <2>1. UNCHANGED <<at, got, quiet, delivered>> /\ timer /\ sinceAck' = 0 /\ timer' = connected /\ Emit(<<Ack>>)
    BY <1>2 DEF KeepAliveFires, KeepAliveTick, streamVars, netVars
  <2>2. CASE connected
    <3>1. <<Ack>> \in Seq(Sendable) /\ <<Ack>> # <<>>
      BY DEF Sendable, ReplyItems
    <3>2. Len(frames') > Len(frames)
      BY <1>1, <2>1, <2>2, <3>1, EmitGrows
    <3>3. ~Quiescent'
      BY <1>1, <2>1, <3>2 DEF Quiescent
    <3> QED BY <1>1, <2>1, <3>3 DEF TimedInv, ClockSound
  <2>3. CASE ~connected
    BY <2>1, <2>3 DEF TimedInv, ClockSound, KeepAliveFires, KeepAliveTick
  <2> QED BY <2>2, <2>3
<1>3. CASE StallFires
  BY <1>3 DEF StallFires, Stall, Finish, hostVars, TimedInv, ClockSound
<1>4. CASE ClockTicks
  <2>1. UNCHANGED <<at, got, stopped, buffer, frames, delivered, timer>>
    BY <1>4 DEF ClockTicks, exchangeVars, hostVars, streamVars, netVars
  <2>2. at = "reading" => Quiescent
    BY <1>4 DEF ClockTicks, Quiescent
  <2>3. quiet' \in Nat /\ sinceAck' \in Nat /\ (timer => sinceAck' = sinceAck + 1 /\ sinceAck' <= KeepAliveTicks)
        /\ (at = "reading" => quiet' = quiet + 1)
    BY <1>1, <1>4 DEF ClockTicks, TimedInv, ClockSound
  <2>4. timer /\ at = "reading" /\ got # <<>> => quiet' <= sinceAck' /\ quiet' <= KeepAliveTicks
    BY <1>1, <2>2, <2>3 DEF TimedInv, ClockSound
  <2> QED BY <2>1, <2>3, <2>4 DEF ClockSound
<1>5. CASE UNCHANGED timedVars
  BY <1>5 DEF timedVars, exchangeVars, hostVars, streamVars, netVars, TimedInv, ClockSound, Quiescent
<1> QED BY <1>2, <1>3, <1>4, <1>5

LEMMA TimedInvKept ==
  ASSUME TicksAssumption
  PROVE  TimedInv /\ [TimedNext]_timedVars => TimedInv'
<1> SUFFICES ASSUME TimedInv, TimedNext \/ UNCHANGED timedVars PROVE TimedInv'
  OBVIOUS
<1>1. ExchangeNext \/ UNCHANGED exchangeVars
  BY TimedIsExchange DEF TimedInv
<1>2. ExchangeInv'
  BY <1>1, ExchangeInvKept DEF TimedInv
<1>3. Covered'
  BY CoveredKept DEF TimedInv
<1>4. NothingFirst'
  BY <1>1, <1>2, NothingFirstKept DEF TimedInv
<1>5. ClockSound'
  BY <1>2, <1>3, <1>4, TaskKeepsClock, TimersKeepClock DEF TimedNext
<1> QED BY <1>2, <1>3, <1>4, <1>5 DEF TimedInv

\* For any two intervals of which the keep-alive's is the shorter, and whatever
\* the interceptors do: once the leading ack was seen, the caller's inactivity
\* timer does not fire while dispatchPrompt waits for the handler of a living
\* connection (service.ts: ackAndKeepAlive; inactivity.ts).
THEOREM NeverStalls ==
  ASSUME TicksAssumption
  PROVE  TimedSpec => SlowHandlerNeverStalls
<1>1. TimedInit => TimedInv
  <2> SUFFICES ASSUME TimedInit PROVE TimedInv
    OBVIOUS
  <2>1. ExchangeInv
    BY ExchangeStarts DEF TimedInit
  <2>2. Covered /\ NothingFirst
    BY DEF TimedInit, ExchangeInit, HostInit, StreamInit, Covered, NothingFirst
  <2>3. ClockSound
    BY DEF TicksAssumption, TimedInit, ExchangeInit, StreamInit, HostInit, ClockSound
  <2> QED BY <2>1, <2>2, <2>3 DEF TimedInv
<1>2. TimedInv /\ [TimedNext]_timedVars =>
        [outcome = "none" /\ outcome' = "stalled" /\ got # <<>> /\ connected /\ KeepAlive
           => ~(phase = "serving" /\ handler = "running")]_timedVars
  <2> SUFFICES ASSUME TimedInv, TimedNext, outcome = "none", outcome' = "stalled", got # <<>>, connected, KeepAlive,
                      phase = "serving", handler = "running"
               PROVE  FALSE
    OBVIOUS
  <2>1. timer
    BY DEF TimedInv, Covered
  <2>2. CASE StallFires
    <3>1. at = "reading" /\ quiet = InactivityTicks
      BY <2>2 DEF StallFires, Stall
    <3>2. quiet <= KeepAliveTicks /\ quiet \in Nat
      BY <2>1, <3>1 DEF TimedInv, ClockSound
    <3> QED BY <3>1, <3>2 DEF TicksAssumption
  <2>3. CASE Task
    <3>1. CASE StreamTask
      BY <3>1 DEF StreamTask, StreamProgress, Publish, Requested, Refused, Take, Yield, Finish, Exhausted, Drained, Resume,
           Iterate, PrepareFails, TransportFails, Break, Cancel, Abort, MaxWait
    <3>2. CASE UNCHANGED outcome
      BY <3>2
    <3> QED BY <2>3, <3>1, <3>2 DEF Task, streamVars, Deliver, FrameArrives, ReplyToQuery, ReplyArrives
  <2>4. CASE KeepAliveFires \/ ClockTicks
    BY <2>4 DEF KeepAliveFires, ClockTicks, exchangeVars, streamVars
  <2> QED BY <2>2, <2>3, <2>4 DEF TimedNext
<1> QED BY <1>1, <1>2, TimedInvKept, PTL DEF TimedSpec, SlowHandlerNeverStalls
=============================================================================
