# Synadia Agents: a TLA+ verification project

This directory is a formal model of the program in `src/` (the Synadia Agent SDKs, their
agent plugins and examples), the properties that make it correct, and what has been
checked and proved about them. Paths below are relative to the repository.

- **TLA+ modules** model components; a definition's comment names the code it stands for, and
  `PROJECT.json` ("map") gives the source lines of every definition.
- **TLC** explores small instances exhaustively (the `.cfg` files; module `MC*`).
- **TLAPS** proves theorems for every value of the constants (modules `*Proofs`).

## 1. The system

Agents register as NATS micro services and serve *prompts*; callers discover them, prompt
them and read a *stream* of chunks; an agent may *ask* the caller a question in the middle of
a stream. The repository holds, in TypeScript and Python, the caller's SDK (`client-sdk/`) and
the host's SDK (`agent-sdk/`), plugins that put existing coding agents on NATS (`agents/`),
examples and release tooling.

| Component | State it keeps | Operations | Hard behaviour | What makes it correct |
| --- | --- | --- | --- | --- |
| **Agent tools** (`client-sdk/typescript/src/tools/agent-tools.ts`) | per scope: the calls it tracks and the admitted ones; per call: state, open questions, the one being taken in, text, files, waiters | `prompt_agent`, `wait_agent`, `answer_agent`, `cancel_agent`, `list_agent_calls`, `discover_agents`, `runInPromptScope`, `close`, the reader task | every operation is a task with awaits; a call can be cancelled, expire, fail or complete at each; scopes close under running tool calls; answers fail | the limit holds, one final state per call, no question left waiting, no call outlives its prompt, no waiter sleeps for ever |
| **Prompt stream** (`stream/prompt-stream.ts`, `inactivity.ts`) | iterated/cancelled flags, the request iterator | iterate, `cancel`, abort | cancel and abort race the awaits that prepare and publish; stall, max wait and terminator race | ends once, with the right outcome; nothing published after cancel; the subscription is always dropped |
| **Query events** (`query/query-event.ts`) | the replied flag | `reply` | the publish may fail after the flag is set | one reply |
| **Agent, Agents** (`agent.ts`, `agents.ts`) | active streams, known agents, heartbeat watch | `prompt`, `status`, `discover`, `watch`, `close` | close under running streams and discoveries | nothing runs after close |
| **Identity** (`identity/*`) | self-id memo, resolver caches | `selfId`, resolve sender, sign | reconnects and invalidations while a lookup is in flight | no stale identity is used |
| **Heartbeat tracker** (`heartbeat/tracker.ts`) | per instance: the last beat | beats, `liveness` | lost and late beats, several instances per agent, deaths nobody reports | a live instance is online, a dead one is not for long |
| **Agent service** (`agent-sdk/typescript/src/service.ts`) | running/stopped, ack and heartbeat timers, pending questions | `start`, `stop`, dispatch, `ask`, `send` | handlers run concurrently with timers; interceptors may misuse `next()`; stop under start | the stream is ack, chunks, terminator, and nothing after it |
| **Sender gate, nonce cache** (`identity/classify.ts`) | nonces seen, in second buckets | classify, record, evict | replays at the window's edges; the cap | a nonce is admitted once before its window ends |
| **Python SDKs** (`client-sdk/python`, `agent-sdk/python`) | the same, on asyncio with task cancellation | the same | `CancelledError` at every await | the same |
| **PI channel** (`agents/pi/extensions`) | queue of prompts, the active one, the open local turn, a retry timer | enqueue, drain, requeue, expire, PI's events, cleanup | PI is idle before the channel hears of it, takes injections later or refuses them silently, and its user types at any time | prompts are handed over in order, outside local turns, and every one is settled, by its own run |
| **Extension point** (`extensions.ts` of PI, OpenClaw, Claude Code) | the loaded extensions | load, `started`, `stopping`, wrap a step | a wrapper calls its step twice, late or never, throws, hangs | the step runs once, and the plugin gets what it did |
| **Claude Code channel** (`agents/claude-code`) | served prompts, the ledger of turns, hook files | deliver, poll, bind, settle | hooks run in processes of their own and are read late; the user types and presses Esc | a request gets its own turn's end, and is told when none comes |
| **ACP, OpenCode, Codex channels** | the turns of one agent process; Codex: the services of its threads | prompt, text, end, permission; reconcile | prompts overlap; the process exits; inventories are old when they arrive | a caller gets its own turn; a thread its one service |
| **OpenClaw channel** (`gateway.ts`) | module variables of the running account | start, stop, abort | starts and stops overlap at awaits; closes fail | nothing is left behind, and every start ends |
| **Headless hosts** (`examples/*-headless`) | sessions, their queues of prompts | spawn, stop, drain, dispose, expire | disposal in the middle of staging and turns | one turn at a time; every prompt settled |
| **Web UI server** (`examples/agent-web-ui/server/bridge.ts`) | agents, subscriptions, prompts, questions | discover, look up, evict, prompt, close | answers to discover and lookups cross with heartbeats | the browser is shown what is there |
| **Other plugins, examples, devtools** | | | | |

How they interact: `Agents` makes an `Agent` per discovered endpoint; `agent.prompt()` plans
its sender header with the **identity context** and gives a **prompt stream**; iterating it
publishes the request, which an **agent service** on another host gates, acks, runs through
its interceptors and hands to its handler. Chunks, questions and keep-alive acks travel back on
one reply subject, answers to questions on another. **Agent tools** drive prompt streams in the
background on behalf of a model. A **plugin's** handler puts the request into a coding agent's
session. Heartbeats go from every service to every client's **tracker**.

`PROJECT.json` lists every component with its sources, and every hazard at its line.

## 2. Modules

A JavaScript process, and an asyncio loop, runs one task at a time: the code between two awaits
is one action, and at an await any task that can run may run next. That is the granularity of
every module here; actions carry the names of the functions they stand for. Operators commented
"Fault" are the mutations `PROJECT.json` lists, beside the definition they replace.

| Module | What it is |
| --- | --- |
| `CallContract` | abstract specification: what `docs/agent-tools.md` promises of a model's calls |
| `AgentTools` | the class `AgentTools`: tool calls (program counter `pc`), scopes, calls and their reader tasks; its refinement of `CallContract` |
| `AgentToolsProofs` | theorems: types and scopes; questions, waits, and the implementation of `CallContract` |
| `ReplyContract` | abstract specification of one reply: what the caller sees against what the host said |
| `PromptDispatch` | the host's side of one request: `#dispatchPrompt`, interceptors, handler, keep-alive, questions |
| `PromptStream` | the caller's side: the iteration, `cancel()`, abort, inactivity and max-wait timers |
| `PromptExchange` | both, with NATS between them; the refinement of `ReplyContract` |
| `PromptTiming` | the exchange on a clock with the keep-alive and the inactivity timer |
| `PyStream` | the caller's side in Python, over the one reply inbox of a connection; the refinement of `ReplyContract` |
| `PyService` | the prompt endpoint in Python: subscription task, slots, keep-alive tasks, `stop()` |
| `SenderGate` | the gate of a service and its nonce cache, in both languages |
| `SenderResolver` | who sent it: one cached enumeration shared by those that ask |
| `ServiceLifecycle` | `AgentService.start()`, `stop()` and the heartbeats between them |
| `HeartbeatLiveness` | hosts that beat, a network that loses and delays, a tracker that decides who is online |
| `SelfId`, `SelfIdProofs` | the memo of a connection's own agent ID, and the two plans of a prompt's sender header; theorem |
| `PiChannel`, `PiChannelProofs` | prompts from NATS and typed runs in one interactive PI session; theorems |
| `ExtensionPoint` | the contract of `extensions.ts`, which PI, OpenClaw and Claude Code hold copies of |
| `ClaudeTurns` | what the Claude Code server concludes from the hooks' records: `TurnTracker` and `TurnLedger`, as operators on a record |
| `ClaudeChannel` | Claude Code's own turns, the hooks' files, the polls and the prompts; EXTENDS `ClaudeTurns` |
| `ClaudeProofs` | theorems about both: the turns of a Claude Code session are kept apart and reported |
| `ChannelTurns` | overlapping prompts on one ACP, OpenCode or Codex process |
| `CodexSessions` | the Codex session manager and its poller |
| `OpenClawGateway` | starts, stops and the shared cleanup of an OpenClaw account |
| `HeadlessSessions` | the managers and sessions of the two headless hosts |
| `WebBridge` | the web UI's bridge between one browser and the agents |
| `MCAgentTools`, `MCSelfId`, `MCClaudeChannel` | constants and symmetry for TLC |
| `ServiceProofs` | theorems about `PromptDispatch`, `PromptExchange`, `PromptTiming`, `SenderGate`, `SenderResolver`, `HeartbeatLiveness` |
| `PythonProofs` | theorems about `PyService` and `PyStream` |
| `LivesProofs` | theorems about `ServiceLifecycle`, `OpenClawGateway`, `ExtensionPoint`, `HeadlessSessions` |
| `ChannelProofs` | theorems about `ChannelTurns`, `CodexSessions`, `WebBridge` |
| `MCService`, `MCPython`, `MCLives`, `MCChannels` | sums: several components in one run, see section 3 |

### How state corresponds to code

- **AgentTools.** `tracked`/`reserved` are `Scope.calls`/`Scope.reserved`; `state`, `queue`,
  `arriving`, `text`, `files` are the fields of `Call`; `local[t]` holds the local variables of
  a tool call that live across its awaits. `reply[c]` records what became of each question, which
  the code keeps in the `QueryEvent`s. Texts and files are counts; `returned` records what the
  model was given.
- **PromptDispatch.** `phase` follows `#dispatchPrompt`, `chain` the composed interceptors,
  `handler` the application's handler; `frames` is what was published on the reply subject;
  `timer` is the keep-alive. Interceptors and handler make any legal move.
- **PromptStream.** `at` is the await of the iterator; `buffer` the queue inside the request's
  iterator; `outcome` what the consumer is left with.
- **PyStream.** `inbox`, `starter` and `subs` are the mux's subscription and its lock; `routes` its
  dictionary; `at` the await of each generator, which its consumer may close there.
- **PyService.** A task is a record of where it awaits and whether a cancellation is pending;
  `tasks` is `_prompt_tasks` with its done-callback; `slots` the semaphore.
- **SenderGate.** `cache` is the nonces' expiries and the buckets that list them; `stage` is the
  await a classification is at (TypeScript awaits the digest; Python has no await, so its
  messages pass in one step). `header` is chosen at the start, with what is wrong with it.
- **SenderResolver.** `index`, `builtAt` and `gathering` are the class's fields; `listed` is
  what answers an enumeration now.
- **ServiceLifecycle.** The class's fields by name (`#service` is `service`, `#heartbeatTimer` is
  `timer`, ...); `starting`/`stopping` are program counters; `signing` the beats at the signer.
- **SelfId.** `memo` is the map of entries per identity source; lookups in flight are slots that
  remember the entry they settle into, also when a reconnect has dropped it.
- **HeartbeatLiveness.** `age` is the tracker's entries, as ages on one clock.
- **PiChannel.** `queue`, `active`, `state` are `#queued`, `#activeId`, and `#pending` with how
  each prompt was settled; `local` is `localTurns.open`; `pi`, `run`, `settled`, `injected` are PI.
- **ClaudeTurns.** The fields of the two classes are those of the record `S`. Times are positions
  in the order of the hooks' events; a poll is a recursive function of them (`PollAll`), the record
  of each time in its turn (`ReportAt`). In **ClaudeChannel** a real turn has a number that the server
  never sees: the properties compare it with what the server concluded from prompt ids.
- **ExtensionPoint.** One wrapped step of a chain of entries: who has called `run`, what the step
  did, what the wrapper returned, whose promise is observed.
- **CodexSessions.** `served` is `#running`, `baseline` and `exposed` the sets of private keys,
  `task` the calls of `reconcile()` at their awaits with the inventory each of them read. What a
  loop has left is a set of threads: both loops take them in the order of their keys, where the
  code's second loop takes them in the order they were first served in.
  `notice` is history: whether the threads changed, and the poller was triggered after that,
  since it last asked for an inventory.
- **ChannelTurns.** `line` is the turn lock and those that wait for it, `asks` the permission
  handler (or sink) of the moment. `news` is what the agent said and nobody has taken: ACP's queue
  of session updates, the events of OpenCode's plugin, Codex's notifications. `returned` is how
  OpenCode's `prompt()` call came back, which may end a turn before its events or after them.
- **OpenClawGateway.** `activeStart`, `gsvc`, `gtools`, `gnc`, `gext` are the module's variables;
  `phase` the await of each start; `bus`, `conn`, `wiped` the outside world; `heard` the sequence
  of hooks that the extensions of each start were called with.
- **HeadlessSessions.** `request[r].at` is where the handler of a prompt is; `session[s]` has the
  queue, the turn and `life`, which tells `dispose()`'s stages.
- **WebBridge.** `known`, `subs`, `beats`, `lookups` are the bridge's maps; `view` is what the browser has
  been sent.

## 3. Runs

| Run | Instance | What it checks |
| --- | --- | --- |
| `calls` | 3 concurrent tool calls, root scope, limit 2, 2 calls, the first asks twice | limit, reservations and closed scopes; where questions are and who was told; `FinalIsFinal` |
| `live` | 2 tool calls, root and a served scope, limit 1, one call with chunk and 2 questions, fair | the refinement of `CallContract`; blocked tool calls return, calls settle |
| `service` | a sum: 2 instances that beat at different rates with losses and delays; 3 messages on a gate with room for 1 nonce; one request with 2 calls of `next()`, 2 chunks, 2 questions; the same on the default clock; 2 callers of a resolver | `liveness()` verdicts; admission and replays; order and finality of the reply stream; no stall under keep-alive; the shared lookup |
| `exchange` | one request over a lossy network, interceptors that abandon their handler | the refinement of `ReplyContract`; abort and cancel; an answer reaches the caller |
| `python` | a sum: 3 prompts, 1 or 2 slots, 2 starts; 2 streams on one inbox, one failing flush | slots and tasks after `stop()`; `stop()` returns; the refinement of `ReplyContract`; the inbox |
| `lives` | a sum: 2 starts, 2 stops and 6 beats of a service; 2 starts of an account, one failing close; 2 extensions in each of 3 channels; 2 sessions with 2 prompts of either host; a bridge to 2 instances (an agent, a session), a discover, a prompt | no beat when stopped, beats in order and going on; nothing left behind, extensions that heard of a start hear of its end, once, aborted starts end; the step runs once; turns serial, prompts end; browser, subscriptions and map agree, what beats is known |
| `selfid` | a signer and an unsigned source, 1 prompt, 2 reconnects, 3 lookups, fair | memo and plans of the session heard of; single flight; failures do not stick |
| `claude` | 2 prompts, 3 prompt ids, 1 typed prompt, 1 tool call, 7 events | no request gets another's turn; the end of a turn, or its absence, is reported |
| `channels` | a sum: 3 prompts on ACP and OpenCode, 2 on Codex, turns that end by an event, a result, an error, an exit or a timeout; 2 threads, 2 starts of each service, one loss and one failure, a rescan; a PI session with 3 prompts, 2 typed runs, 2 throwing and 1 refused injection | one turn at a time, callers get their own, nobody is left waiting; services are registered once, stop after the grace only, and follow the threads; no trigger is forgotten; PI's turns do not overlap, order, who answers, and that prompts settle |
| `gate_replay` | 3 messages, 2 nonces | a violation: section 6 |
| `gate_boundary` | 2 copies of one message | a violation: section 6 |
| `opencode_idle` | 2 OpenCode prompts | a violation: section 6 |

**Sum runs.** `MCService`, `MCPython`, `MCLives` and `MCChannels` put components that share no
state into one run: a variable chosen at the start says which of them a behaviour is of, and the
others rest where they start. A sum EXTENDS its components, so its run checks their own
definitions. Nothing is gained or lost by that but a start of TLC; fairness of a
component is conditioned on its own behaviours or is of actions that are not enabled at rest.

**Why the bounds are enough to be interesting.** Limits are reached and exceeded by the number
of actors: three tool calls compete for two places, two messages for a cache of one, three
prompts for two slots; two lives of a service let a beat of the first meet the second; two
reconnects let a lookup outlive the entry that replaced its own; two extensions nest; two threads
and a start that fails let one call of `reconcile()` work on an inventory that is stale when it
gets to the second thread (two calls of it do not overlap there:
section 6). Prompts of Codex do not wait for each other, so two of them (`CodexPrompts`)
meet in every way; where there is a lock, the third is one that waits while it is passed on.
Intervals 2 and 3 with
a slack of 3 reach both ends of the tracker's window. The clock of the gate ends after the
first bucket has been swept with a nonce of the second in the cache. Each property has a mutant,
a plausible bug of the code, that the same run finds.

**Deadlock.** Runs with `CHECK_DEADLOCK FALSE` end because the system does: every tool call has
returned and every stream is drained, a request is answered, an application has made its last
call of `start()` or `stop()`, a session has shut down, the bounds on threads and prompts are
used up. In `selfid` reconnects never end, and deadlock is checked.

**Symmetry** is used for tool calls, requests, messages with good signatures and callers, only
in runs whose properties are invariants and action properties.

**Fairness.**
- AgentTools: a task whose await has settled runs (the event loop), a timeout fires, and the
  reader finishes work on files or questions it has in hand. The expiry of a stream is strongly
  fair: the runtime limit is an absolute timer that work in between does not reset. Nothing
  obliges a stream to end by itself.
- PromptExchange: `CallerFairSpec` gives fairness to the caller's own tasks only, so `CancelEnds`
  needs no network, no host and no timer. `HostFairness`, the hypothesis of
  `AnswerReachesCaller`, adds that the host's code runs, that the application's
  interceptors and handler return, and that what is not lost is delivered.
- PyService: tasks that can run do, and cancelled application code lets the cancellation through.
- ServiceLifecycle: starts, stops and intervals go on, and a signer answers (or throws).
- OpenClawGateway: bounded steps end; a service's start may hang for ever.
- HeadlessSessions: turns end, files are written, `setImmediate` fires.
- SelfId: lookups answer or fail, the status listener hears of a reconnect, requests are made,
  and a failure expires; answers are strongly fair (a service that always fails teaches nothing).
- PiChannel: timers fire, handlers resume, PI decides on what it was given and its runs end.
  Nobody has to type, and nothing has to expire.
- ChannelTurns: the agent ends its turns, and what it said is read; OpenCode's `prompt()` returns;
  an exit is noticed by the call that would begin a turn, and with ACP in mid-turn; Codex's
  deadline fires, the only thing that ends its turn when the process exits.
- CodexSessions: the poll fires, inventories, starts and stops return; threads do as they like.
- WebBridge: who is online beats; a lookup of who is online finds it again and again (strongly
  fair: a lookup may fail any number of times).

**Environment assumptions.** NATS delivers one publisher's messages on one subject in order and
at most once. Heartbeats: a tracker with a slack of 3 intervals tolerates two lost beats in a row
if none is late, or one if each may be late by less than an interval; `HeartbeatAssumption`
says so for each instance. Three losses in a row, or two and a delay, do make a live instance
flicker: that is what the slack means. PI reports the end of a run before the start of the next
and decides on an injection before the current run ends. Claude Code: Esc is pressed only after
the server has read that a tool call started (`EarlyEsc` lifts that), no Stop line is lost, log and
turn file are read together. In the `channels` run, ACP and
OpenCode prompts are not given up under way (`Leaving`), the events of an
OpenCode turn have come before the next turn of the session begins, while its result may come before
or after them (`LateEvents`, lifted in `opencode_idle`), Codex asks for no permission (`Asking`),
and rescans do not overlap the poll (`RescansOverlap`). A service's start
and stop do not overlap in `lives` (`Overlap`). Section 6 says what happens otherwise. Each is a
constant of the module.

## 4. Theorems

For every value of the constants that satisfies the modules' assumptions, without the bounds of
section 3. A hypothesis of a theorem is named with it; each is the negation of a departure that
section 6 tells of, and the behaviours that satisfy it are those the run explores. No property of
a run is inductive by itself but `OneTurnAtATime` and, with the types of its maps,
`BrowserSeesWhatIsThere`; the other invariants below were checked with TLC before they were proved.

**Agent tools.**
- `TypeCorrect`, `CapacityHolds`, `ReservationsHeld`, `ClosedScopesHaveNoOpenCall`, and together
  `ScopesAreSound` (`ScopeSound`), from
  `Inv == TypeInv /\ Reservations /\ Capacity /\ OpenCallsTracked /\ NoOpenCallInClosedScope`.
  `TypeInv` adds to the types that a call that has not started has no trace and which question is
  shown. `Reservations` says that a scope's counter is the number of tool calls between `reserve()`
  and the start or the refusal of their call: so it never becomes negative, and the limit checked
  at `reserve()` still holds when the call starts some awaits later. `OpenCallsTracked` lets the
  closing of a scope find every open call.
- `CallsAreSound` (`CallsSound`), `FinalStays` (`FinalIsFinal`), from
  `CallInv == Inv /\ Questions /\ Order /\ Waits /\ AwaitedMeansDelivered`. `Questions` accounts for
  every question of a call: being taken in, in the queue, held by the tool call that answers
  it, or answered, and in one place only. `Order` numbers the settled calls, `Waits` ties a sleeping
  `wait_agent` to the calls it watches.
- `ImplementsContract` (`KeepsContract`): every step of the helper is a step of `CallContract` or a
  stutter. Beside `CallInv` it needs where a call was asked from (`AtHome`) and that what is
  answered was asked (`Asked`).

**One request, and who is there** (`ServiceProofs`).
- `RepliesSound` (`ReplyStreamSound`; hypothesis `Abandons = FALSE`, interceptors that await
  `next()`): nothing follows the terminator, a refusal is alone. `DispatchInv` says how far each
  interceptor, the handler and the dispatch can be apart (`Nested`), which the terminator waits
  for. `HandlerRunsOnce` (`ServedOnce`, which no run checks) needs no hypothesis.
- `KeepsReply` (`KeepsReplyContract`), without hypothesis: every step of host, caller and network is a step of
  `ReplyContract` or a stutter. `ExchangeInv` says that what the consumer was given and what its
  iterator holds are, one after the other, what arrived from its start (`ViewSound`): a stopped
  iterator may lack the rest, never a frame in between. So the next frame taken is the next item of
  the reply or the one that ended it (`ContentAt`).
- `NeverStalls` (`SlowHandlerNeverStalls` of `PromptTiming`, for every pair of intervals and all bounds; the run
  checks one instance of it). `TimedInv` adds to `ExchangeInv` that a running handler of a living
  connection has its timer armed (`Covered`) and that, while nothing is on its way, the caller's
  timer is not ahead of it (`ClockSound`). From `TicksAssumption`, the keep-alive's interval is the
  shorter, which the module states as a definition: MCService evaluates it for its instance.
- `ReplaysRefused` (`ReplaysAreRefused`; `"typescript" \notin Reusing`, no sender of a
  TypeScript host signs another message with a nonce it has used, section 6): admitted once before
  `ts + Window`; at that very instant a copy passes (`gate_boundary`). `GateInv` relates the expiries, the buckets that list
  them (`Filed`), the cap (`Fits`) and the messages let pass (`WinsAreKept`, `WinsAreApart`).
- `LookupsSound` (`SharedLookupSound`): `ResolverInv` dates the gather under way and the index by
  what was true when it began.
- `AliveOnline`, `DeadOffline`, `Verdicts` (`VerdictsAreRight`): `BeatInv` relates the tracker's age to
  the beats lost. What it has seen of a live instance is no older than those, plus the one under
  way (`SeenUpToLost`, `SeenBeforeUnderWay`); of a dead one, it was sent before the death.

**Identity** (`SelfIdProofs`). `IdentitySound` (`IdentityIsSound`): `MemoInv` says which lookups may
write to the memo: one that is in flight belongs to the entry it settles into, and none is ahead
of the reconnect last heard of.

**Python** (`PythonProofs`).
- `TasksSound` (`TasksLeaveNothing`): `ServiceInv` conserves the slots over waiters that are woken,
  cancelled or both (`SlotsConserved`, `QueueSound`), so a cancelled waiter that was already
  woken gives its slot back.
- `InboxShared` (`InboxIsShared`), `ControlGoesFirst`, and `KeepsReply` (`KeepsPyContract`, the refinement
  of `ReplyContract`; there is a stream), from `StreamInv`: the mux (`MuxSound`) and, per stream, what
  its route, timers and buffer allow at each await (`StreamSound`).

**Lives** (`LivesProofs`).
- `LivesStayApart` (`LivesAreApart`), `SilentWhileStopped` (`NoBeatWhileStopped`); hypothesis
  `Overlap = FALSE`. `LifeInv` says which fields agree at which await and numbers the beats.
- `LittleIsLeftBehind` (`NothingLeftBehind`), `TheEndIsHeard` (`ExtensionsHearTheEnd`), without
  hypothesis. `GatewayInv` says that the module's variables name one start's things (`SlotsAgree`),
  what each stage of the one shared cleanup has already taken (`CleanedUp`), and for each start what
  it has made and still owns at its await (`OwnerSound`, `StartSound`). For the hooks it adds that a
  start whose extensions have heard `started()` and not yet `stopping()` is the one the gateway
  holds, with its service up and no cleanup under way (`StartSound`): so the next cleanup tells them.
- `ExtensionsStayHarmless` (`ExtensionsAreHarmless`), for chains of any length and wrappers that do
  anything: `ExtensionInv` says at which levels control can be (`StackSound`), what each level
  returned and whose promise it is (`ValuesSound`), and that the channel observes it (`Observed`).
- `TurnsStaySerial` without hypothesis; `SessionsStaySerial` (`SessionsAreSerial`) with
  `"pi" \notin Attaching`: PI's session does not ask again whether it is disposed of once
  attachments are written (section 6). `HeadlessInv` accounts for each prompt: in its session's
  queue, running, held at its staging, or owed an end by a disposal.

**Channels** (`PiChannelProofs`, `ChannelProofs`).
- `TurnsApart` (`OneTurnAtATime`), inductive itself. `PromptsServed` (`PromptsAreServed`): `ServedInv`
  says that prompts leave in the order they arrived in (`Line`) and, at each point of PI's run,
  whose it is (`Runs`).
- `TurnsStayApart` (`TurnsAreApart`; hypothesis `Considered`: `LateEvents = FALSE`,
  `Leaving \subseteq {"codex"}`, `"codex" \notin Asking`): who holds the turn lock is the head of the
  line; while it is in its turn, all news not yet read is of that turn, in whatever order the result and
  the events of the earlier ones came.
- `TriggersStayKept` (`TriggersAreKept`), without hypothesis: while the poller is told of a change
  it has not looked for, its inventory is not read yet, or `#pending` is set.
- `ServicesStayMatched` (`ServicesMatchThreads`) and `StoppedAfterGrace` (`GraceIsConsecutive`), both with
  `RescansOverlap = FALSE`. `CodexInv`: one call of `reconcile()` at a time (`OneCall`); at its await
  a call that starts a service found none for that thread, and one that stops services captured all
  that are registered (`ServicesSound`); threads that were there first are in the baseline before any is
  exposed (`Private`). For the grace, `GraceSound` adds that the misses counted are never more than
  the inventories missed in a row, as they will be once the call under way is through its loops.
- `BridgeTyped`, `ViewIsKnown` (`BrowserSeesWhatIsThere`).

**Claude Code** (`ClaudeProofs`; hypothesis `EarlyEsc = FALSE`, section 6).
- `TurnsStayKeptApart` (`TurnsKeptApart`) and `TurnsAreReported` (`TurnsReported`), for any numbers of
  requests, prompt ids, events, typed texts and tool calls, from one invariant, `Inv`. The server
  reads the hooks' records late and in bulk, and of the tool calls only the latest, so `Inv` cannot
  speak of now: it says that there is a time `h`, the horizon, up to which the server has read
  everything and after which nothing (`Horizon`), and a last prompt id `m` before it, such that
  what the server holds is right for that past (`Knows`).
- What is right for a past: the open turn of the tracker is none or goes by `m`, and all unread
  records have later ids or belong to it (`Position`); it may still take messages of its batch
  only if no record shows that the turn did anything else (`Turn`); requests are bound to an id of the
  turn they were taken into, those of the open turn to `m` (`Bindings`); the extensions were told of
  local turns in pairs (`Heard`); a request whose turn's end was read is not open (`Settled`). Until
  the first record is read, binding has not begun and the server guesses by the order of the
  Stops: `Unheard` says that every request then belongs to the first turn, which is why no guess is wrong.
- `World` is what the records themselves satisfy, whoever reads them: ids are given in the order of the
  turns (`Numbers`), the end of a turn is its last record (`Records`), the first record of an id of a
  served turn is a channel message's submit (`Openers`), each message has one submit, in its turn, and a
  Stop's text is of its turn (`Messages`).
- Three arguments carry it. One record moves the horizon to its time and keeps `Knows` (`ReportKeeps`,
  one lemma per rule of `turns.ts`); a poll is these steps one after the other (`PollKeeps`, by the
  least time at which the recursive function would fail); and a step of Claude Code, which the server
  does not see, keeps everything known of the past (`ClaudeStepKeeps`).
- The hypothesis is used in one place, `InterruptStep`: Esc leaves no record, and only a tool call
  that was read tells the server that the turn takes no more messages.

**Only model-checked.** Everything under fairness: liveness and `ENABLED` are out of the proof
system's reach, and with them `BeatingIsKnown`, `PromptSettles` and the other properties that say
something happens. Every invariant of a passing run is proved. What the recursive `PollAll` computes
is not proved by induction, which the provers cannot instantiate, but by well-foundedness of the
times: there is no least time at which `Knows` fails.

## 5. Plan

Order: what a user of the SDKs depends on most comes first.

1. Done: agent tools; dispatch, stream, exchange and timing; lifecycle; heartbeats; self-ID; PI;
   the gate and the resolver; Python's service and streams; the extension point; Claude Code's
   turns; ACP, OpenCode and Codex; OpenClaw's gateway; the headless hosts; the web UI's bridge.
2. Next: Python's agent tools (the twin of `AgentTools` on task cancellation); discovery and the
   known agents; Claude Code's permission questions; Codex's attached runtime and registry.
3. Proofs: done for every invariant and every action property of the runs; what is left is liveness,
   which stays with TLC.

## 6. Where the code departs from what is said of it

Shown by a run:

- **`gate_replay`**: `record()` of a key that has expired and is not yet swept lists it in a second
  bucket; the next sweep drops the first and with it the fresh entry (`classify.ts:110`), so
  the nonce is admitted again inside its window. `classify.ts:92` says that buckets only bound
  memory. A sender has to use a nonce twice for it; Python moves the key (`identity.py:172`).
- **`gate_boundary`**: the check of `ts` takes a skew of exactly the window for inside
  (`sender-header.ts:609`), while at that instant the nonce has expired (`classify.ts:100`) and
  `record()` answers true and remembers nothing (`classify.ts:116`; Python, `identity.py:177`): a
  copy of a served request, or one still being verified then, is served again. The agent SDK's
  README:136 says that a replayed nonce gets a 401 in every mode. A passing run can claim
  `AdmittedOnce` only before `ts + Window`.
- **`opencode_idle`**: an OpenCode turn normally ends by the result of `prompt()` (`prompt.ts:83`),
  which hands the session to the next prompt; events go to whoever holds the session
  (`prompt.ts:51`), so the ended turn's `session.idle` ends the next caller's prompt without its answer.
  A test (`plugin-prompt.test.ts:144`) expects each of two such prompts to get its own.

Seen with TLC on the modules, with the constant or property named, and not kept as runs:

- Files saved after a cancel are added to a finished call's result (`agent-tools.ts:729`), while
  `docs/agent-tools.md:48` says the result is the same every time (`SameResultEveryTime`).
- A `stop()` while `start()` is at an await stops nothing, and the service runs on
  (`service.ts:855`, `Overlap = TRUE`); the agent SDK's README:50 says it runs until `stop()`.
- A prompt that arrives between `failAll()` and `service.stop()` is never settled
  (`nats-channel.ts:593`, `ShutdownSettles`), while `agents/pi/README.md:305` says that all are.
- Claude Code: with `EarlyEsc`, an Esc before the server has read the tool call is taken for the
  end of another turn (`permission-routing.ts:38`); text may be read for a request that the turn
  was not started for (`session-id.ts:328`).
- Python `Agent` streams: a prompt already at its publish publishes after `close()`
  (`agent.py:636`).
- A PI extension's rejected promise may be unhandled (`FailsOpen`, `NothingUnhandled`;
  `agents/EXTENSIONS.md:97` says a wrapper may be async).
- OpenClaw: a stale start sets the status to running after it was replaced (`gateway.ts:164` says it
  touches nothing but its own; `StaleTouchesNothing`).
- PI headless: `dispose()` misses a prompt whose attachments were being written (`DisposeMissesNothing`
  with "pi" among `Attaching`).
- ACP and OpenCode: a prompt given up under way (a send that failed, a question that timed out)
  releases the lock while the agent still works on its turn (`managed-runtime.ts:145`, `prompt.ts:44`;
  "acp" or "opencode" among `Leaving`, `OneTurnInFlight`): two turns are in flight, against the
  comment at `managed-runtime.ts:112`, and the next caller is given text of the first.
- Codex: a rescan that overlaps the poll registers a thread twice (`session-manager.ts:121`;
  `RescansOverlap = TRUE`, `RegisteredOnce`), while its README:211 says exactly once; an inventory that failed at the start exposes existing sessions later (README:127); a failing
  start ends the call before later threads' misses are reset, and `void this.trigger()` leaves
  its rejection unhandled.
- Codex: a permission request of one turn is asked of whoever registered last (`Asking`).
- Web UI: a discover that returns after `close()` subscribes again (`NothingSubscribedAfterClose`).
- `invalidate()` leaves an enumeration in flight whose result is stored after it
  (`resolve-sender.ts:127`).
- Two failing answers put their questions back newest first (`agent-tools.ts:985`; line 1174 says
  oldest first), and a put-back question can not be answered, since `reply()` sets its flag
  before it publishes (`query-event.ts:48`).
- `reserve()` drops a finished call for a prompt that may then be refused (`agent-tools.ts:677`;
  `docs/agent-tools.md:65` says a refusal did nothing).
- An interceptor that starts `next()` and settles first lets chunks follow the terminator
  (`service.ts:1155`); one that throws and calls `next()` later has a refused request
  served (`service.ts:1103`). `service` assumes interceptors that await `next()`; `exchange` drops
  that, and the caller's contract holds all the same. Calling `next()` after throwing is not modelled.
- A `cancel()` while the request is prepared does not keep the iteration from throwing what the
  preparation throws (`prompt-stream.ts:124`; line 101 says it ends cleanly).
- A beat of a previous life may be published after the next life's first (`service.ts:981`; line
  938 says beats never land out of order): `BeatsInOrder` is per life.
- `onHeartbeat()` on a closed client subscribes again (`agents.ts:209`).
- A plan made at publication is itself kept across interceptors and signer, during which a
  reconnect may clear the memo (`agent.ts:299`).
- A silently refused injection stays active until another run ends; it does not expire
  (`prompt-queue.ts:125`; `agents/pi/README.md` says it does).

## 7. Not modelled

- Codecs, cryptography, validation and subject syntax: pure functions without state, which the
  modules use as model values. What is only I/O: saving attachments, loading options, doctors,
  configuration, registration of metadata.
- The rest of the Python SDKs: agent tools, discovery, heartbeats and self-ID follow the
  TypeScript modules.
- PyService: a second concurrent `stop()`, statistics. PI: the text of a run. Claude Code:
  permission questions to the caller, the retries at shutdown, the fallback without hooks after
  the first prompt, rule 6's 30 s against a lost Stop line. OpenClaw: the turns of served prompts.
  Headless: a spawn in flight when the manager stops is listed after the stop and never disposed
  of; a settled handler that still removes its files is not awaited. Web UI: an agent known through
  discover and never heard is never evicted; prompts with one id replace each other.
  Codex: the attached runtime and the endpoint registry. OpenCode: a host without the prompt API
  (`prompt.ts:67`), whose prompts wait for events of turns that nobody started, and turns that the user types into the same
  session; text in its queue that a failure drops counts as given. ACP: whether the SDK hands an update
  to the `nextUpdate()` that a failed turn has abandoned.
- DeerFlow, Eve, Flue, Grok, Hermes and Open Agent, which bridge one prompt to one call of a foreign
  runtime; vendored runtimes, the remaining examples and release scripts.

The map therefore covers the concurrent core of the implementation, not most of its lines: what
is left out is for the larger part parsing, formatting, configuration, I/O and demonstrations.
`PROJECT.json` gives the reason for each component.
