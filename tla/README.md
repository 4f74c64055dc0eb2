# A verification project for luna-core

luna-core runs AI agents for a host application: flows (graphs of nodes executed
by Celery workers), chats (turns of a conversation executed inside an HTTP
request) and the streams that show both to a browser. Its processes share
nothing but PostgreSQL, Redis and the Celery queue, so what can go wrong lies
between two awaits, two commits or two Redis commands of different processes.
This project models that: TLA+ modules translated from the source, TLC runs on
small instances, and TLAPS proofs for every instance.

Paths below are relative to `src/luna_core/` unless they start with `src/`.

## 1. Inventory

### Parts, state, operations

| Part | State it keeps | Operations | Hard behaviour |
|---|---|---|---|
| Turn lock (`services/turn_lock.py`) | Redis `conversation_turn_lock:{c}`, `user_turns:{u}`, both with a TTL | `conversation_turn` enter/exit, `active_turns` | five Redis commands that are not one transaction, TTL under a live turn, dead holders |
| Emitter (`engine/emitter.py`) | `run_events`, `agent_messages`, Redis `max_seq`, per-message delta counters, in-flight stream cache | `emit`, `publish_run_event`, `save_message`, `finalize_partial_messages` | several agent loops allocate sequences of one run; optimistic retry; a plain SET of the mark |
| Flow runner (`engine/runner.py`, `tasks.py`) | `FlowRun` row, Redis `run_state`, `abort` | `run`, `resume`, `_execute`, cleanup | late acknowledgement and redelivery, two tasks on one run, parallel branches merging state, abort against completion |
| Run endpoints (`routers/runs.py`) | the same row and keys | trigger, resume, abort, clear | check of the status, then a write much later |
| Agent loop (`engine/agent.py`) | the history of a run or conversation | LLM call, tool execution, suspension, resume, iteration cap | a turn cut between any two rows; resume from whatever the history ends with |
| Chat handlers (`routers/conversations.py`, `engine/chat.py`) | `Conversation`, messages | send, decide, abort, handoffs, history, compaction | abort key surviving its turn, decisions racing, request death |
| Tool approvals (`services/tool_approval.py`) | `ToolApproval` rows | create, decide, cascade, count, read decisions | double decisions; rows and history must agree |
| LLM router and providers (`llm/`) | none durable; rate-limit keys in Redis | complete with retry, stream, convert messages | a stream cut after some deltas; retry of a partial turn |
| Nodes and iterations (`engine/nodes.py`, `engine/iteration.py`, `services/scratchpad.py`) | `outputs`, scratchpad entries, per-iteration rows | one executor per node type; claim, run, yield, fail an iteration | parallel iterations over one scratchpad |
| WebSocket fan-out and snapshot (`engine/websocket.py`, `engine/streaming.py`) | one pump per channel, client queues | subscribe, snapshot, drain, forward, remove | a gap or a duplicate between snapshot and live frames |
| Flow service and scheduling (`services/flow.py`, `services/scheduling.py`, `routers/flows.py`) | `Flow` with its users' rules, run history, the Celery queue | save rules, activate, delete, trigger, sweep, create scheduled run | sweep against a run not yet created; two users saving at once; a row committed before its task is queued |
| Connectors and their tools (`connectors/`, `routers/connectors.py`, `mcp/builder.py`) | connector and operation rows, a registry per process, the tools of the MCP server, refresh locks | admin requests, reload, outbound call, token refresh | a refresh in two processes; a registry that outlives its rows; nested retry budgets |
| Accounts (`services/auth.py`, `services/verification.py`, `routers/auth.py`) | refresh tokens, verification codes, Redis counters | login, refresh, logout, resend, verify | rows read in one commit and written in another |
| Usage, RAG, voice, storage | rows of their own | CRUD, HTTP calls | none between calls |

### How they meet

* A trigger commits a `FlowRun` row and enqueues `run_flow`; a worker's
  `FlowRunner` runs the graph, writes the row's status and the `run_state` key,
  and emits events. `resume` enqueues `resume_flow`. `abort` writes a Redis key the
  worker polls and marks the row itself, from another process.
* Every node and every agent loop writes through an `EventEmitter`: a row in
  PostgreSQL, then a frame on a Redis channel, then the high-water mark in Redis.
  The WebSocket layer forwards frames to clients, which sort by sequence.
* A chat request enters the turn lock, runs the agent loop inline, and leaves. A
  gated tool call suspends the turn: approval rows are written and the request
  ends. The decision is another request, which resumes from the stored history.

### What makes them correct

* one turn at a time per conversation; nothing locked or listed for good;
* a timeline whose order is the order in which each loop emitted, live deltas
  included;
* a run said to be running is being driven by somebody and ends; a completed run
  holds the outputs of a whole execution; what a pause saved is not lost;
* a gated call runs only when approved, at most once, and does run once approved;
  the history sent to a provider is always well formed;
* a client sees the text of a turn from its first chunk on and every closing event,
  whenever it connects; what a provider streams is shown once and stored once, and
  an LLM call ends;
* a scratchpad record is not lost until an iteration has run on it; a node that ends
  leaves no iteration open or running;
* a payload pairs every tool call with its result and labels media as the host does;
* a user's rules are the ones the user saved; a slot gets one run, and gets it; a
  pending run has its task;
* a stored grant is one the identity provider accepts; a login has one live refresh
  token, a user one live code.

`PROJECT.json` lists every part under `components` and every hazard at its line
under `hazards`.

## 2. Modules

### TurnLock — `services/turn_lock.py`

State: `lock`/`lockTtl` and `listing`/`listTtl` are the two Redis keys with the
ticks left to them; `pc` is where each request is; `scan` is a host's
`active_turns` call. One action per Redis command: `Acquire`/`Refuse` (SET NX EX),
`Sadd`, `Expire`, `Srem`, `Get`, `Delete`; `Smembers`, `Exists`, `DropStale`,
`CountDone` for the scan; `Tick` for time; `Crash` for a death anywhere inside.
`overran` records that time ran out under a live request, `raced` that a scan
unlisted a conversation locked since its EXISTS; they say precisely when the
documented promises stop holding.

### RunEvents — `engine/emitter.py`, the streaming turn of `llm/providers/`

State: the two tables, the delta frames published, the Redis `mark`, and the local
variables of each writer. `ReadDb`, `ReadMark`, `Insert`/`Conflict`, `Bump` are
`emit`; `PublishDelta`, `BumpDelta` are `publish_run_event`; `ReadMsg`,
`InsertMsg`/`ConflictMsg` are `save_message`; `EndStream` ends the stream whole or
cut. `EmitFails`, `DeltaFails` and `SaveFails` are a database or Redis call that raises,
a SET also after it took effect: the error of `agent_message_started` is swallowed, and
the turn streams on from sequence 0 (`GiveUp`). `MarkExpires` is the TTL of the mark. The
unit of interleaving is the await. A writer is one agent loop with a
session of its own: the node's, or that of one of its parallel iterations
(`engine/iteration.py`).

### FlowRun — `engine/runner.py`, `tasks.py`, `routers/runs.py`

State: the row (`status`, `dbState`), the keys (`cache`, `abortKey`), and per
Celery task its position, what its session last loaded of the status (`seen`; the
ORM writes a column only when it differs from that), and the graph's superstep
(`todo`, `next`, `base`, `mem`). A run's state is the set of nodes whose output it
holds. `Load` … `Persist` are `run`/`resume` up to the graph; `NodeYields`,
`NodeAborted`, `NodeFails`, `NodeInterrupts` are what a node's event does to
`_execute`; `Pause`, `Fail`, `Complete`, `Hold`, `Cleanup`, `Ack` are its ends.
`Crash` puts the task back in its queue (late acknowledgement), `ErrorEscapes` is
an exception outside the `try`, `PersistFails` one inside it, `Rollback` an emit
that lost its sequence and expired the session. `AbortRead`, `AbortSet`,
`AbortMark` are the three steps of the abort handler. LangGraph (which node runs
next, how a superstep ends) is external and modelled from how the runner uses it.

### ChatTurn — `routers/conversations.py`, `engine/agent.py`, `engine/chat.py`, `services/tool_approval.py`

State: the conversation's rows (`thread`), approval status per tool call, how often
each call ran, the abort key, the holder of the lock, and per request its position
and memory. `BeginSend` … `Release` are `send`; `BeginDecide`, `Decide`,
`Cascade`, `Count`, `Load` are `decide_tool_approval`; `Chunk`, `Answer`,
`CallTools`, `Suspend`, `Execute`, `Deny`, `SaveResults`, `Handoff` are the loop;
`Abort` the abort handler (`Sent` are the positions of the rows the history is made
of); `LlmFails`, `ToolRaises`, `Die`, `LockExpires`,
`AbortExpires` the failures. The lock is abstract here: one holder, given back at
the end, or running out; `TurnLock` is the detailed one.

### TurnFeed and Stream — `engine/websocket.py`, `services/flow.py`, the stream cache of `llm/providers/`

`TurnFeed` is the abstract specification: turns produce chunks, clients receive
them, and what a client has of a turn in flight is a prefix of it. Two exceptions
are part of the contract: the turn is over (its text is in the stored message), or
the client is `blind` (no subscription in time, or no snapshot). `Stream` is the
detailed one. State: each turn's Redis list (`pushed`, `cached`) and message
(`row`), the `pump` of the key with its subscription, the frames on the wire, per
client its socket, queue, snapshot in progress and iteration subscriptions, and per
page what it has (`view`, `closed`) and its REST fetch. A turn pushes a chunk, then
publishes it, saves, deletes and closes; the pump subscribes and fans out; a client
registers, waits for the pump, scans the keys, reads each list, is sent the snapshot
and then its queue, and may leave at any time. `Feed == INSTANCE TurnFeed WITH ...`
is the refinement mapping, `FeedSpec` the property that it holds.

### Iteration — `engine/nodes.py`, `engine/iteration.py`, `services/scratchpad.py`, `mcp/system_tools/stash_records.py`, `dedup/node_config.py`

State: the node's configuration as its author wrote it (`cfg`; the `resolve_*`
functions are operators), the scratchpad (`recs`, `index`), the `stash_records` call
in progress, per record the place of its iteration task, its outcome and the events
emitted for it in this execution, the records whose iteration a dead worker left open
(`left`; an iteration has an id of its own each time its record is taken up), the free
permits, the agent-driven loop's turns. `StashCall`,
`StashSet`, `StashIndex` fill the scratchpad; `StartNode` takes the snapshot of ids;
`Acquire` … `DropIndex`, `EmitCompleted` are one iteration; `EmitFailed*`,
`StepRaises`, `CancelArrives` its failures; `CancelSiblings`, `Drained`,
`SequenceEnds`, `WalkEnds` the node around them; `YieldTurn` the agent_yield source.
`Abort`, `Crash`, `RecordExpires` come from outside. The filtered lists of a call are
given by positions: `Survivors` are the positions of the batch the checker passed, and
`Forwarded` is the shorter list it was sent, whose results `Verdicts` splices back by
`Place`.

### Providers — `llm/router.py`, `llm/providers/`

One LLM call: the router's attempts around the `complete` of one of four providers.
State: the attempt, the provider's locals (`turn`), and per message id what was
published (`seen`), stored (`rows`) and left in Redis (`cache`), how that attempt
ended, and whether the save of its partial row failed (`lost`). `ResolveChatProvider`,
`EnforceRateLimit`, `RouterCatches` are the router; `Chat*`, `Responses*`, `Anthropic*`
and `CLI*` the four streams with their chunks, abort checks, failures and ends. What an
end stores is not what was streamed: `CLIBlocks` cuts leaked transcript out of the text
or puts a structured object in its place, `ResponsesBlocks` adds the sources of a cited
answer, and `AnthropicRoundEnds` drops the rounds of an answer that turns out blank;
`extra` says that a row holds text nobody streamed. `SavePartial*` (`RowIsTried`: the
row is written or its save fails, and the keys go in both cases), `SaveMessage`,
`EmitCompleted`, `ClearKeys` are the turn lifecycle they share; `AbortTurn` and
`FinalizePartialMessages` the abort handler.

### Wire — `engine/chat.py`, `engine/nodes.py`, the converters of `llm/providers/`

State: the stored rows of a conversation or of a flow run, and whether the chat's last
turn still has calls to run (`open`). The actions write rows the way turns, results,
compactions, handoffs and aborts do; `AbandonCalls` is a chat's turn that ends between
its calls and their results, behind which the next send puts its user row. `HistoryRows` and
`LoadHistory` cut them to a history; `OpenAIMessages`, `ResponsesInput`,
`AnthropicMessages` and `CLIMessage` translate it, flattened to what a provider's API
looks at: message starts, texts, calls and results by id, label notes, pictures.

### Requests and Connectors — `connectors/`, `services/connector.py`, `routers/connectors.py`, `mcp/builder.py`

`Requests` is the pure part: what `_execute_http` puts into path, query, headers and
body. `Connectors` has the rows, each process's registry and refresh lock, the tools
of the MCP server and the identity provider (external). `Prepare`, `Acquire`,
`RefreshGranted`/`RefreshFails`, `Persist`, `Attempt` are an outbound call, begun by
`Execute`, `TestOperation` or `TestDraft`; an admin request commits its row
(`CreateOperation`, `UpdateConnector`, …) and then runs its hook (`OnCreated`,
`OnUpdated`, …); `OAuth2Start`, `OAuth2Callback`, `Exchange` are the authorisation
pop-up; `Reload` and `Restart` fill a registry from the rows. `Answered` is what the loop
of `_execute_http` does with a response: a forced refresh, a retry, or the end. Each
attempt is prepared from the credentials the call has (`creds`). A refresh by `prepare`
leaves those as they are: its tokens (`got`) go into the object the call holds
(`InObject`), the row and the headers of one request (`Renewed`); only a forced refresh
gives them to the call.

### Accounts — `routers/auth.py`, `services/auth.py`, `services/verification.py`, `core/rate_limit.py`

State: refresh tokens with the login they descend from, verification codes with their
attempts, the Redis counters, and per request what it read. Each request is two
actions: what it reads (`Login`, `Refresh`, `Resend`, `VerifyEmail`) and what it commits
(`LoggedIn`, `Rotate`, `RevokeAll`, `CodeCreated`, `VerifyCode`); `Logout` is a single
one. `hist.token` and `hist.code` record that a commit hit a row that had changed.

### Schedules — `tasks.py`, `services/scheduling.py`, `services/flow.py`, `routers/flows.py`

State: the clock in minutes, the flow with its merged rules, the Celery queue as a
bag, what each worker and each API request is in the middle of, and the flow's runs.
`UpdateReads`/`UpdateCommits` are `update_flow`; `Trigger`/`TriggerQueues` the run
endpoint; `SweepBegins`, `SweepRule` are `dispatch_due_runs`; `CreateScheduled`,
`QueueScheduled` the trigger task; `RunFlow` hands over to FlowRun. `WorkerDies` puts
the task back, `ApiDies` loses what was not queued yet. A cron expression is the set of
its fire times (`Fires`); `Filtered` is the comprehension over the rules by which a save
keeps the other users' and an answer shows only the caller's; `More` and `Less` are what
the broker does to the queue.

Schedules and Providers name their specification after themselves (`ScheduleSpec`,
`CallSpec`, `CallFairSpec`), since each shares a module of proofs with another component.

`MC*` modules give the constants their values; `*Proofs` modules hold the theorems.
A definition that begins `Seeded fault` is not part of the specification: it is the
code with one mistake in it, put in place of the real action to show that a
property would notice.

## 3. Runs

| Run | Question | Instance |
|---|---|---|
| `TurnLock` | Is there one turn at a time, is it listed, is nothing locked or listed for good? | 3 requests, 2 conversations, 1 user, TTL 2 |
| `RunEvents` | Does each loop's timeline keep its order; are retries bounded; does one loop keep deltas below the completed event, and the mark from falling? | 2 writers, 2 emits or turns of one and 1 of the other, 1 delta, 3 tries, 2 faults |
| `FlowRun` | Is a running run driven, does it end, is nothing lost on completion or pause? | fan-out and checkpoint flows of 3 nodes, 2 tasks, 1 fault, 1 abort |
| `FlowRun_checkpoint` | Does an answered checkpoint let the run finish? **No** | a line with a checkpoint, 1 task |
| `ChatTurn` | Do only approved calls run, once, and do they run; is the history well formed? | 1 request slot, 4 calls (2 gated), 2 sends, 1 upset |
| `Stream` | Does a page have every turn from its first chunk on; do closing events arrive; does the stream implement `TurnFeed`? | a turn of 2 chunks with 1 client that reconnects and fetches; a turn inside an iteration with 2 clients on one pump |
| `Iteration` | Is a record stored as checked and kept until it was worked on; which iterations stay open, is no task left behind; does the node end? | 3 ids, 6 records, 14 configurations, 2 calls, 2 troubles |
| `Providers` | Is text shown once, is what is stored what was shown, is none dropped; does the call end? | 4 providers, 1 retry at each level, 1 continuation, 3 chunks an attempt |
| `Wire` | Are calls and their stored results paired, and media labelled as the host counts, in every payload? | 7 rows of a chat, 5 of a flow, 3 attachments of a kind |
| `Connectors` | Is the stored grant usable, are attempts bounded, does the registry follow the rows, is a value sent in one place? | 2 calls, 2 processes, 2 operations and names, 3 kinds of credentials |
| `Accounts` | Is there one live token per login and one live code, with capped guesses? | 2 request slots, 4 requests, 3 tokens, 3 codes |
| `Schedules` | Does each user keep its rules, does each slot get one run and get it, is a pending run driven? | 2 users, 2 workers, 2 minutes, 2 rows, 2 edits or deaths |

### Bounds

* TurnLock: two requests compete for one conversation and one runs beside them, so
  that a release can meet a new holder and the shared listing two turns of one
  user. TTL 2 is the least for which a renewal differs from no renewal.
* RunEvents: a rival commits between any two steps of an emit; two operations of one
  writer give an event followed by a turn and the other way round, against one of the
  rival. Two faults lose a started event and the mark, or fail a delta and its save. With
  one delta per turn a swallowed start already puts the mark below an earlier event.
  `MaxTries` is 3 where the code has 32: what follows the last try, an error that
  escapes or is swallowed, is reached with the few conflicts two writers can cause; the
  proofs are for any number of tries.
* FlowRun: three nodes are the least with two parallel branches; two task slots are
  what a redelivered task and a resume need to overlap. Slots are reused, so any
  number of resumes follow each other. One fault and one abort may fall anywhere.
* ChatTurn: the lock admits one request, so one slot is enough until time runs out
  under a live one; what follows that is cut by `InTime` in the passing run and
  explored with two slots in `ChatTurn_overrun`. A gated pair and a free call in one
  message give partial decisions and a cascade; free calls in messages of
  their own give the re-invocation and, one after the other, reach the iteration cap
  of 2; the handoff cap is 1.

* Stream: two chunks are the least for which a hole differs from a late start; one
  client reconnects as often as it likes, two share a pump so that one leaves while
  frames go to the other. A turn inside an iteration is the one whose frames are
  filtered.
* Iteration: two permits for three records, so that one task waits; the batches hold a
  record twice, one whose explicit id is another's hash, and one of each kind a filter
  takes out, in front of one that stays. Two troubles let one follow another, as a
  cancellation follows an error. The nine broken configurations end at once.
* Providers: one retry at each level is the least for which the levels nest; three
  chunks, over the rounds and retries of one attempt, let a stream break before, between
  and after text, and leave an excerpt that is neither a prefix nor everything.
* Wire: seven rows hold a compaction and a turn with two calls and its results before and
  after it, or a batch left unanswered between two that are answered; the flow's five
  hold two iterations whose calls and results cross. A reply has a text, calls or both,
  the text first, as the accumulators put them. Two media kinds are numbered apart; one
  medium cannot be resolved.
* Connectors: the kind of credentials picks the question, so that the request shapes,
  the admin requests and the refreshes are not multiplied: an API key with every shape
  and input, none with three admin requests and a restart, OAuth2 with two calls in one
  or two processes and one admin request, for providers that rotate or not and answer
  with or without an expiry.
* Accounts: two slots are what two transactions need to cross; four requests hold a
  login, two crossing rotations and a replay.
* Schedules: two users share the merged list; two workers let a sweep overtake the
  trigger it would repeat, or a task be delivered again beside its first execution. Two
  upsets are two saves that overlap, two deaths, or one of each.

Slots, workers and users are interchangeable in Accounts and Schedules (symmetry; only
invariants are checked there).

Deadlock is checked in FlowRun (a resume may always be requested). The others may
come to rest: all requests over, all emits done, or a conversation waiting for a
user who never comes back.

### Fairness

* TurnLock: weak fairness of each request's steps, of the scan and of time. A
  request that got in runs on unless it dies; the host counts before each turn.
* FlowRun: weak fairness of each task's steps: a worker takes every queued task and
  runs it while it lives. Nothing is assumed of aborts, resumes, faults or expiry.
  `AnsweredSpec` adds that resumes are asked for, which only makes the violated
  property easier to satisfy.
* ChatTurn: weak fairness of a begun request's steps. Nothing is assumed about users
  sending or deciding.
* Stream: weak fairness of the pump (subscribe, Redis's acknowledgement, fan-out) and
  of each connection's loops: the event loop runs what is ready. Nothing is assumed of
  turns, whose worker may die, or of clients.
* Iteration: weak fairness of the node's own steps: a live worker goes on and an agent's
  run ends, since its turns and HTTP calls are bounded. Nothing is assumed of faults.
* Providers: weak fairness of the call's steps (a stream gives an event or breaks: every
  client library has a read timeout, and the CLI its own) and of other calls giving
  their CLI permit back.
* RunEvents, Wire, Connectors, Accounts, Schedules: only safety is checked, no fairness.

### Where the code's documentation and the code part

`FlowRun_checkpoint` is a run that must fail, and is listed under `findings`: a resumed
run starts at the entry point, and its checkpoint pauses it again on every resume
(`engine/nodes.py:71`, `engine/runner.py:248`).

The following configurations belong to the same modules, are not part of `runs`, and
each check one statement that the model refutes: one of the code's documentation, or a
passing property without the exception it makes. Run them as
`tlc -config <name>.cfg MC<module>` to see the trace.

| Configuration | Statement | What happens |
|---|---|---|
| `TurnLock_release` | `ReleaseLeavesOthersAlone` (`services/turn_lock.py:45`) | the release is GET, then DELETE (60-61): a key that expires and is taken between them is deleted under its new holder |
| `RunEvents_deltas` | `CompletedAboveDeltas` (`engine/emitter.py:41,139`) | `_bump_max_seq` is a plain SET (143): with parallel iterations a completed event can take a sequence a delta of its own message has |
| `RunEvents_mark` | `EachSetRaisesMark` (`engine/emitter.py:139`) | also with one loop: when the emit of `agent_message_started` fails, `_emit` swallows it (`llm/providers/_turn.py:249`), and the turn's deltas are numbered from 0 (`llm/providers/generic.py:761`) and SET the mark below the events before them |
| `ChatTurn_abort` | `IdleAbortIsANoOp` (`routers/conversations.py:534`) | an abort while nothing runs leaves a key (537) that a later decision's turn obeys |
| `ChatTurn_overrun` | `OnlyApprovedRun` (`engine/agent.py:363`) | when the lock runs out under a live decision, resume (521) can execute a gated call nobody decided |
| `Stream_backfill` | `SinceBackfillCompletes` (`routers/runs.py:89`) | `list_run_events` rebuilds a stored message as one delta at the started event's sequence + 1 (`services/flow.py:596`), which the `since` filter (528) drops for a page that already saw a part of it |
| `Iteration_abort` | `AbortCancelsSiblings` (`engine/nodes.py:988`) | the tasks are gathered (994) before anyone looks at the abort: siblings run on to their end |
| `Iteration_crash` | `EveryIterationCloses` (`engine/nodes.py:1073,1087`) | a worker dies behind `iteration_started`: the redelivered node takes the record up under a new `iteration_id`, and the old iteration stays open in the timeline |
| `Providers_retry` | `RetriedDropKeepsNoPartial` (`llm/providers/anthropic.py:951`) | the retry looks at the text of the round (907), the partial at the text of the whole turn (953): after a first round that showed text, a drop of the second one stores a fragment and is retried all the same, and the save of the retry's answer under the same id is refused |
| `Connectors_siblings` | `SiblingsShareOneRefresh` (`connectors/auth.py:50,214`) | the second caller looks at its own copy of the credentials after it got the lock (216), and refreshes again with a token its sibling has used |
| `Connectors_retry` | `CallKeepsItsTokens` (`connectors/registry.py:352`) | the tokens of a refresh in `prepare` are not handed back when there is a database (`connectors/auth.py:224`), and each attempt starts from the call's first ones (372, 453): a retry or a 401 presents the used refresh token, and a provider that rotates refuses it |
| `Connectors_commits` | `EveryGrantIsUsable` (`connectors/auth.py:382`) | the tokens are in the cached object before they are committed: a sibling refreshes from them, and the two commits can change places |
| `Wire_abandoned` | `EveryCallSentIsAnswered` (`engine/agent.py:416`, `routers/conversations.py:446`) | a turn that dies, or whose tool raises, behind its row of calls stores no results; the next send looks at pending approvals only, and sends those calls unanswered from then on |
| `Schedules_rule0` | `EveryRuleIsAnswered` (`services/scheduling.py:56`) | the query for the first rule does not filter by rule, so a late run of another rule swallows its slot |

The passing properties say how far each promise does hold: `MutualExclusion` and the
ChatTurn invariants until time runs out under a live turn (`overran`),
`AloneCompletedAboveDeltas` while one loop writes, `MarkFallsOnlyUnannounced` while one
loop writes and until one of its started events is lost or the mark expires,
`RunningIsDrivenUnlessLost` until a resumed execution dies or an error escapes `_execute`
(`lost`), `CompletedCoversAPath` and `SnapshotNotBehindRow` until two tasks execute the
run at once (`doubled`), `ApprovedEventuallyRuns` until a turn dies or its tool raises
(`broken`), `BackfilledViewHasNoHole` for a fetch of the full history and turns whose
message could be stored (`Lost`), `StartedIsClosed` for the iterations of a worker that
lives (`left`) and emits that are not interrupted (`cut`), `ShownOnceStoredOnce` with
what the CLI and a cited answer change and the round of a blank answer,
`ClosedTurnIsSettled` unless the save of the partial row failed (`lost`),
`CallsAndResultsPaired` for calls whose result is stored, and in a flow for all
(`Abandoned`), `StoredGrantIsUsable` until an answer of the provider is dropped or merged
over a copy with another refresh token than the row's (`hist.dropped`, `hist.stale`),
`NothingOutlivesItsRow` until two admin requests overlap (`hist.overlap`),
`OneLiveTokenPerLogin` and `OneLiveCodeAndCapped` until a commit hits a row that
changed since it was read, `EachUserKeepsItsRules` until two saves overlap,
`OneRunPerSlot` until a trigger is dispatched before the row of the same slot is there or
a rule moves in the merged list, `PendingRunIsDriven` until a process dies between the
commit and the queueing.

Met while modelling, and visible in the modules, without a statement of the repository
against it:

* Iteration: `execute` wraps the abort signal of a parallel iteration in a node error,
  so the run is recorded failed, not aborted; a cancellation that arrives in the emit of
  `iteration_completed` leaves the iteration unclosed (`cut`).
* Providers: the CLI's error exits keep no partial text, and when stripping leaves
  nothing of an answer, the raw result text is stored in its place
  (`llm/providers/claude_cli.py:1048`); a partial turn whose save fails is in no row, and
  its stream keys are deleted all the same (`llm/providers/_turn.py:321`); a blank answer
  after a paused round drops that round's text, too (`llm/providers/anthropic.py:643`).
* Wire: `FinalizePartialMessages` promotes the partial rows of other turns, too, with tool
  calls nobody answers, which later turns send like those of a turn that died
  (`Abandoned`).
* Connectors: an operation created over REST is attached as a tool before the registry
  knows it; two operations of one name share a tool; without a session factory a
  refreshed token is not stored; an answer without `expires_in` keeps the old expiry; an
  `api_key` in the query is overwritten by a caller's value of that name.
* Schedules: rules stored before rules had owners have no user and are never run; a
  save with trigger type "manual" stops every user's rules.

## 4. Theorems

All are proved from the named `ASSUME` of each module (constants are typed, absent
values are distinct from present ones), for any number of requests, writers, tasks,
nodes, records, turns or calls and any bounds. An invariant that a run checks is rarely
inductive; what each proof adds, and why, is the following.

* **ConversationProofs**, TurnLock — `TypeCorrect`, `OneTurnAtATime`, `RunningIsListed`.
  Mutual exclusion is not inductive: two requests inside are excluded because each one's
  token is in the key. The invariant adds that, while time has not run out, a request
  inside holds its conversation's key and the key has time left, and that a listed
  turn's listing outlives it (its TTL is not below the lock's, once renewed). The proof
  shows that `Tick` preserves this when it is `Timely` and sets `overran` otherwise.
* **ConversationProofs**, Wire — `WireTypeCorrect`, `MediaAreCounted`,
  `LabelsAreTheHosts`, `CallsArePaired`. Two invariants, both about the stored rows.
  Media (`Counted`): attachments are numbered in order, per kind, stand in complete user
  rows of a chat, and a compaction's mark counts those up to the row it goes through. It
  is inductive because what a compaction counts, on top of the mark its history starts
  with, is what the stored rows hold up to there (`HistMarks`): every complete row past
  the mark is in the history, once and in order (`HistoryIsHist`). The same count gives
  the label of an attachment in a history (`HistLabels`). The providers' translations are
  taken apart block by block: a part of a payload in which labels are right and pictures
  match the notes that announce them stays so when it is put after another
  (`AlignedConcat`), also after the CLI has moved the pictures to the end (`CLIAligned`).
  Sequences are flattened in an order that a fold does not give away; `FlattensAt`
  recovers it, by a least counterexample.
  Calls and results (`Replied`): calls are an assistant's and end its row, results are a
  complete user row of their own that answers all the calls of one earlier complete row of
  its node, in a chat of the row before it; an id is given to one call; the row after a
  compaction's cut is none of results. Calls without a stored result may stand anywhere in
  a chat (`Abandoned`): nothing is claimed of them, and they part no other pair. A
  chat's history keeps the complete rows after the cut, so it parts no pair
  (`ChatPaired`); a flow's drops whole nodes and each half of a pair whose other half is
  gone (`FlowPaired`, `CutPaired`). A provider sends a row as a part with the row's
  calls at its end and its results at its start, whatever notes and pictures stand
  between, so parts whose rows are paired make up a payload that is (`PartsPaired`,
  `FlattenPaired`, `PayloadsPaired`).
* **RunEventsProofs** — `TypeCorrect`, `ProgramOrder`, `AloneOrder`, `AloneMark`,
  `NoRivalBeatsTwice`. Program order rests on what a writer in the middle of an emit
  knows: the MAX it read is at least every sequence it committed, so its allocation
  exceeds them whatever the mark says. The single-writer theorems add where the mark
  stands at each position of the writer (`MarkFollows`): once it streams on a base other
  than 0 the mark is the delta published last, in every turn it bounds that turn's deltas
  by the time a sequence is allocated, and what is allocated next is above it; a turn that
  streams on base 0 was not announced, which is the exception `AloneMark` makes. The
  bound on retries (`RetryInv`) counts rivals' rows by their sequence: the conflicts so
  far are covered by the rivals' rows below what the writer has allocated, and a
  conflict means that there is one more, at the allocated sequence itself, which the
  next read is above.
* **FlowRunProofs** — `TypeCorrect`, `RunningHasADriver`, `CompletedRunCoversAPath`,
  `PausedSnapshotIsCurrent`. `Driven` is not preserved by itself: the ORM skips the final
  status write of a task whose session already saw that status, so such a task leaves a
  running row behind it. The invariant (`DrivenInv`) asks for a task that is `Sure` to
  end the run: one that has yet to write running, or whose session saw the run running,
  whose final write cannot be skipped. The outputs need two more parts. `Owned`: until
  two tasks execute the run at once, nobody pauses or completes it under the one at work,
  and the snapshot, once primed, is that task's own. `GraphInv`: at each superstep the
  outputs held and the nodes due make up an execution from the entry, so that a graph
  with nothing due has executed one to its end.
* **ChatTurnProofs** — `TypeCorrect`, `ApprovedBeforeRun`, `ExecutedOnce`,
  `PendingCanResume`, `ResultsAnswerCalls`, all but the first until the lock runs out
  under a live turn. That only approved calls run is not inductive: a resume executes
  whatever the history ends with, minus what was rejected, so the history and the
  approval rows must agree. `ApprovalInv` says: only the holder of the lock is at work;
  inside the loop nothing is pending; pending approvals are for calls of the last row
  sent; and while something is pending, or a decision is on its way to the resume, no
  call of that row has run and each gated one has its row. A finding is where this
  breaks: two requests at work after the lock ran out. The shape of the history
  (`ShapeInv`) adds that a request about to write results works on the calls of the
  last row that is sent, and that a suspended conversation ends with such a row, so
  that nothing is written between calls and results.
* **StreamProofs** — `BackfillLeavesNoHole`, and `StreamImplementsFeed`, the step
  simulation of `TurnFeed` under the mapping of `Stream`. Both follow from one
  invariant. `Ordered` says of a client and a turn: on its page, then in the snapshot it
  is still to be sent, then in its queue, then on the wire, each chunk comes after its
  predecessor, and the chunk published last is among them, so that the next one follows.
  `LiveInv` has this for turns in flight once the client has read their list,
  `FetchedInv` for what a full fetch leaves, where a stored turn is complete; `PumpInv`
  ties "not blind" to a subscription in place since before the lists were read. A turn
  that is gone from Redis without a row (`Lost`) stays so and is excepted.
* **WorkerProofs**, Schedules — `SchedulesTypeCorrect`, `SchedulesInvariant`,
  `RulesAreKept`, `SlotsRunOnce`, `SlotsAreAnswered`, `PendingRunsAreDriven`. A save in
  progress holds rules of its caller only (`SaveInv`), so that what `Merged` puts in place
  of the list keeps each other user's rules in their order: the positions kept map one to
  one, in order, onto positions of the merged list (`MergeKeepsRules`). Slots (`SlotInv`):
  every row, and every trigger on its way, has looked at the rows up to `seen`, and those
  of them that count for its rule were created before its slot; a row is created no
  earlier than its slot. Of two rows that count for one rule the second's slot is thus
  after the first one's creation, unless it was dispatched before the first was there. A
  sweep of a flow that has not changed since (`SweepInv`) has caught up with the rules
  before the one it is at (`Caught`), and a slot that is caught stays so: a row stays, a
  trigger stays in the queue or with its worker, or becomes a row whose clock is past the
  slot.
* **WorkerProofs**, Iteration — `StashedRecordIsNotLost`, `StartedIterationIsClosed`,
  `EndedNodeHasNoTask`, `CheckedRecordsOnly`. Records (`PadInv`): the index and the
  records are written in several commands by two parties, which do not step on each
  other because only the task of an id unlists it and a call stores only ids that are
  not listed. Iterations (`LoopInv`): a sequential walk has one permit and nobody at work
  once a record failed; a task that emitted nothing is before its first emit, and one that
  has emitted `iteration_started` only is still to close it, unless it was cut off; a crash
  moves what is open to `left`. Verdicts
  (`CheckedInv`): `Place` is one to one on the mapped positions, so the result at a
  record's place is that record's.
* **ConnectorsProofs** — `TypeCorrect`, `RetryBudgetsAddUp`, `HooksCatchUp`,
  `RowKeepsTheGrant`, `ValueSentOnce`. Attempts (`BudgetInv`): sent and left add up to the
  policy's, plus one from the decision to refresh on. Hooks (`HooksInv`): if requests did
  not overlap, what the registry and the tools hold beyond the rows is at most what the
  request between its commit and its hook is about to put right. The grant (`GrantInv`):
  a provider that rotates takes a token back only from the call that presents it, and the
  tokens form a chain in which each is accepted or its successor is about to be stored
  (`ChainInv`). What a call is about to store is not in the row and no other call's
  (`HeldInv`), so a commit that finds the row at the token it presented moves the row one
  link on; calls that start from a sibling's uncommitted token, or present a used one
  again, only add links or are refused. That values are sent once is a fact about
  `Requests` alone: the buckets are disjoint from each other and from the path, and what
  each part of the request takes from the caller is in its bucket.
* **ServiceProofs**, Accounts — `LoginHasOneLiveToken`, `CodeIsSingleAndCapped`. Rows are
  numbered without a gap, so a new one is new and starts its own login; a request carries
  rows that exist; the guesses compared with a code are at most what its row counts, which
  a commit over a changed row (`hist`) would undo.
* **ServiceProofs**, Providers — `CallTypeCorrect`, `CallInvariant`, `ShownOnce`,
  `ClosedIsSettled`. The attempts to come have left no trace (`FreshInv`); what is shown
  under a message id is in order and is what the turn's parts and blocks hold, the chunks of
  earlier rounds before those of the round at hand (`RoundInv`, `ShownInv`); what an end
  makes of it is an excerpt in that order, and where nothing cuts it all of it (`Told`); a
  row written before the turn is over is a fragment that ends where a round began
  (`FragmentInv`); only the end of a call stores a message for good, one that is `Told`
  (`FinalInv`). `ShownInv` has one lemma per kind of step, since the four providers put
  a round together in different ways.

Left to TLC, out of the prover's reach: liveness under fairness (`EventuallyUnlocked`,
`StaleListingDropped`, `RunningEnds`, `ApprovedEventuallyRuns`, `ClosingEventArrives`,
`NodeEnds`, `CallEnds`, and the violated `AnsweredRunFinishes`) and anything that needs
ENABLED. Every safety property of the passing runs is a theorem.

The type invariants of TurnLock, RunEvents, FlowRun, ChatTurn, Connectors, Schedules and
Providers are theorems and not part of the runs. The proofs about Iteration, Stream and
Accounts have what typing they need in their invariants (`Shape`, `Bounded`). Two
components that share a module of proofs share neither variables nor constants: each
theorem is about the specification it names.

## 5. Plan

In this order; each step keeps what is there checked.

1. ChatTurn's abstract lock as what TurnLock implements, until time runs out.
2. Pure algorithms of the flow service: definition validation, input coercion.

## 6. Not modelled

* Vector search and similarity, password hashing and signing, storage and media, voice:
  I/O or arithmetic of a library, with no protocol of the repository's own.
* CRUD over single rows with no protocol between the calls (agents, providers,
  permissions, conversations), the `is_active` flags of connectors and operations, usage
  accounting and price arithmetic, auto titles, the wording of prompts and messages.
* `validate_definition` and the coercion of a flow's inputs: a flow, a rule and its inputs
  are valid in the models. Cron parsing, time zones and daylight saving: an expression is
  the set of its fire times.
* The content of structured output, the live events of built-in tools, `compact` and `count_prompt` of
  the router: a compaction happens whenever it is allowed, not when a token estimate says
  so.
* The content of a human answer, so that a redelivered resume that answers a later pause
  with the old answer is not seen.
* In Wire, a turn that outlives its lock and stores results behind a later user row: what
  such a turn can do is in TurnLock and ChatTurn.
* The wrapper around host callbacks (`jobs.py`) and the choice of the next agent, which is
  the host's.

HTTP services, identity providers, LangGraph, Celery, Redis and PostgreSQL are external:
they appear as what the code relies on (a superstep, a redelivery, a command, a commit
with a unique constraint).
