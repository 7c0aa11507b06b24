# Formal model of the multi-agent operations platform

TLA+ modules, TLC configurations and TLAPS proofs about `src/ops_agent`: its
concurrent core, and the services around it that keep state. File names below are
relative to that directory; `SA` stands
for `runtime/subagents.py`, `GOV` for `runtime/governance.py`, `LOOP` for
`runtime/agent_loop.py`.

## 1. The system and its parts

The platform answers questions of business users with a coordinator agent that
calls tools and delegates to specialist agents. One or more API processes serve
HTTP; sub-agent workers run in processes of their own; everybody shares one
PostgreSQL database and, when configured, one Redis.

| Component | Where | State | Operations | Hard because |
|---|---|---|---|---|
| Sub-agent tasks, queue backend | `SA`, `GOV`, `runtime/subagent_worker.py` | a task row (status, owner, lease, attempt); in memory: the copy an executor holds, its cancellation flag, the heartbeat thread | submit, claim, heartbeat, requeue expired leases, execute (prepare, agent, finalize), cancel | API calls, workers and recovery read a row, compute and write the whole row back |
| Sub-agent tasks, inline backend | `SA` | the same row; futures, flags and a semaphore of one event loop | submit, run, cancel, shutdown | nothing recovers a row after a crash |
| Turn coordination | `runtime/session_coordination.py` | a lease per session, a result per Idempotency-Key | acquire, renew, release, get and put result | leases lapse; retries race the first request |
| Agent runtime | `LOOP`, `runtime/tools.py` | a turn's messages and pending calls, the event log, the live hub | query, stream, resume, interrupt, decide an approval | four kinds of request run the same graph over one log |
| Approvals | `GOV` | one record per gated call | create, decide, list pending | decided by one request, executed by it, counted by others |
| Event log | `runtime/session_events.py` | events with gapless sequence numbers | append, list, delete | the only shared memory of a session |
| Stream slots and live hub | `api/app.py` (`start_stream_worker`), `runtime/agent_loop.py` (`SessionLiveHub`) | free slots, running turns, subscribers | start, refuse, attach, end | three things to give back on every path |
| Turn graph, intent router, context window | `LOOP`, `runtime/intent_router.py` | messages and pending calls of a turn | route, call the model, correct its reply, execute tools, cut the window | the model's reply is rewritten before it runs |
| Tool policy, agent registry | `agent_registry.py`, `runtime/agent_tool_policy.py` | agents in memory and stored, capabilities, the snapshot of a session | edit agents and capabilities, start a turn, submit a task | what is allowed changes while a turn goes on |
| Connector runtime | `runtime/connectors.py` | per connection: client, failure counter, circuit, throttle | execute, invalidate | state dropped while in use |
| Connections, bindings and scopes | `connections.py`, `runtime/connectors.py`, `connector_control_plane.py` | connections, the selected binding, the worker's copy, captured scopes | create, patch, delete, bind, delegate, read | a scope is computed from three sources at different times |
| MCP client | `runtime/mcp_client.py` | a queue and a serve task per server | start, call, stop | threads and event loop meet in futures |
| Memory | `runtime/memory.py`, `runtime/memory_worker.py` | items, vector index, outbox | create, confirm, reject, correct, forget, maintain | two stores without a common transaction |
| Accounts | `accounts.py` | accounts, refresh sessions | register, log in, refresh, change password | counters read and written in two transactions |
| Access control | `access_control.py` | users, groups, rules, assignments, grants | save, move, unbind, delete, migrate at start | a check and its write are two transactions, a derived table is kept by hand |
| Model registry and router | `model_registry.py`, `runtime/model_router.py` | models in memory, two files, adapters of the router | create, update, delete, resolve, route, retry | three copies of one configuration, swapped one after the other |
| Skills | `agent_skill_store.py`, `runtime/skills.py` | rows, the registry of a process | seed, scan, write, delete | scans and writes overlap |
| Results and attachments | `runtime/result_store.py`, `runtime/attachments.py` | stored results, image files | put, delete a session, upload | a log refers to what other stores keep |
| Knowledge spaces | `knowledge_spaces.py` | spaces, their file | create, update, delete | two registries with a lock each |
| Sandbox, knowledge gateway, workflow tools, frontend, scripts | see section 8 | none shared | | |

How they interact: an API process starts a turn under the session's lease; the
graph asks the model, executes tools and appends events; a delegation tool
inserts a task row, which a worker claims and runs as a turn of a child session;
cancel and interrupt reach a running task through its row (queue backend) or
through an in-memory flag (inline backend); a gated call ends the turn and
waits for a decision, and the request that decides it executes the call and
goes on with the graph.

What makes each part correct:

- tasks: one worker at a time, no task stuck or lost, bounded retries, a final
  status that stays, a cancel that concludes, the parallel limit;
- turns: one turn of a session at a time, a retry asks once, an interrupt
  reaches the run, the lease becomes free, no call left without a result, the
  model sees every result;
- approvals: a gated call is executed once, and only when approved;
- a turn by itself: a task the model delegates is submitted once, what the model is
  sent is a legal conversation, a stream gives back its slot and its lease;
- tools: nothing runs that was not switched on and granted, a sub-agent reads
  nothing its parent may not;
- connectors and MCP: a broken service is left alone, no client with old
  credentials is used, a call is sent once;
- memory: what was forgotten stays erased, and index and store agree in the end;
- accounts and access: a refresh token has one successor, a new password ends the
  old sessions, an administrator remains, a tool has one rule in a group;
- configuration (models, skills, spaces): what is saved is in force, what is named
  exists;
- data of a session: what a log refers to can be read, and goes with it.

`PROJECT.json` lists the hazards of this code at their lines.

## 2. Modules

| Module | Models |
|---|---|
| `SubagentTasks` | the task row, submit, the executor graph (`LangGraphSubagent`) and cancel, each read and each write a step of its own; shared by both backends |
| `SubagentQueue` | `SubagentTasks` with workers: claim, heartbeat, lease expiry, recovery, crash |
| `InlineSubagents` | `SubagentTasks` with coroutines of one event loop: dispatch, semaphore, flags, shutdown |
| `SubagentLifecycle` | abstract: the documented status machine with the parallel limit |
| `SubagentQueueProofs`, `InlineSubagentsProofs` | theorems about `SubagentQueue` and `InlineSubagents` |
| `SessionTurns` | queries, streams, resumes, interrupts and approval decisions of one session over its log, with leases, crashes and errors |
| `SessionTurnsProofs` | theorems about `SessionTurns` |
| `StreamSlots`, `TurnLoop`, `ToolPolicy`, `SessionData` | around a turn: its worker slot and subscribers; its graph, delegations and window; the tools it may call; the results its log refers to |
| `ConnectorCircuit`, `ConnectorScopes`, `McpClient`, `ModelRouting` | the ways out: the circuit breaker of a connection; what may be read through it; an MCP server; the model service |
| `MemoryIndex`, `Attachments`, `KnowledgeSpaces`, `SkillCatalog` | what is kept: memories and their index; images; spaces; skills |
| `Accounts`, `AccessControl` | who may use it: accounts and refresh tokens; groups and rules |
| `AccountsProofs` | theorems about these two |
| `TurnLoopProofs` | theorems about `TurnLoop` |
| `RuntimeProofs` | theorems about `ConnectorCircuit`, `ConnectorScopes`, `ToolPolicy`, `StreamSlots` and `McpClient` |
| `StoresProofs` | theorems about `Attachments`, `KnowledgeSpaces`, `SkillCatalog`, `SessionData`, `ModelRouting` and `MemoryIndex` |
| `MCSubagentQueue`, `MCInlineSubagents`, `MCSessionTurns`, `MCPlatform` | instances for TLC |
| `PlatformProofs` | theorems about `MCPlatform`, all services together |

`SubagentQueue` and `InlineSubagents` extend `SubagentTasks`; both implement
`SubagentLifecycle` (property `FollowsLifecycle`, stated for behaviours without
a cancel call, since a late cancel leaves the status machine, section 6).

### SubagentTasks, SubagentQueue

`row[t]` is the JSON payload of a task: status, `worker_id`, lease and attempt.
A lease is none, live or expired instead of a timestamp. `exec[e]` is what an
executor holds in memory: the stage in the graph, the task, the copy of the
record, the cancellation flag, and whether the heartbeat runs. `caller[c]` is
one call of `SubagentManager.cancel` between its three reads and its writes.
`checking` is the section under `_submission_lock`; `announced` are the events
written for a task. The code copies a pydantic record and later stores the copy
with an unconditional UPDATE; so `Prepare` reads, `Mark` writes, and `Save` writes
a record derived from the first read, whatever happened to the row since.
`claim_next_task`, `renew_lease` and `requeue_expired_leases` run in one
transaction with row locks and are one step each. An agent run is the single
step `AgentReturn` with any outcome: its inside is a turn of a child session.
`Abandon` is a crash or a raised error; the worker restarts idle.

With `Stalls = FALSE` a lease expires only when nobody alive renews it, that is,
heartbeats are on time and no renewal raises; with `Stalls = TRUE` it may expire at any
moment, and `HeartbeatFails` ends the heartbeat thread, in which nothing catches an error
of `renew_lease`.

### InlineSubagents

Coroutines share the semaphore of the event loop. `CancelSignal` sets the flag
in `_cancellations`; `Shutdown` and `StopLoop` model `SubagentManager.shutdown`.

### SessionTurns

One session, many requests. `run[r]` is where a request is in the code, the calls
and results among its messages, the calls still to be handled, its cancellation
event and status. `log` keeps of the event log what `turn_is_open`,
`_restore_messages` and `_fill_missing_tool_results` read in it: whether the turn
is open, whether the last message is an answer, the calls of all responses and
of the last one with calls, and the calls with a result. `approval` are the
records of `GOV`; `executed` counts handler starts; `hub` is the control the
`SessionLiveHub` of each process holds; `holder` and `stored` are the
coordinator's lease and results. The order of calls within a response is not
kept: any order is possible. The intent router and the model may issue any set
of new calls. A tool whose timeout passes sets the run's own cancellation event,
as the executor does. `Fail` is a raised provider or store error, unwinding to
the handler that would catch it; `Crash` ends a process with all its requests.

Deliberately coarse: `BeginQuery` and `BeginResume` merge `live_hub.begin` with the read of
the log that follows; a decision's record and its `approval.decided` event are
one step.

### Around a turn

`StreamSlots`: `strFree` is the semaphore of `start_stream_worker`, `strLease` the
lease of a session, `strInflight` and `strSubs` the hub, `strReq[r]` a request
together with the thread it starts. A query takes lease, then slot; a resume
attaches to a running turn or runs one without a lease. Every refusal is a step.

`TurnLoop`: `tlTurn` is the state of the graph at its nodes. `IntentOff` to
`IntentPlan` are the outcomes of the intent router, `Accepted` its validation of a
plan; `Canonical` and `Normalized` are `_canonicalize_delegation_arguments` and
`_normalize_specialist_delegations` as functions of a reply; `Window` is
`_apply_context_window` as a function of the messages, which drops exchanges from the
front. A message has a role, a size and, for a result, its call. A turn begins with a
question (`TlBegin`), or goes on without one: after a decision, whose result is appended
after whatever was asked while it was pending (`TlDecided`), and when it is resumed
(`TlResume`).

`ToolPolicy`: one user, the coordinator and one specialist, one tool of every kind
the policy tells apart. `tpAgents` and `tpStored` are the registry and its table,
`tpCreated` the snapshot in `session.created`, `tpTask` the record of a delegated
task. `tpWorker` is what the worker process loaded when it started: agents,
capabilities, connections and tools; `Host` is what the process has that runs a turn.
Only the rules of the user are read from the database every time, so a tool that was
switched off since the worker started still runs there. `Granted`, `Offered`,
`AgentTools` and `Merged` are the layers of the policy; `Rebuild` is what a decided
approval does to them.

`SessionData`: the log and the results of a session and of its sub-agent;
`DeletePart` deletes one table of one session. `sdTainted` are the sessions
deleted while they ran or not to the end.

### The ways out

`ConnectorCircuit`: `_states` holds a state object per connection, which
`invalidate` drops while threads still wait for its lock; so `cirState[n]` is an
object and `cirCurrent` the one that is found. Credentials, definition and client
are versions.

`ConnectorScopes`: `scConn` and `scSel` are what the API process knows, `scCopy`
what a worker read when it started, `scCreated` what a session captured,
`scTurn[s]` the scope a turn runs with. Tools differ in whether they read the list of
resources they may (`Read`) or name one (`ReadResource`). When boundary, binding and
scope have nothing in common, the second kind refuses; the first is left with an empty
list, which `lingxing_profit_tool.py` and `query_tool.py` take for no restriction.

`McpClient`: the thread that starts and stops, the event loop, `_serve`, the
coroutine of a call and the thread that waits for it are an actor each.

`ModelRouting`: `modMem`, `modFile`, `modSecret` and `modRouter` are the four places
a configuration is in; a change writes them in this order, and then reloads the registry from the
files: `ReadModels` reads them and `AssignModels` puts what it read (`modRead`) in
force, two steps, as no lock is held. Changes overlap; `modOverlap` says that they did, until the
next change is made alone or the process restarts. A turn resolves a model once and routes at every
call.

### What is kept

`MemoryIndex`: one transaction is one step. `memCall[c]` is a call of
`MemoryService` with the rows it has read and what it has still to do; a
supersede or a scrub writes such a row back. Calls overlap: `memBeside` counts those
that began while another was under way. `memGone` and `memOthers` are history: the items
scrubbed while no other call had a copy of them, and what was written beside a
confirmation. `memIndex` is the status in the
payload of a point, `memJobs` the failed rows of the outbox. The index and the
embedder may fail (`MaxMemFaults`).

`Attachments`: an upload looks for the image, opens and writes a temporary file,
renames it, and then truncates the metadata (`TruncateMetadata`) and writes it from the
start (`WriteMetadata`); the temporary file has the name of the process, so that
threads share it. The metadata holds the name that came with the upload, so its length
differs: of a longer text the end stays when a shorter one is written over it. `KnowledgeSpaces`:
each request checks in one registry and writes in the other, and any of them may come between;
`knRaced` are the connections on which a request that deletes one and a request that gives it
to a space met. `SkillCatalog`: rows, the cache a scan builds, and the
description of `load_skill`, assigned one after the other.

### Who may use it

`Accounts`: each request is a sequence of transactions, `accCall[c]` is between two
of them. Passwords and tokens are numbers; `parent` of a token is the one it was
exchanged for, and `late` marks one that escaped a revocation. The write of a password and
the revocation are two of the transactions: between them the process may die, or the
database raise (`Dies`), and nobody revokes afterwards. `overtaken` marks a request that another one
came before since it checked the accounts. `AccessControl`: `CheckRule` and `PutRule` are the two
transactions of a save. A move is one transaction that keeps no lock on what it reads, so its
statements are steps: `BindRule` reads the tools, `DeleteAssigned` deletes (and locks) the
assignments it finds, `WriteBound` writes those of the tools it read; likewise `UnbindRule` and
`WriteUnbound`. Others that need a locked row wait (`Locked`); `MoveFails` is an error or a
deadlock that the database breaks. `acLoose` are the rules whose assignments do not follow
their tools: overtaken while they moved, or unbound from a group they are not in. `RestartStore` builds `acAssign` anew from the rules as
the migration does.

## 3. Runs

| Run | Instance | Shows |
|---|---|---|
| `queue_safety` | 3 tasks with room for 2, 2 workers, 1 cancel call, 1 crash, 2 attempts, heartbeats on time | at most one worker per task (`SingleExecutor`), every active task recoverable, attempts never rewound, an ended task changed only from a stale copy, the lifecycle implemented |
| `queue_liveness` | 2 tasks, 1 worker, 1 cancel call, 1 crash, under fairness | every task ends for good |
| `queue_stalls` | 1 task, 2 workers, 1 crash or failed renewal, leases may expire at any time | a worker that lost its task learns of it although its agent may never return, unless its heartbeat ended in an error |
| `queue_cancel_late` | 1 task, 1 worker, 1 cancel | a counterexample to `EndedIsFinal` |
| `inline_safety` | 2 tasks, room for one to run, 1 cancel call, 1 shutdown or failed call, under fairness | an early cancel decides the task; every task ends although one runs at a time |
| `inline_stuck` | 1 task, 1 cancel | a counterexample to `CancelConcludes` |
| `turns` | 2 queries with one key (one plain, one stream), 1 resume on another process, 1 call, 2 faults | queries exclude each other, a retry asks once, a query can be interrupted, the lease becomes free |
| `approvals` | 1 stream, 1 resume, 2 decisions, 1 gated and 1 ungated call, 1 fault | a gated call runs at most once and only when approved; no result is lost without a fault |
| `turns_overlap` | 1 stream, 1 resume on another process | a counterexample to `TurnsSerialized` |
| `approvals_overlap` | 1 query with 2 gated calls, 1 decision | a counterexample to `ModelSeesResults` |
| `platform` | the fourteen services of the table below, one after the other | their properties |
| `scope_widens` | 2 connections, 2 resources, 4 changes | a counterexample to `ScopeOnlyNarrows` |

`MCPlatform` puts services that share no state side by side: `service` is chosen in
the initial state and only that service moves, so that one run of some 690,000
states checks them all without their product. States are told apart by the variables of
their service (`VIEW OwnState`), since those of the others keep their initial values. Each service has an instance and
properties of its own:

| Service | Instance | Properties |
|---|---|---|
| `MemoryIndex` | 2 items that conflict, 3 requests and the worker, 1 fault; besides 1 of: an overlapping call, an expiry, a change of the embedding model | `ErasedForGood`: nothing brings a forgotten memory back but a call that had a copy of it; `PointsConverge`: in the end the index agrees with the store, if no calls overlapped; `ReplacedAtOnce`: a confirmed item replaces its group, but for what others write meanwhile |
| `Accounts` | 2 users, 3 requests of which 2 overlap, 3 tokens, 2 passwords | `RotatedOnce`: a refresh token has one successor; `OldSessionsEnd`: a new password ends older sessions, unless its request died before the revocation; `AdminRemains`: only a request that was overtaken takes the last administrator away |
| `AccessControl` | 1 user, 2 groups, 1 tool, 2 rules, 1 save and 1 move that overlap, 6 requests and restarts | `OneRulePerTool`: no two rules of a group share a tool; `NothingInherited`: nothing refers to what was deleted; both but for `acLoose` |
| `StreamSlots` | 1 session, 3 requests, 2 slots | `NothingHeld`: at rest nothing is held; `StreamsEnd`: every stream ends |
| `ModelRouting` | 2 models, the id of one begins with that of the other, 2 changes that may overlap, 1 retry, 1 crash | `RouterCurrent`: a saved configuration is in force, also after a crash inside a save, and whatever overlapping changes left is set right by the next; `ResolvedRuns`: a turn reaches the model it resolved, or with an image one whose id begins with it |
| `ConnectorCircuit` | 2 threads, threshold 2, 1 retry, 1 update | `CircuitHolds`: a failing service is called a bounded number of times; `ClientFresh`: no call with older credentials than at its start |
| `ConnectorScopes` | 2 connections, 1 resource, both kinds of tool, 2 changes, 1 restart, a worker | `RecordedScopeHolds`: a recorded scope is never left, except by a list tool with nothing left |
| `ToolPolicy` | 2 changes, 1 turn, a worker with copies of its own | `CallsAllowed`: what runs was granted, and switched on in its process |
| `SkillCatalog` | 2 skills, 1 shipped, 2 requests, 1 crash | `BuiltinStays`: a shipped skill is neither deleted nor made a custom one |
| `SessionData` | 1 result per session, 1 fault | `ResultsResolve`: a log refers to results that exist, and they go with it |
| `KnowledgeSpaces` | 2 spaces, 2 connections, 3 requests that may overlap, 1 fault | `SpacesConnected`: a space names a vector database that exists, unless it was given away while it was deleted |
| `TurnLoop` | 2 steps, 6 messages, 4 single delegations | `DelegatedOnce`: a task asked for is submitted once; `WindowWhole`: the window is a legal conversation within its limits, except results that came after a later question |
| `Attachments` | 3 uploads, metadata of 2 lengths, 1 crash | `ImagesResolve`: an image in a log can be read |
| `McpClient` | 3 calls | `SentOnceBeforeStop`: a call is sent at most once, never after the stop |

Why the bounds suffice. Tasks only meet in the parallel limit and in their
executors: three tasks with a limit of two refuse one and leave two workers a
choice (symmetric tasks and workers are identified, with safety properties only);
two workers are what a takeover needs; two attempts give one retry and one
refusal. A stale write needs one party that reads and one that changes the row in
between, which one task and one cancel call provide. Two queries are one retry;
one resume and one query are the smallest overlap; two decisions are the
smallest race for one approval (`approvals`), and a decision beside the query that is still asking
is the smallest for the last pending one (`approvals_overlap`). Around them the pattern repeats: two
parties that read and write, a third where an order among the first two is
needed (three uploads, three tokens, three memory requests), one fault, one
crash. `TlKeep`, `TlMessages` and `TlChars` are small enough for every branch of
the window to be taken. `MaxAbandons` and `MaxFaults` bound
crashes; the theorems of section 5 hold for any number. `CHECK_DEADLOCK FALSE`
is set where the system may stop: every request served, every task ended.

Constants that state an assumption, and what happens without it. Whatever else may overlap,
fail or be configured is in the models, and where the code then breaks a promise, the
property names the case and forbids every other:

| Constant | In the run | Otherwise |
|---|---|---|
| `Stalls` | `FALSE` except in `queue_stalls` | two workers execute one task; two queries overlap; a heartbeat ends in an error |
| `ScWorker` | `TRUE`: sub-agents run in a worker that read the configuration when it started, which `README.md:267` asks to restart | `FALSE` is the inline backend |
| `TlRoom` | the objectives of 2 tasks fit into one | objectives beyond 4000 characters are cut (`_canonicalize_delegation_arguments`), so what is asked and what is submitted differ |

Each property of a passing run has a mutant in `PROJECT.json`: a variant of one
operator, kept beside the original (`Claim_Running`, `Store_Completed`, ...),
under which the run fails.

## 4. Fairness

Sub-agents: a worker's loop, its graph steps and its heartbeat are threads that
the operating system schedules, so each is weakly fair; a submitted request goes
on; an expired lease is found because every worker polls. The inline semaphore admits waiting
coroutines in order, which strong fairness of a coroutine stands for. `BeatSpec`, used
by `queue_stalls`, assumes fairness of the heartbeats alone, so that nothing rests
on an agent run coming to its end. No fairness is assumed for starting a submit or a
cancel, for crashes or for shutdown. Turns: a request in progress goes on, and
the lease of a dead process lapses when its TTL passes (`session_lock_ttl_seconds`).
No fairness for starting requests, interrupts, decisions or faults. Memory
(`MemFairness`): a call in progress goes on, and the maintenance worker runs
again and again, as `memory_worker.py` loops; requests and errors are free, and errors
are bounded below the attempts of the outbox. Streams: the thread of each request goes
on (`StrStep`); tokens need no fairness, as they are left out. The other
services have safety properties only, under no fairness.

## 5. Proofs

Each theorem holds for every value of the constants under the assumptions the modules
state on them, that is, for any number of processes, requests, tasks, crashes and faults,
however they overlap. The two constants that stand for an assumption are `Stalls`, which
the properties name, and `TlRoom`; the third column lists the hypotheses of theorems.

| Module | Theorems (property) | Assumes |
|---|---|---|
| `SubagentQueueProofs` | `Typing`, `BoundedAttempts`, `OwnedWhileActive`, `EndedRowsKept` (`EndedUnlessStale`), `OneExecutor` (`SingleExecutor`), `AlwaysRecoverable` (`Recoverable`), `AttemptsKept` (`AttemptsNotRewound`), `QueueImplementsLifecycle` (`FollowsLifecycle`) | `QueueImplementsLifecycle`: one API process |
| `InlineSubagentsProofs` | `EarlyCancelsDecide` (`EarlyCancelDecides`), `InlineImplementsLifecycle` (`FollowsLifecycle`) | one API process (`InlineAssumption`) |
| `SessionTurnsProofs` | `TurnsTyped`, `GatedOnce` (`GatedCallsRunOnce`), `OneQuery` (`QueriesSerialized`), `QueryInterruptible` (`Interruptible`), `KeysAskedOnce` (`KeyAskedOnce`), `NoCallIsLost` (`NothingLost`) | |
| `TurnLoopProofs` | `WindowStaysWhole` (`WindowWhole`), `NoneTwice`, `DelegatesOnce` (`DelegatedOnce`), `GraphTyped` | `DelegatesOnce`: `TlRoom >= 2` |
| `AccountsProofs` | `TokensRotateOnce` (`RotatedOnce`), `OldPasswordsEnd` (`OldSessionsEnd`), `AnAdminStays` (`AdminRemains`); `ToolsHaveOneRule` (`OneRulePerTool`), `NothingDangles` (`NothingInherited`) | |
| `RuntimeProofs` | `ClientsFresh` (`ClientFresh`), `CircuitLimits` (`CircuitHolds`), `ScopesHold` (`RecordedScopeHolds`), `ToolsAllowed` (`CallsAllowed`), `NothingLeaks` (`NothingHeld`), `CallsSentOnce` (`SentOnceBeforeStop`), `McpClientTyped` | |
| `StoresProofs` | `ImagesKept` (`ImagesResolve`), `SpacesNamed` (`SpacesConnected`), `ShippedSkillsStay` (`BuiltinStays`), `ResultsKept` (`ResultsResolve`), `RouterFollowsFiles` (`RouterCurrent`), `TurnsReachTheirModel` (`ResolvedRuns`), `ForgottenStaysForgotten` (`ErasedForGood`), `ConfirmedAlone` (`ReplacedAtOnce`); `SpacesTyped`, `SkillsTyped`, `ResultsTyped`, `ModelsTyped`, `MemoriesTyped` | |
| `PlatformProofs` | `ServicesRun`, `PlatformTyped` (`PlatformTypeOK`), `AccountsKeep`, `RuntimeKeeps`, `PlatformKeeps` (together all safety properties of the run `platform`) | `TlRoom >= 2` for `DelegatedOnce` in `PlatformKeeps` |

### Sub-agent tasks

- `WellFormed` strengthens `TypeOK`, `AttemptsBounded` and `OwnedOnlyWhileActive`:
  the row is well formed, and so is every copy of it that an executor or a cancel
  call will write. Without the second half an unconditional write could bring back
  anything. It does not need heartbeats on time.
- `Genuine`: who works on a task or cancels it found it submitted (`Present`), and what
  a cancel call will write comes from an active record (`SnapsActive`). So a step that
  changes an ended row is the write of a copy read while it was active: `EndedRowsKept`.
- `Custody` adds what holds while heartbeats are on time: an executor at work owns
  its row (`Held`), two executors never hold one task (`OneWorker`), every active
  row has a lease (`Leased`), copies on their way to the row agree with it as far
  as owner and lease go (`GoodMarks`, `GoodCancels`, `Fresh`). Each step of a worker
  keeps its own part, and the copies carry it over the unconditional writes.
- `Ordered` adds `Newest`: no copy counts more attempts than the row it will meet, unless
  the row is older than the mark about to replace it. It gives `AttemptsKept`.
- `Plain`: as long as nothing was cancelled, the status follows from where the executor is, and
  a submission under way has room for its task (`RoomLeft`, an argument on the cardinality
  of the active tasks: the check and the insert are two steps, and only the lock of the
  process keeps them together). With more API processes the limit is exceeded, hence the
  hypothesis. `QueueImplementsLifecycle` then maps every step to a step of
  `SubagentLifecycle` or a stutter; steps after a cancel call map to nothing, as
  `FollowsLifecycle` says.
- Inline backend: `Moves` says what a step does to each task, and `Sound` that a task is submitted
  once and has one coroutine, which starts after the row was inserted. `Decided` is what a flag
  set early leaves: the row is in no final status but `cancelled`, and the coroutine has the flag
  or is about to save `cancelled`; neither an unconditional write of the cancel call nor one of
  the coroutine leaves it, so `EarlyCancelsDecide` needs no assumption on who writes last.
  `InlineImplementsLifecycle` goes as above: `Followed` reads the status off the stage of the
  coroutine, through shutdowns, which set flags without touching a row.

### Session turns

- `WellFormed` adds to `TypeOK` that a request about to record a result has a call
  at hand.
- `Gate` strengthens `GatedCallsRunOnce`, which alone is not inductive: approval
  records exist for issued gated calls only (`RecordsAreIssued`); a call still to be
  handled has no record yet and belongs to one request (`TodoIsOwned`), so a
  pending record is never reopened; a decision about to act has a decided, not yet
  executed call to itself (`DecisionIsOwned`), because `decide_approval` refuses a
  second decision. The
  invariant rests on fresh call ids, not on the lease, so it survives overlapping
  runs.
- `Leased`: while leases are renewed, a query that is served holds the lease. On it rest
  two more: `Controlled`, from `live_hub.begin` to `live_hub.end` the hub has the query
  that works, and `Once`, a key that was asked has its result stored or the query that
  asked is yet to store it, so the next one that acquires the lease finds it.
- `Kept`: each issued call has a result, waits for a decision, or is one that some request
  is about to handle (`Holds`), and an open turn is worked on by a query. Each step
  hands on what it held (`HandsOn`).

### The graph of a turn

The invariant `TlInv` is short; the work is in what the operators of `TurnLoop` return for every
input. A fact about each prefix of a sequence, or each number of dropped exchanges, is
proved from the first one without it (`Least`, by `WFMin` of `WellFoundedInduction`), since the
library's induction theorems cannot be used.

- `Whole` says that messages start with a question and that each result follows the message
  that issued its call. A suffix that starts at a question may have lost that message, but only
  if a question came between the two, which is what `WindowWhole` excepts (`Late`: the result
  of an approval that was decided after another question). `Recent` and `DropOldest` return
  such suffixes (`RecentOpens`, `DropOpens`), and
  each exchange dropped takes one question, so that `Window` ends within the limits or
  with one question (`WindowGood`). The steps of the graph only append a reply, or the results of the
  last one (`JoinWhole`).
- `SoundCalls` says that no two tasks of a reply share an objective of one agent. What the
  model, its corrections and the intent router produce is sound (`GivenSound`,
  `PlanSound`); merging and batching keep it and lose nothing (`MergedTasks`,
  `NormalizedCalls`); the submissions are then distinct (`SubmittedCalls`). All of these rest on
  `Flattened`, about the concatenation of sequences.
- `TlRoom >= 2`: a call of the model asks for two objectives of one specialist at most. With
  less room the merge drops the second one, in the code as well (4000 characters); `NoneTwice` holds
  all the same.
- The filter keeps what was asked, because who does not see every tool does not see
  `delegate_specialists`, into which single delegations are batched (`ShownTasks`).

### The ways out, and what a turn may use

- `McpClient`, `McpIInv`: a call is in the queue at most
  once and only before it is sent, `_serve` has a call it took from the queue, an
  answer belongs to a call that was sent, and a loop that has stopped has no task.
  A call sent twice would need it in two of these places.
- `ConnectorCircuit`, `CirIInv`: the lock of a state object has one owner (`CirOwned`), and
  the calls counted in a row are tied to the failure counter while the circuit is
  closed and to the attempts the owner has left when it is open (`CirCounted`), also for
  an object that `invalidate` dropped. `CirFresh` needs only that credentials move on.
- `ConnectorScopes`, `ScIInv`: the scope in the record of a task lies within that of its
  parent when it was delegated (`ChildNarrowed`); nothing is known of the worker's copy, and
  nothing need be. What a tool reads is part of the invariant too, as it depends on boundary and
  binding of the moment: it lies within the scope, or the tool reads a list and nothing is left.
- `ToolPolicy`, `TpIInv`: the tools of a turn lie within what was granted when it began,
  those of a task within what was granted when it was submitted, whatever the layers
  in between hold by now, and whatever the copies of the worker hold (`HostsHaveCopies` is all that is
  known of them).
- `StreamSlots`, `StrIInv`: the free slots and the requests that hold one add up
  (`SlotsCounted`, on cardinalities), a leased session names a request on a path that
  releases it, the hub knows a session only while a turn of it runs.

### What is kept

- `Attachments`, `AtIInv`: whichever file a thread has open is the only one that
  may be partial, the object comes before its metadata and both before anything refers to
  the image (`Written`: metadata that is cut off is being written, or was torn or mixed).
- `KnowledgeSpaces`, `KnIInv`: what a request found when it looked still holds when it writes
  (`Looked`), but for a connection on which it met another request, which is then in `knRaced`
  (`OnePerRequest`).
- `SkillCatalog`, `SkIInv`: the flag a request is about to write is the one its row still
  has (`Carried`): no step ever changes the flag of a row, only the text.
- `SessionData`, `SdIInv`: what a turn is about to record is stored (`SdLogged`), and a
  deletion takes the log before the results.
- `ModelRouting`, `ModIInv`: a change that begins alone, after none or after the others are
  done, ends what overlapping ones have left; until the next that does not, what is written between
  its four writes agrees so far with what a restart would load, and what a reload has read is what it
  will find in the file when it assigns (`Serial`, `InOrder`). A turn resolved in a quiet moment can
  still be routed, and to another model only with an image and by a prefix (`CalmTurn`).
- `MemoryIndex`, `MemIInv`: an item in `memGone` is empty in the store, and whatever any call
  is still to write back of it is empty (`StaysGone`, `Harmless`, by stage of the call): it was
  scrubbed when no call had a copy, and every copy made from then on is of an empty row.
  `ReplacedAtOnce` is proved from it and `AllReplacing`: the members a confirmation has
  not yet superseded are still on its list, or were written by another call since.
- `MemTyping` gives the types of `MemoryIndex`. The types alone are not inductive: a call writes the row it carries under the
  item it carries, so it must know its item by the stage at which it writes (`MemPlaced`), and
  a row of the outbox that is picked up must have attempts left.

### Who may use it

- `Accounts`, `Chain`: tokens are
  issued in order, a token with a successor is spent, and a request that is about
  to issue one holds a spent token nobody else exchanges. Spending is one conditional
  UPDATE (`consume_session`), which is why the last part holds whatever overlaps.
  `Rooted`: a live token was issued for the current password, or its
  revocation is still to come, or it is `late`; the same of a token about to be issued
  (`Paid`); and what a request has checked of the administrators still holds when it writes,
  unless it was overtaken (`Ruled`).
- `AccessControl`, `Tables`: an assignment is one of a rule in its group (`Assigned`), a group
  and a tool have one assignment at most (`Keyed`, the primary key), every row refers to rows
  that exist (`Grounded`), and a rule that is absent is blank (`Blank`). `OneRulePerTool` is
  about the rules, not the assignments, and needs the converse of the first part too: a rule in a
  group has all its assignments (`Complete`); with the primary key, no two rules of a group
  then share a tool. Both parts except `acLoose`. `Moving` is what carries them over a move: as long
  as nobody wrote the rule, the transaction knows its tools and has deleted all its assignments.

### All services together

`ServiceSteps`: a step of `MCPlatform` is a step of one service, and `Only` leaves the variables of
the others alone, which is a stutter for them. So every behaviour is one of each service
(`ServicesRun`; of `MemoryIndex` and `StreamSlots`, which state fairness, their `Init` and
steps), and each theorem above holds of the run. `PlatformTyped` collects
the types, and `AccountsKeep`, `RuntimeKeeps` and `PlatformKeeps` the promises: all that the run
`platform` checks, but for its two liveness properties.

TLC checked the inductive invariants on small instances as well.

### Left to TLC

- Liveness and whatever rests on fairness: `EveryTaskSettles`, `UsurpedWorkerIsTold`,
  `LeaseIsFreed`, `StreamsEnd`, `PointsConverge`. The prover has no rules for ENABLED.

Every other property of a passing run is stated by a theorem.

## 6. Where code and documents disagree

- `queue_cancel_late`: `cancel` writes `cancel_requested` over a final record
  (`SA:832`), while `docs/INTERNAL_ARCHITECTURE.md` section 13 has no arrow out of
  a final status.
- `inline_stuck`: the same write on the inline backend leaves the task in
  `cancel_requested` for ever.
- `turns_overlap`: `SessionTurnCoordinator` is there to serialize turns, but a
  resume takes no lease and only looks at the hub of its own process.
- `approvals_overlap`: a response has two gated calls, and the first is decided before the query
  has asked for the approval of the second: the decision finds nothing pending and asks the
  model (`LOOP:2578`), although the second call has no result. Two decisions can do the same when
  one counts while the other has yet to record its result.
- `scope_widens`: `docs/RUNTIME_TOOL_CONNECTOR_LIFECYCLE.md:818` says that delegation
  never widens a scope. `_scope_for_allowed_tools` (`SA:593`) records a dimension only if
  the scopes of parent and tool have something in common; a dimension that is
  missing from the record is no restriction to the tool. `RecordedScopeHolds` is
  the part that holds.

Also seen while modelling, without a run of their own. With `Stalls = TRUE`
`_prepare` can store `running` with the empty lease of a requeued row, which
recovery then skips, and `cancel_requested` can be overwritten by a result; two API
processes exceed the parallel limit, whose lock is of one process. What the properties of section 3
except is what the code does, among it:

- `README.md:392` says that a reset revokes the active sessions. The password and the
  revocation are two transactions (`accounts.py:377-378`), and after a crash between them
  the old refresh tokens stay (`OldSessionsEnd`).
- `README.md:272` says that a saved model configuration takes effect at once, but
  `ModelRegistry.reload` reads the file and later assigns `_models` (`model_registry.py:245`) without
  a lock, in endpoints that run in a pool of threads: of two changes at once the one that read first
  may assign last, and the other model is in the file but not in force until the next change or a
  restart (`RouterCurrent`).
- A call that holds a copy of a memory while it is forgotten writes the content back
  (`ErasedForGood`).
- Two administrators who disable each other at the same time leave none (`AdminRemains`).
- A rule that is saved while it is moved keeps the assignments of its old tools
  (`OneRulePerTool`).
- A tool that was switched off still runs in workers that started before (`CallsAllowed`), and a
  list tool with nothing left to read reads everything (`RecordedScopeHolds`).
- Two uploads of one image under names of different lengths can leave metadata that is no JSON,
  and every later turn of the session fails (`ImagesResolve`).
- The result of an approval that was decided after another question can reach the model without
  its call (`WindowWhole`).

## 7. Plan

1. Done: sub-agent tasks, both backends, their abstract lifecycle; session turns
   and approvals; the services of `MCPlatform`; the proofs of section 5.
2. Left: the parts with status `partly` in `PROJECT.json`: the budgets of a turn, the data grants of
   access control, the model gateway service.

## 8. Not modelled

- The sandbox (isolation by the operating system; one call, one container), the
  knowledge gateway (forwards requests), the workflow query tools and integrations (SQL
  and HTTP without state of their own), the frontend, scripts, migrations and evaluations.
- The separate model gateway service and the translation to each vendor's messages;
  prompts; data policies and redaction, which are pure functions of one row.
- Ranking and searching of memories and knowledge, lists, runs, audit rows and
  metrics: they read, or write what nothing reads back.
- Time: an expiry is a step that may happen, not a clock. The 24 h of a stored
  result, the dates of tokens and the budgets of tokens and seconds of a turn are
  left out.
- `memory.py:642`: `list_items` returns 5000 items at most, so that a compliance
  deletion forgets no more; an instance of that size is out of reach.
