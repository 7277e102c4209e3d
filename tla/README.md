# A verification of kama-core

`kama-core` is the daemon of KamaClaude, a coding agent: clients connect over
TCP, open sessions and send messages; the daemon runs an agent loop against a
language model, executes the tools the model calls after asking for permission,
and pushes events to the clients. This directory holds TLA+ modules of the
daemon's core, the configurations with which TLC checks them, and proofs that
TLAPS checks. Paths below are relative to `src/src/kama_claude/`.

## 1. Inventory

The daemon is **one asyncio thread**. Whatever a task does between two awaits
is atomic, so the interleavings that matter are those at awaits: publications
of events, calls of the model, tools, timers and questions to the user. Every
request line starts a task of its own (`core/transport/socket_server.py:139`),
so requests of one client overlap as those of several do.

| Component | State | Operations | Depends on |
|---|---|---|---|
| Session service `core/session/manager.py` | sessions, a lock per session | create, send_message, close, compact, get_history | store, runner, event bus |
| Session store `core/session/store.py` | `meta.json`, `thread.jsonl`, `notes.md` | write_meta, append, read with trimming, write_compacted | files |
| Agent run `core/runner.py`, `loop.py`, `context.py` | the messages of the run, step, status | plan, act, observe, write back | provider, tools, compactor, store |
| Compactor `core/compact/` | none | summarise a conversation | provider |
| Tool invocation `core/tools/invocation.py` | attempt | validate, ask, execute, retry, report | permission gate, registry, bus |
| Permission gate `core/permissions/` | pending futures, two caches, `policy.toml` | check_and_wait, respond, cancel_session (no caller) | clients |
| Event delivery `core/events/`, `core/transport/ipc_broadcaster.py` | subscribers, subscriptions, `events.jsonl` | publish, subscribe, replay, unsubscribe | sockets, files |
| Subagents `core/subagent/` | background tasks | spawn_agent, agent_result | loop, gate, bus |
| Task manager `core/task/` | `task_N.json` | create, update, list | files |
| MCP client `core/mcp/` | connection, request id, lock | initialize, list, call, close | server process |
| Daemon `core/app.py`, `core/transport/socket_server.py` | running runs, connections | handlers, shutdown | all of the above |
| Clients `tui/app.py`, `cli/commands/`, `core/transport/socket_client.py` | busy flag, prompts, pending futures | commands, event handlers | the daemon |
| Trace `core/trace/` | a queue | emit, drain, stop | files |
| Provider, built-in tools, skills, profiles, config, wire types | none over time | | |

How they meet: a request handler calls the session service; that takes the
session's lock for the whole turn and runs an agent run inside it; the loop
calls the model and `invoke_tool`; that asks the permission gate, which waits
for a `permission.respond` that arrives in another task; all of them publish on
one bus, whose subscribers are awaited one after the other. A tool may be
another agent (`spawn_agent`) or a call to an MCP server. In front of the daemon
stand three clients over the same `SocketClient`; all of them subscribe to the
events of every session.

What is hard in it, and what correctness means:

* **Session service.** Requests for one session may arrive in any order and at
  any await; runs fail, are cancelled, or never start. One task at a time may
  work on a session, its rows must not interleave, what it read must still be
  there when it writes, a closed session stays closed, and the files must be
  usable when the process dies.
* **Agent run.** A conversation may be cut at any point (step limit, error,
  cancellation, `max_tokens`, compaction), is written to a file, and must be
  accepted by the model's API when it is read again: every call with its result.
* **Permission gate.** Answers may be late, repeated, or race the timer; caches
  are shared between sessions and survive restarts. Nothing may be executed
  without consent, and no answer may count for another call.
* **Tool invocation.** Retries happen under one consent; each attempt is
  reported; clients must be told how a question ended; the call must end.
* **Event delivery.** Order, replay without gap, a slow or dead subscriber, a
  file that refuses a line.
* **Subagents.** A foreground child must end with the call that spawned it,
  however that ends; a background child outlives it, and its result must not be
  told before its end is reported. The time limit of the tool also bounds a
  child, a child may raise instead of ending, and a failed child is retried as
  another one.
* **Task manager.** Completing a task rewrites the files of all others, and
  after that its own, from a copy loaded before.
* **MCP client.** A response that comes after its request has timed out or been
  cancelled; servers that never answer, go on sending other lines, ask with ids
  of their own, have the name of another, crash, or survive the daemon.
* **Clients.** Futures and flags that wait for an event which may come from
  another session, before or after the response it belongs to, or never.

The hazards, each at the line where it bites and with the properties that
cover it, are listed in `PROJECT.json`.

## 2. Modules

| Module | What it is |
|---|---|
| `SessionManager` | the session service with the handlers that call it, its files, and shutdown |
| `SessionLifecycle` | what a session promises: the abstract specification `SessionManager` implements |
| `SessionManager_proofs` | theorems about `SessionManager` |
| `PermissionManager` | the permission gate with the policy file, clients and restarts |
| `PermissionManager_proofs` | theorems about `PermissionManager` |
| `ToolInvocation` | `invoke_tool`, composed with an instance of `PermissionManager` |
| `ToolInvocation_proofs` | theorems about `ToolInvocation`, on top of those about the gate |
| `AgentRun` | the conversation of one session: runs, compaction and the thread file |
| `AgentRun_proofs` | theorems about `AgentRun` |
| `Delivery` | the event bus, the broadcaster, `events.jsonl`, subscriptions and replay |
| `Delivery_proofs` | theorems about `Delivery` |
| `TaskManager` | the task board of a run as pure operators |
| `Subagent` | a run's agents, the children they spawn, their results, and their boards |
| `Subagent_proofs` | theorems about `Subagent` |
| `McpClient` | MCP connections, the calls that share them, start-up and shutdown of servers |
| `McpClient_proofs` | theorems about `McpClient` |
| `Clients` | the TUI, `kama chat` and `kama run` over `SocketClient`, with the daemon as they see it |
| `Clients_proofs` | a theorem about `Clients` |
| `MC...` | constants for TLC |

**An action is what one task does from one await to the next**; `pc` (or
`stage`) names the await a task is suspended in. Operators named as
*deviations* in their comments are not part of any specification: they are
plausible wrong versions of the definition they stand before, and each property
is broken by the one listed for it in `PROJECT.json`.

### SessionManager

`status`, `mode`, `run_ids` are the fields of `_sessions[s]`, `lock[s]` is the
owner of `_locks[s]`, `meta` and `thread` are the files. A task serves one
request; its `seen` is what `read_messages` returned to it. `Create`/`Created`
are `session.create` and the first half of `agent.run`, `StartScheduled` the
task `agent.run` leaves behind. `EnterSend` is `send_message` up to its first
await: acquiring a free `asyncio.Lock` does not suspend, so the `locked()` test
and the acquisition are one step, which is what makes the code correct.
`Resumed`, `Received`, `SkillInvoked`, `RunReturns` and `Finish` are the steps
behind its further awaits, `RunRaises` an exception out of the run, `Cancel` a
`CancelledError` in any await. `Shutdown` takes the snapshot of `_running_runs`;
`TearDown` stops the server when those have ended, after which `asyncio.run`
cancels every other task. A restart is not modelled, because the daemon never
reads `meta.json` again: a restarted daemon knows no sessions. Nor is a
`write_meta` that raises (`core/session/manager.py:99`, `146`, `158`): memory and
file then differ until the next save, and the request ends with an error.

### PermissionManager

A call is a `tool_use_id`. `pending` and `future` are `_pending`, `timer` the
timeout inside `asyncio.wait_for`, `session_always`/`persistent_always`/
`policy_file` the caches and the file, `accepted` a history variable: the answer
`respond` put into the future. A command is abstracted to the class the rules
tell apart. `TimerFires` and `TimedOut` are two steps because an answer may
arrive between them. `Respond` takes an answer from whatever client, as `respond`
does. A write of the policy file may fail
(`policy_file' \in {policy_file, persistent_always'}`): the code logs and goes
on. With the default policies no command matches a deny or allow pattern; the
classes `"denied"` and `"listed"` stand for configured patterns.

### ToolInvocation

`stage` is the await of `invoke_tool`, `events` what was published about the
call, `executions` counts how often the tool was entered. The gate's actions are
those of `PermissionManager`, conjoined with what `invoke_tool` does when they
let its task run. `Outside` is what happens to the gate while the task waits,
and `Publishing` says when the task waits for a publication, which is no
business of its own fairness. What clients make of the published events is not
part of the module: the TUI takes a prompt away on `permission.denied` only
(`tui/app.py:1028`), so one that another client has granted stays.

### AgentRun

A message is its role, the calls it opens and the calls it closes. `TakeMessage`
appends the user's message and reads the thread (one step by
`SessionManager!SnapshotCurrent`), `Respond` adds a response of the model,
`ToolReturns` one result, `EndStep` decides what follows, `Compacted` replaces
the context, `Finish` writes `messages[prefill_len:]` back. The stop reason of a
response is whatever the API says (`Stop`): `"other"` stands for the reasons
`loop.py` has no case for, whose calls nobody answers; `skipped` holds those of
the present run. `produced` is a
history variable: what this run has added, whatever compaction made of it;
`folded` remembers that a run wrote its output after compacting, which is where
the guarantees end (finding 3). Not modelled are an `OSError` in
`append_messages` and a publication of `run.finished` that fails without a
cancellation: both lose what the run has produced.

### Delivery

A run is the task that publishes its numbered events; `at[r]` says whether it
works, waits in a `drain` (`"draining"`) or may go on (`"woken"`), `dead` is the
local list of `handle`. `subscriptions` is every subscription ever made, in
order; `dropped` holds the places in it that `unsubscribe` has removed from
`_subscriptions`. A place is never used again, so `rest[r]`, the part of the
copied list that `handle` has still to visit, is a set of places: the first is
the one it waits for (`Awaited`), the others come after it (`Others`). `Broadcast` writes to
one client after the other until a drain suspends; when none is left `Complete`
drops broken connections and appends the event to the file of **every** open
run, because the writers are subscribed to one bus and do not filter. A file may
refuse any line of `Unwritable`: `EventWriter.handle` catches the error, logs it
and goes on (`core/events/writer.py:35`), and `missed` remembers it. What a failed
flush leaves in a buffer, to be written with a later line, is not modelled.
`link[c]` is the connection: `"stuck"` when its buffer is above the high-water
mark, `"gone"` when asyncio has lost it, `"closed"` when the read loop has
dropped its subscriptions. `Request` is `event.subscribe` up to the drain of the
replay, `Replayed` what follows. Topics are abstracted to all topics, and the
events of sessions, which have no run, are left out. `lost`, `missed` and `since`
are history variables.

### TaskManager and Subagent

A board is the sequence of a run's `task_N.json` files; `Create` and `Update`
are the manager's operations, which have no await and so are one step.
`Cleared` is the pass over all files and keeps the order of the code: the pass
first, the copy of the task itself written over it afterwards.

An agent of `Subagent` is the root run or a child. `Execute` is `invoke` up to
the publication of `subagent.started`, `Started` what follows: a background
child becomes a task and is registered, a foreground child begins inside the
call. A foreground child **is** the task of its parent; `TaskOf` follows the
calls down, so `TimedOut`, `Shutdown` and `TearDown` cancel exactly what asyncio
cancels. `Joined`, `CallFails` and `Retry` are `invoke_tool`'s retries seen from
the spawn call, because each spawns another child (`ToolInvocation` has the
retries themselves). A child may raise: in the background its task ends with the
exception and `agent_result` says so (`Raise`), in the foreground its call fails
(`ChildRaises`), and in both cases its end is never published; `StartFails` is a
directory that cannot be made. An execution that fails before
`subagent.started` leaves nothing behind and is one retry less; it is left out. `depth` and `tools` are those of `_build_child_registry`. `told`
and `late` are history variables: the children whose result was given, and the
dependencies added on tasks already completed.

### McpClient

`owner` and `waiters` are the `asyncio.Lock` of a client, `requests` and `lines`
the two directions of its connection. `Enter` takes the id **before** the lock,
as the code does. `Read` takes the next line and asks only for its id, so a
request of the server (`Ask`) that has the number of the call ends it, as if its
result were empty (`Meaning`). `ReadFails` is a line that is too long or is JSON
and no object; `GiveUp` is 30 seconds without a line or the end of the stream,
and leaves the response in the connection; `Cancel` does so too. `Boot` is the
start-up task, which calls `initialize` and `tools/list` in the same way.
`Respond`, `Notify` and `Crash` are the servers: they answer in any order, late
or never, and send lines nobody asked for, while they are being set up too, as
often as they like. `clients` is the dictionary `_clients` of the manager, whose
keys are the names (`NameOf`), in the order of insertion: `Store` puts a server
in the place of one of the same name, which is `"shadowed"` from then on while
its tools stay in `offered`. `todo` is what a loop over servers has still to
visit: `stop_all` visits all of `clients` and clears it at the end. A server that
fails while it is set up is neither used nor closed (`Skipped`).

### Clients

A behaviour is one client, chosen in `Init`. `main` is where its coroutine is,
`fut` what has become of the command each waiter sent, `inbox` what the read
loop has not handled. `ReadResponse` sets a future; who waits for it goes on in
a step of its own, so an event that follows a response may be handled before it.
`EndLoop` cancels the commands under way; a command sent after it is `"unheard"`
and is never answered, because `send_command` does not look whether the loop
still runs. The TUI's `busy`, `prompt`, `blocks` and `selects` survive a
reconnection as they do in the code. The daemon side keeps what the clients can
tell apart (`work`, `asked`); after `Lose`, work under way goes on as that of
another session, whose events reach the new connection too. Events reach a
client once its subscription is answered (`HasSubscribed`). The subscription of
a TUI with `--replay` is answered behind what the file of that run says of its
requests (`Replays`), on every connection; a request that is still shown gets a
second selector, and `repeats` counts those. The replay and the subscription are
one step here; what may be lost between them is `Delivery`'s (finding 4).
`since` and `repeats` are history variables.

Behaviours of the clients that the model shows and no property excludes: a loss
during `event.subscribe` or `session.create` ends the TUI's socket worker for
good; answering a selector without a connection enables the prompt; a denial may
remove the selector of another request, and nothing removes that of a request
another client granted; the busy flag outlives a lost connection, so that the
prompt of the next one is enabled and refuses every message until some session's
event clears it (`tui/app.py:822`); `chat` cannot answer a question of the run it
waits for; `run` leaves when any run of the daemon ends
(`cli/commands/run.py:81`), and waits for ever when its run is refused or
cancelled after `agent.run` was answered, when it raises (`core/app.py:102`), or
when the connection is lost.

## 3. Checks

| Run | Bounds | What it shows |
|---|---|---|
| `SessionManager_safety` | 1 session, 3 requests, fair | exclusion, order in the thread, current files, final closing, refinement of `SessionLifecycle`, the lock is given back if awaits return |
| `SessionManager_slash` | 1 session, 3 requests | finding 1 |
| `PermissionManager_gate` | 3 calls, 2 sessions, 1 restart | consent, own answers, no stale pending entry, nothing remembered that was not taken |
| `PermissionManager_disconnect` | 2 calls, no timeout, fair | finding 2 |
| `ToolInvocation_calls` | 2 calls, 5 kinds of call, 2 retries, fair | consent before every execution, how each question ended is published, one final report, every call ends if publications do |
| `AgentRun_thread` | 3 messages, 4 calls, 3 steps | requests stay well-formed, output is kept, the right message is answered |
| `AgentRun_sendable` | 3 messages, 2 calls | finding 3 |
| `Delivery_events` | 2 runs of 3 and 2 events, 2 clients, a line its file may refuse, fair | order, completeness, files that tell what was seen, progress while clients read |
| `Delivery_gap` | the same | finding 4 |
| `Subagent_tree` | root with 4 calls, two children with one each, 3 children, 2 retries | no orphan, results follow reports, no stale dependency |
| `McpClient_calls` | 2 servers of one name, 2 callers, 1 retry, an unasked line unread, fair | responses are one's own, no stored server left running, every call ends if unasked lines do |
| `Clients_waits` | 2 requests, one of them replayed; 2 messages on one connection or 1 on two, fair | waits end while the connection holds and the daemon serves; selectors have a request, but those a replay has doubled |

Why the bounds are enough to be interesting: sessions share nothing in
`SessionManager`, so one session with three requests shows every overlap of a
run, a close or a compaction and a refused request, with shutdown in between
(the proofs below need no bound). In the gate two sessions and one tool are
what the shared cache needs; three calls allow a decision, its effect and a
third party; one restart separates memory and file. Four tool calls over three
messages give a response with two calls, a cut-off one and an orphan in the
middle of the thread; `MaxSteps = 3` makes the limit bite. In `Delivery` three
events give a first, a middle and a last one, each treated differently by a
cancellation; one client that may stall and hang up and one that reads, in
either order of subscription, give a broadcast suspended before, at and after
the other. In `Subagent` three children give siblings, a child of a child, and one that must not have children,
and two retries of one call; the root alone plans, since boards share nothing,
and four calls let it create two tasks, make one wait for the other and complete
that. In `McpClient` the second server takes the place of the first, which goes
on beside it, and is used by both callers, one of whom may try again on a
connection that still owes it an answer; it may send a request with the id of a
call (`OwnIds`) or another line as often as `MaxLines` unread ones leave room.
In `Clients` two messages overlap on one connection, two connections give state
that outlives the first and announcements that come again (`MaxEffort` keeps the
two cases apart; their product takes TLC five times as long), and one act of another
session is enough to clear a flag or to race an answer. `MaxChildren`,
`MaxCalls`, `Profiles`, `Planners`, `Dependency`, `Used`, `Retries`, `OwnIds`,
`MaxLines`, `MaxMessages`, `MaxLinks`, `MaxEffort`, `MaxForeign`, `ReplayReq`, `Flaky`,
`Cancellable`, `Unwritable`, `Wish`, `MaxRestarts`, `Losable`, `Subject`,
`MaxTurns` and `MaxPerReply` are bounds of the model; `MaxSteps`, `MaxRetries`, `TimeoutOn`,
`AutoCompact` and `Default` are settings of the program.

Deadlock is not checked: every model stops when its requests or calls are used
up, and a daemon without requests waits.

**Fairness.** Weak fairness of the steps of a task says that the event loop
resumes tasks whose await has completed, which asyncio does in order; nothing
more is assumed. What else a property needs stands in the property, as its
premise, because the code does not see to it:

* `LockIsReleased` has `AwaitsReturn`. Every publication waits for the drain of
  every client without a time limit (`core/transport/ipc_broadcaster.py:68`), so
  a client that stops reading keeps a session busy; with `timeout_s = 0` so does
  a question nobody answers (finding 2).
* `CallEnds` has `PublicationsEnd`, for the same reason. The rest is in the code:
  `wait_for` bounds each execution, retries are counted and, when
  `timeout_s > 0`, the timer bounds the question; nothing is assumed of users.
* `ReadersSuffice` has that no client stalls for ever; clients that are slow or
  hang up are not excluded.
* `CallsEnd` has `UnaskedLinesEnd`: the 30 seconds of `core/mcp/client.py:201`
  are for a line, so a server that goes on sending lines and never answers is
  read for ever, by the start-up too. Servers need not answer. That a write to a
  server returns is assumed: `drain` has no limit there either
  (`core/mcp/client.py:189`).
* `WaitsEnd` has `DaemonServes`: the daemon answers commands and ends runs, which
  it does under the premises above. Its waits except two kinds of run, which
  nobody tells `kama run` of: one that was refused after `agent.run` had accepted
  it, and one that raised. Nothing is assumed of users, of other sessions, or of
  the connection.

No strong fairness is used.

### Findings

1. A message that is a bare `/` is stored and its run recorded, and then
   `parts[0]` raises (`core/session/manager.py:107`): no run answers it.
2. `cancel_session`, which should reject the pending questions of a client that
   disconnects (`core/permissions/manager.py:192`), has no caller: without a
   timeout the call waits for ever.
3. `prefill_len` is stale after an automatic compaction
   (`core/runner.py:183`, `253`): a part of the run's output is not stored, and
   what is stored may begin with results whose calls are gone, which no later
   read repairs.
4. Events published between a replay and the subscription that follows it
   (`core/app.py:168`), or being broadcast at that moment, reach the client in
   neither way.
The modules show more that a reader of the code should know of, and the
properties except it by name; no run is spent on it:

* Calls that come with a stop reason other than `tool_use` and `max_tokens` get
  no results, and the loop goes on with a conversation that is not balanced
  (`core/loop.py:92`). `RequestIsPaired` excepts the calls in `skipped`.
* A call without its result in the middle of the thread cuts off whatever was
  said later, from every later read: runs are started without the message they
  are to answer (`core/session/store.py:126`). `AnswersItsMessage` excepts such
  threads.
* A request of an MCP server that has the id of a call is taken for its response
  (`core/mcp/client.py:170`). `OwnResponse` speaks of responses.
* An MCP server that fails while it is set up is never closed
  (`core/mcp/server.py:32`), and of two servers of one name the first is not,
  although its tools stay offered (`core/mcp/server.py:27`). `NoneLeftRunning`
  speaks of the servers that are stored.
* A file that refuses the line of an event goes without it
  (`core/events/writer.py:38`). `SeenIsStored` and `FileIsRun` except the lines in
  `missed`.
* The entry of a cancelled call stays pending (`core/permissions/manager.py:140`).
  `PendingIsAwaited` excepts it.
* The clients' part of this list stands at the end of section 2.

## 4. Proofs

The theorems hold for arbitrary (also infinite) sets of sessions, tasks, calls,
tools and servers. The assumptions are those of the modules: the two "nobody"
constants are no members of their sets, and `Default`, `Subject` and the bounds
have their types.

`SessionManager_proofs`

* `TypeCorrect`: `Spec => []TypeOK`. `TypeOK` includes that a busy task has a
  session, and is inductive.
* `Exclusion`: `Spec => []SessionExclusion`. With `TypeOK` it is inductive: each
  action that parks a task in a critical await takes the lock in the same step
  after finding it free, and each action that leaves gives it back.
* `Snapshots`: `Spec => []SnapshotCurrent`. It needs `SessionExclusion`: an
  action that writes a thread belongs to the holder of its lock, so no other
  task is parked in a run or a compaction on it.
* `ClosedForGood`: `Spec => ClosedIsFinal`. It needs the strengthening that a
  task between `Resumed` and `RunReturns` works on a session that is not closed.
* `ImplementsLifecycle`: `Spec => Refinement`. The mapping takes the turn of a
  session to be the task that holds its lock between `append_message` and the
  return of the run; every action is a step of `SessionLifecycle` or stutters.
* `OutputsFollow`: `Spec => []OutputFollowsItsMessage`. The property needs to
  know, when a run writes, that its message is still the last row:
  `MessageIsLast` says so for every task between `append_message` and the return
  of its run. `RowSteps` first reduces the actions to the four things a step can
  do to the threads (leave them, ask, reply, sum up); exclusion then shows that
  no task writes to a thread while it is the turn of another.
* `IndexNamesRuns`: `Spec => []MetaIndexesOutput`, and `MetaIsCurrent`:
  `Spec => []MetaCurrent`. `MetaInv` says that a run that has been started is in
  `meta.json`, that the file names only runs of the session, and that file and
  memory differ only while a run that has returned is publishing its status.
  With `SessionExclusion` such a run holds the lock, which gives the second
  theorem; the first follows because only a started run writes output and no
  save forgets a run (`NextMeta`).

`PermissionManager_proofs`

* `GateType`, `PendingAwaited`, `OwnAnswer`, `MemoryTaken`, `Consent`. One
  inductive invariant `IInv` carries all of them: the types, `Phases` (what the
  future, the timer, the verdict and the accepted answer of a call may be at
  each await), and the four properties. `Phases` is what is missing from the
  properties themselves: without it an answered future could belong to a call
  that has not asked.

`ToolInvocation_proofs`

* `UsesGate`: `Spec => Gate!Spec`. Every step of a call is a step of the gate or
  leaves the gate alone, so the theorems about the gate hold inside the calls;
  they are taken over through an instance of `PermissionManager_proofs`.
  `GateAssumption` says here what `PermissionManager` assumes of its constants.
* `ConsentBeforeExecution`: `Spec => []ExecutedWithConsent`. It joins the gate's
  `Consent` with `InGate`: what has been let through keeps its verdict while the
  call is executed and retried.
* `CallType`, `PromptsClose`, `CallsAreReported`: `InBudget` ties the executions
  to the attempts, `InPrompt` and `InReport` say how many events of each kind a
  call at each stage has published. `CountPublished` is the lemma about counting
  they all need.

`AgentRun_proofs`

* `RunType`: `Spec => []TypeOK`. That `step` stays within `MaxSteps` needs that a
  step is left wherever the loop plans or compacts, and that a tool result can
  be added needs that the loop acts behind a reply (`Acting`).
* `NothingLost`: `Spec => OutputIsKept`, for any number of turns, steps and
  calls. The invariant `Kept`: the context of a run that has not compacted is
  some history of length `prefill_len` followed by its output. It holds through
  a tool result because adding it to the context changes only the part behind
  the history (`AddResultConcat`), and it is what makes the slice at
  `prefill_len` the output (`SliceBehind`). `TrimType` shows that trimming
  always leaves a conversation.
* `RequestsArePaired`, `ThreadIsChained` and `MessageIsAnswered` state
  `RequestIsPaired`, `ResultsHaveCalls` and `AnswersItsMessage`. Inside a step a
  conversation is not paired: `Pairing` says that it *owes* exactly the calls
  that are left to run, and is paired between two steps. `Threaded` says that
  calls are made once, so that a run's output can be put behind the thread
  without a result finding the wrong call, and that the thread, which may hold
  calls without results, never holds a result without its call. `Opened` ties
  the context to what was trimmed from the thread. The lemmas say what trimming,
  a response and a result do to a conversation that is paired, chained or owing
  (`TrimIsPaired`, `ReplyOwes`, `ResultPays`). All of it is up to the calls in
  `skipped`, which nobody answers in the run they came in;
  they do no harm to later runs, because reading the thread cuts them off.

`Subagent_proofs`

* `NoChildAlone`: `Spec => []NoOrphan`, and `ReportedFirst`:
  `Spec => []ResultFollowsReport`, for any number of children, calls and retries
  and any tool sets, from one invariant `IInv`. Its parts: what has been
  published about a child tells how far it has come (`Phases`); the child of a
  call exists, and is unborn while its start is being published (`Spawning`); no
  two calls have the same child (`OneParent`); only background children are
  registered; the numbers of the children follow each other (`InTurn`); agents
  below the second level spawn nothing (`Depths`); a call is inside each
  foreground child that runs (`Accompanied`).
* The argument is about cancellation and exceptions. `TaskOf` reaches two levels of calls, and
  `TaskOfClosed` shows from `Depths` that nothing runs deeper: this is where the
  `_depth < 1` of the code is needed. `StruckAgents` shows that whoever is
  cancelled has been started, has not ended in the background, and is not the
  child of a call that goes on.
* `CompletionUnblocks`: `Spec => []NoStaleBlock`, for boards of any size. It is
  about the operators of `TaskManager`: a new task is not completed, whoever was
  told before to wait for its number (`CreateBoard`), and completing a task
  clears it from what all others wait for, after which the copy written over
  the task itself brings nothing back but what it said of itself
  (`UpdateBoard`).
* `TreeType`: `Spec => []TypeOK`. The depths come from `Depths`, the counter of
  executions from `Tries` (a call sleeps only while it may be tried again), and
  that the two events of a child come in order from `Phases`.

`Delivery_proofs`

* `DeliveryType`, `EventsInOrder`, `NothingIsSkipped`, `WhatIsSeenIsStored` and
  `FilesTellRuns` state the five invariants of `Delivery` for any runs of any
  length, any clients, any of them that stall, hang up or are cancelled, and any
  lines a file refuses (those are excepted where a file is spoken of).
* One invariant carries them. `Counted` says what number a run may have reached
  at each of its awaits; `Subscribers`, that a client has one place and is
  dropped only when its connection is lost; `Numbered`, that no log is ahead of
  its run, that an event under way is in no file, and that the clients behind
  the one it waits for do not have it yet; `Stored`, that what is in any file is
  in that of its own run; `EndsKept` is about the first and the last event; and
  `Served` says of each client an event is for that it has it or that its place
  is still to come.
* `Numbered` is why a replay and the live events never meet in the wrong order:
  what is in a file is no longer being broadcast. One lemma (`StepKeepsInv`)
  treats the broadcast up to its next suspension, whether the run has just begun
  the event or is going on with it; the actions of connections and of
  `event.subscribe` have their own.

`McpClient_proofs`

* `OwnAnswers`: `Spec => []OwnResponse`, for any servers, calls, retries and
  lines nobody asked for. It speaks of the responses a call returns; a request of
  the server that has the call's id ends the call too, but is no response. The
  property alone is not inductive: a late answer in the
  connection must not carry the id of a call under way. The invariant `IInv`
  adds that ids in requests, lines and calls were given out before (`Issued`,
  hence a new id is nobody's), that two calls under way on a connection have
  different ids (`Distinct`), and that a request or an answer with the id of a
  call under way belongs to its present attempt (`Owned`). Leaving a request or
  an answer behind, by timeout or cancellation, then costs nothing: the call is
  no longer under way, and the id is never given out again.

* `ClientType`: `Spec => []TypeOK`, and `ShutdownIsComplete`:
  `Spec => []NoneLeftRunning`. The invariant `Kept` follows the dictionary of
  clients: a server that is stored under its name is in it until the daemon has
  stopped, and during `stop_all` it is still to be visited or gone. Servers whose
  place was taken, and those that were skipped, are not in it.

`Clients_proofs`

* `SelectorsHaveBlocks`: `Spec => []SelectHasBlock`. A selector and a block come
  together and a denial takes one of each, but they need not be those of one
  request. That the numbers agree rests on a block being added with every
  selector. For a request no replay announces, that is, one that is announced
  once and never while its block is shown (`AnnouncedOnce`), this holds;
  `HarmlessMessages` and `HarmlessReplay` show that nothing else the daemon sends
  announces such a one. The others are counted by `repeats`.

Every safety property that the passing runs check is stated by a theorem. Only
model-checked are the findings and liveness (`LockIsReleased`, `CallEnds`,
`ReadersSuffice`, `CallsEnd`, `WaitsEnd`): with fairness and `ENABLED` liveness is outside the prover.

## 5. Not modelled

Widgets, rendering, wording, configuration parsing, the bodies of built-in
tools, token accounting and streaming. The summary and notes files, truncation
of long results, and timestamps. A crash inside a file write: files are
replaced in one step, and hazards of that kind are listed with a note.

Of the clients: quitting, `/compact`, slash completion, the blocks the TUI shows
for tools, subagents and tokens, and what Textual does after a handler was
cancelled (the model lets the user do nothing more). Of the MCP client: the
stderr reader, and a write that does not return because the server reads
nothing. Of subagents: what they say, and the file `events.jsonl` of a child
(`Delivery` has the writer). Errors of the file system other than those of the
policy file, of `events.jsonl` and of a child's directory: a `meta.json` or a
thread that cannot be written. The trace is a side
channel nothing depends on: a queue, a task that drains it, and `stop`, which
waits for ever if that task has died of an error of the file
(`core/trace/writer.py:23`). Skills, agent profiles and memory are lookups of
text files; the start of the daemon is a sequence of constructors, of which only
the start of MCP servers waits for anything.

## 6. Plan

What is left to do, in this order:

1. Refinements: what a component promises, stated without its locks, buffers
   and retries, for the calls of MCP servers and for delivery, with the mapping
   proved step by step as for `SessionLifecycle`.
2. The end of the daemon in one module: shutdown with the trace queue and the
   background children.

No module declares a RECURSIVE operator, so all of them can be proved about.
