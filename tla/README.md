# NorvesEditor: TLA+ models, model checking and proofs

NorvesEditor is a Tauri desktop editor. A Rust backend talks to a game engine over a
WebSocket (the Norves Bridge), a React screen talks to the backend, and an MCP server lets
an external agent read the scene and, with the user's approval, edit it. The parts that are
easy to get wrong are the ones where these three meet: requests that time out and are
answered late, connections that are replaced while calls are under way, an undo history that
two sources write, a queue whose callers give up while the actor is at work, approvals that
are stale when the write starts, and files that are written when the power fails.

Paths below are relative to the repository root, `src/` here. `mcp/` is
`apps/editor/src-tauri/src/mcp/`, and file names without a directory are in
`apps/editor/src-tauri/src/` or `bridge/crates/norves-bridge-editor-client/src/`.

## 1. Inventory

| Part | State | Operations | Interacts with | What is hard |
|---|---|---|---|---|
| Dispatcher (`dispatcher.rs`, `norves-bridge-core/src/correlation.rs`) | command channel (64), `PendingTable`: id -> (token, waiter) | `request`, `shutdown`, the task's select loop: send, cancel, response, transport end | transport, every caller of the bridge | timeout against late answer, reused ids, a full channel, a stuck write |
| Connection lifecycle (`bridge_state.rs`) | `Phase` behind a mutex, session watch, `attempt_cancellation`, relay and dispatcher of each connection | connect, reconnect, disconnect, exit, relay's end | dispatcher, edit service, MCP reads, screen | the mutex is not held over I/O; calls overlap |
| Logs (`mcp/log_buffer.rs`) | `active_generation`, status per generation, queue of records, counters per generation | begin, subscribe, record, end, retire, page | connection, MCP client | late end of an old generation; eviction under a reader |
| Edit history (`edit_service/history.rs`, `groups.rs`) | undo and redo stacks, active group, pending group, correction cache, two revisions | record, prepare, finish, remap, discard, group control | actor | stale captures, eviction, partial failure, new ids |
| Edit service actor (`edit_service.rs`) | the item in work, observed generation | one item at a time; connection change; revocation; group deadline | history, dispatcher, authorization | what changes during an item's awaits |
| Edit queue (`edit_service.rs`, `edit_service/mcp.rs`) | bounded channel (64), `queue_state`, `Admission` | enqueue, cancel, start, drain, shutdown | screen, MCP | cancellation against start; shutdown |
| MCP outcomes and records (`edit_service/mcp.rs`, `mcp/writes.rs`, `mcp/operations.rs`, `useMcpOperations.ts`) | `McpExecution`, operation record, list, two files | record_result, outcome, finish, rotate, notify | MCP client, panel | actor and caller write both; notifications overtake each other |
| MCP authorization (`mcp.rs`, `mcp/authorization.rs`, `mcp/confirmation.rs`, `mcp/reads.rs`) | revision, leases, write policy, confirmations, scope | authenticate, review, confirm, revalidate, revoke | actor, HTTP, screen | revocation against registration; stale approvals |
| MCP HTTP front (`mcp.rs`, `mcp/request_lifetime.rs`) | three semaphores, request registry, wire tracker, watchdog | admit, retain, cancel, finish, time out | clients | ends of streams are read from the bytes written |
| MCP runtime (`mcp/runtime.rs`, `mcp_settings.rs`, `mcp_token.rs`) | control lock, server task, settings and token files | initialize, set_settings, regenerate_token, restart, shutdown | HTTP front, disk | failing disk, power failure, a server that ends by itself |
| MCP tool catalogue (`mcp/tool_catalog.rs`) | connection, permission, revision | set_*, list, listen, admit a call | client, engine | list against change |
| MCP reads (`mcp/reads.rs`) | snapshot store with cursors | read, page, expire, evict | engine, client | reads that outlive their connection |
| Thumbnails and images (`mcp/thumbnail.rs`) | one flight, one cached snapshot, one image, workers | get, invalidate, process, shutdown | Game View, MCP tool | shared flights, jobs without a client |
| Engine process (`process_runtime.rs`) | `Option<ProcessHandle>` | launch, exit monitor, stop, exit | connection | check, spawn without the lock, store; an exit in between |
| Reconnect (`reconnect.rs`) | handle, backoff | `next_backoff`, `connect_with_retry`, `reconnect` | connection | arithmetic, budget, dropped futures |
| Screen commands and parsers (`bridge_state.rs`, `scene.rs`, `object.rs`, ...) | none of their own | send, parse, record, announce | engine, history, windows | what is accepted is later sent back |
| Screen (`state/store.ts`, `hooks/useBridge.ts`) | reducer state, captures, cursors | events, commands | backend | events out of order |
| C++ engine SDK, mock engine (`bridge/cpp`) | bounded queues, server | dispatch, send | editor | the other end; external here |
| Codecs, workspace, tools | none or files | validation, I/O | | stateless |

What makes each of the modelled parts correct:

* dispatcher: nobody waits for ever, nobody gets somebody else's answer, nothing leaks;
* connection: late clean-up never touches a newer connection; each relay and dispatcher has
  one owner; what the other services see is the live connection;
* history: undoing and redoing walks the engine through values it really had, on objects that
  exist, whole groups at a time;
* queue and outcomes: what the MCP client and the panel are told is true and stays true;
  every call returns; shutdown leaves nothing behind;
* authorization: a revocation reaches every older lease, and what starts is what the user
  approved, under the policy in force and within the scope;
* server: permits and keys come back on every path; an answered save survives a power failure;
  a replaced token opens nothing;
* services: while the editor runs, no engine runs that nobody can stop; nobody is handed another
  connection's data; what a bounded store has dropped is said.

The hazards behind these, each at its line, are listed in `PROJECT.json`.

## 2. Modules

| Module | Models | Run by |
|---|---|---|
| `Dispatcher` | dispatcher, callers, engine's answers | `MCDispatcher`, `MCBridge` |
| `DispatcherProofs` | theorems about `Dispatcher` and its refinement of `RequestContract` | tlapm |
| `EditServiceProofs` | theorems about `EditService` and `EditHistory`: captures, cursors, generations | tlapm |
| `EditGroupProofs` | theorems about `EditService`: groups and the objects entries act on | tlapm |
| `EditChainProofs` | theorems about `EditService`: the values undo and redo lead through | tlapm |
| `EditQueueProofs` | theorems about `EditQueue` | tlapm |
| `McpAuthorizationProofs` | theorems about `McpAuthorization` | tlapm |
| `ServerProofs` | theorems about `McpHttp` and `McpRuntime` | tlapm |
| `ServicesProofs` | theorems about `BridgeSession`, `EngineProcess`, `Thumbnails`, `ImageWorker`, `Reconnect`, `ToolCatalog`, `Operations` | tlapm |
| `RequestContract`, `DispatcherContract` | what `request()` promises; the refinement mapping | `MCBridge` |
| `BridgeSession` | phase, attempts, disconnects, relays, log generation, what the screen shows | `MCBridge` |
| `EditHistory` | the pure part of the history: one record, one operator per method | through `EditService` |
| `EditService` | the actor's items over the history, the engine and the connection | `MCEditService` |
| `EditQueue` | tickets, queue, actor, `McpExecution`, records, shutdown | `MCEditQueue` |
| `McpAuthorization` | revision, leases, policy, token lock, reviews, confirmations | `MCMcpAuthorization` |
| `McpScope`, `SceneTree` | which writes a scope admits and what the preview shows; the scene as a tree | `MCBackend` |
| `McpHttp` | connections, permits, registry, deadlines, watchdog | `MCServer` |
| `McpRuntime` | commands under the control lock, server task, two files, power failures | `MCServer` |
| `SseWire` | the tracker that reads responses and events out of the bytes | `MCBackend` |
| `ToolCatalog` | capabilities, permission, revision, the client's list, admission | `MCBackend` |
| `ReadSnapshots` | snapshot store, cursors, pages | `MCBackend` |
| `LogBuffer` | queue of log records, counters, a paging client | `MCBackend` |
| `Operations` | record list, files, notifications, panel | `MCBackend` |
| `Thumbnails`, `ImageWorker` | shared fetches; image jobs | `MCServices` |
| `EngineProcess` | launch, monitor, stop, exit | `MCServices` |
| `Reconnect` | backoff, retry loop, manager | `MCBackend`, `MCReconnect` |
| `AnswerShapes`, `ScreenCommands` | answers, parsers and schemas; commands and their events | `MCBackend` |

`EditService` and `EditQueue` cut the same actor along two lines: the first runs items
atomically up to each await and asks what they do to the history, the second follows one item
through every check it makes and asks what its caller learns. `McpAuthorization` takes the third
cut, through the permit of a write. `McpHttp` and `SseWire` divide the HTTP front in the same
way: the first takes the end of a response as given, the second shows that the tracker finds it.
None of these pairs would be checkable with the other's state in it.

### Dispatcher

A request is one call of `request()`; it doubles as its own generation token, because
`next_token.fetch_add` gives each call another. `call` is the position in `request()`:
`queueing` (`commands.send`, which waits for room), `waiting` (the timeout around the oneshot),
`cancelling` (sending `Cancel`, outside the timeout). `reply` is the oneshot's content.
`task = "writing"` is the await of `transport.send` in `on_send_request`, during which the task
does nothing else. The order of `on_send_request` is kept: insert, then write. `FrameFailed` puts
a newer request's entry back as the code does. `Stop` is the end of `run`: every waiter is told,
every queued responder dropped, a waiting `shutdown()` acknowledged. `OverlapIds` says whether
callers may reuse an id in flight. Events are left out; they share the task and none of this state.

`RequestContract` knows neither channel nor table: a call is open until it ends with one outcome,
an outcome has its cause, an answer is given to one call only, and every open call is settled.
`DispatcherContract` maps the dispatcher's state to it; the theorem `ImplementsContract` shows that
every step of the dispatcher is a step of the contract or a stutter.

### BridgeSession

Each action is the code between two awaits, or under one lock: `ConnectBegin`, `ReconnectBegin`,
`Dial`, `Hello`, `LogPhaseCheck`, `SubscribeStart`, `SubscribeAck`, `FinishAttempt`, `Commit` or
`Reset`; `DisconnectTake` (locked), `DisconnectRetire` (cancel, end log generation, after the
lock), the tear-down (`AbortRelay`, `StopDispatcher`, `JoinRelay`) and `DisconnectEmit`.
`stop_engine` and exit are disconnects too. `took` and `holds` say who is responsible for a
connection. A generation names its attempt, dispatcher, relay and log subscription. The relay's
`Closed` arm is left out: as long as somebody keeps a `DispatchHandle` the broadcast has a sender
and the arm cannot run, and `RelayOwned` shows that somebody always does.

### EditHistory and EditService

A record is a slot (object and attribute, or the object itself for a creation) with an old and a
new value. `history` has the fields of `HistoryState`: generation, two revisions, undo and redo,
active group, pending group, correction cache with `lost` (`mark_lost_through`), the unsupported
flag. Each operator carries the name of its method. `EditService` adds the connection, the
engine, the item in work (`run`) and the screen's stale knowledge: a captured value with any
revision up to the present one, and a captured cursor. The engine clamps large values, refuses,
fails, omits a new object's id, or does not answer; an unanswered request may or may not have been
applied. Three auxiliary sets, `gaps`, `unsure` and `orphans`, name the slots and objects about
which the code gives no promise (an untracked edit, an unanswered one, a discarded entry, a single
redo of a creation that other groups refer to, `docs/mcp-and-edit-layer-requirements.md:436`);
the properties leave out exactly those.

### EditQueue

`ticket` is `queue_state`, `held` the life of the cancel sender, `exec` and `confirmed` the two
atomics of `McpExecution`. `over` is a lease that is no longer current, for any of its reasons.
The actor's positions follow `process_item_inner`: check, revalidate, prepare, exchange, check,
send, await. `Send` is separate from `SendCheck`, since other threads run in between although the
code does not await there. Group controls take the short path of `process_control_item`.
`MaxReconfirms` bounds how often a write is sent back; in the code its deadline does. An edit from
the screen takes the same path without a lease, a confirmation or a deadline: it is a write in
whose behaviour these never act, and liveness assumes no fairness of them.

### McpAuthorization and McpScope

A request holds a lease of the revision it was authenticated under; `current_lease` reads the
revision and registers in two steps. Three kinds of caller revoke (a change of settings, of the
token, of the connection as the actor sees it), each in the code's order: revision, lease list,
broker. The write is reviewed before it is queued, shown to the user if the mode asks for it,
reviewed again when the actor takes it, and started only if policy, connection and scene are
those of its permit. `unseen` and `observed` keep the detail that `process_item_inner` consumes
the session change that `run_actor` waits for. What a review reads is one value of `SceneValues`.

`McpScope` is the review itself, over a tree: `check_operation` and `check_history` for every
operation and for an undo or redo of a recorded group, `make_confirmation_preview`, and then the
write's calls one by one against the engine, which may have moved objects since the group was
recorded. `touched` is what the calls read or change, `inside` the scope's subtree.

### McpHttp, SseWire and McpRuntime

A connection of `McpHttp` is a record of `ConnectionIo`, `ConnectionState` and the middleware's
future; the client connects, sends, reads, cancels by key and leaves whenever it likes, and may send
ahead: hyper hands the middleware the next request once it has the whole response to the last, whose
bytes, and those of responses before it, may still be in `out`. `ConnectionState` is one for all of
them, so a request can find an earlier one's permit or entry there and be refused (`AcquireStream`,
`AcquireOrdinary`, `Retain`), and `WriteEnd` of an earlier response can end a later request's entry
(`behind` marks those requests). Header checks are one refusal. The watchdog lives in `poll_read`,
as in the code, and fires only when the reader was woken after the response became a stream.
`SseWire` feeds responses (without a body, sized, chunked, interim, streams) to `SseWireTracker`
byte by byte in writes cut anywhere, with `SseLineScanner` and the watchdog's three limits.

In `McpRuntime` a command is the list of steps it still has to take under the lock. A file has what
a read sees and what outlives a power failure; `write_atomically` is create, write, sync, rename,
sync of the directory, each of which may be refused, and `PowerFails` may come between any two.
`mrPromised` is, per file, the values the answers given so far allow. The server's task ends by
itself at any time.

### ToolCatalog, ReadSnapshots, LogBuffer, Operations

Each has the fields of its store and the client or panel that follows it. `ToolCatalog` keeps the
order change, revision, notification, with a client that lists and subscribes in any order and a
call that goes step by step through the checks of `call_tool`, `call_thumbnail_image` or
`resolve_authorization_review`, each at another moment; `checked`, `gen` and `lease` are the
generations it was validated under, caught and pinned. Sending checks nothing, and a connection that
is no longer the current one still carries requests. `ReadSnapshots` has two clients whose reads
wait for the engine while snapshots expire, are evicted or belong to an older connection; an answer
is the sequence of its items' sizes. `LogBuffer` has records with a size, all generations in one
queue, and a client that follows one generation; generations begin while an earlier one is active,
and in another order than they were numbered in (`logBegun`). `Operations` has the updates of an
operation by the HTTP side and by the actor, the list, the two files, and the panel's initial
request and notifications, which may overtake each other.

### EngineProcess, Thumbnails, ImageWorker, Reconnect

`EngineProcess` interleaves two launches from check to rollback with their monitors, stops (any
number, which may overlap) and an exit. Dropping a handle drops its kill channel, which ends the
child. `EditorEnds` is the end of the editor's process: from then on nothing of it moves, no
destructor runs, and only the engines in its job (`Bound`) end with it. `Thumbnails` keeps one flight
and one cached snapshot and counts time as ages; a fetch that was dropped from the state still
completes. `ImageWorker` has the image cache, the lock, the workers, jobs whose client has left and
the shutdown that takes every permit. `Reconnect` has `next_backoff` in arithmetic that wraps at
`2^BoWord`, the loop against its budget with a clock that may wake late, and
`ReconnectManager::reconnect`, whose future may be dropped at each await.

### AnswerShapes and ScreenCommands

An answer is a JSON value whose texts and numbers are their kinds; `tagged` is the object form
`{"ready":null}` that serde takes for an enum. `Derived` is a struct whose reading serde derives:
it takes its fields as an object or, in their order, as an array. `Schemas` are the published
forms (`bridge/spec/schema`), `Parsers` what the client's parsers accept. `ScreenCommands` sends
every command of the screen, with an engine that answers with any value near the schema, keeps the
accepted edits in a history of one entry, undoes and redoes them, and announces them.

## 3. Runs

| Run | Instance | Result |
|---|---|---|
| `dispatcher_overlap` | 3 calls, 2 share an id, channel of 1 | `TypeOK`, `WaiterTracked`, `ClosedHasCause`, `TimedOutEntryIsCancelled`, `UniqueIdGetsOwnAnswer` hold |
| `bridge` | 2 attempts and 1 disconnect; 2 calls on one id, channel of 1; fair | `SeenIsLive`, `LateCleanUpIsHarmless`, `OneOwner`, `CallReturns` hold; the dispatcher implements `Contract` |
| `edit_capture` | 2 objects, 1 property, values 0..2 clamped to 1, cache of 1 | `CaptureIsCurrent`, `HistoryWalks` hold |
| `edit_groups` | 3 objects to be created, groups of 2, 4 items | `HistoryWalks`, `TargetsExist`, `GroupsStayWhole` hold |
| `edit_reconnect` | 3 objects, parents, 2 generations, both cursors | `ActsOnWhatWasShown`, `OneGeneration` hold |
| `queue_writes` | group undo of 2 and group control, queue of 1, 1 reconfirmation, fair | `EditReportIsTrue`, `RecordsAreTrue`, `ShutdownSettles`, `ServiceReturns` hold |
| `authorization` | 1 write, 2 settings changes, 1 token change, 2 disturbances, 2 dialogs, fair | `RevokedStaysOut`, `ConfirmationBinds`, `StartsUnderCurrentPolicy`, `RequestSettles` hold |
| `server` | 2 clients, 2 connections, 2 requests and 1 stream at a time, 3 requests in all; 2 new tokens, 3 settings, 1 power failure; fair | `RequestsAccounted`, `RuntimeKeepsItsWord`, `ServerComesToRest` hold |
| `services` | 2 launches, 1 of them in the editor's job; 2 thumbnail callers, 3 fetches, 2 generations; 2 image callers, 1 worker; fair | `EngineIsOwned`, `SharedFetchIsSafe`, `ImageJobsAreSafe`, `ServicesComeToRest` hold |
| `backend` | eight parts, see below | `LogIsHonest`, `ReadsAreWhole`, `OperationsAgree`, `TrackerReadsTheWire`, `RetryKeepsItsPace`, `CommandsKeepTheSchema`, `CatalogIsCurrent`, `WriteStaysInScope` hold |
| `queue_control` | 1 group control | **violated**: `ReportIsTrue` |
| `reconnect_jitter` | the default configuration | **violated**: `JitterSpreads` |

Several of these are conjunctions of named parts, each stated beside its component with a comment
of its own; the conjunction is what the parts promise together. Every property of a passing run
has a mutant in `PROJECT.json`: an operator beside the original that changes it as a plausible bug
would, and under which TLC finds the property violated.

**Composite runs.** `bridge`, `server`, `services` and `backend` put models that share no state into
one module. A variable (`layer`, `side`, `service`, `part`) is chosen at the start and stays; the
model it names moves, the others rest in an initial state in which nothing fair is enabled. The
states are the sum of the models' states, not their product, and every property is about one model.

**Bounds.** Three dispatcher calls are the fewest with a reuser, a victim and a bystander in a
channel that fills (the two that share an id are interchangeable, hence the symmetry); the same
safety properties are proved for any number. Two attempts and a disconnect are the fewest that
overlap in all three ways: a replacement, a disconnect during an attempt, and a clean-up that is
late for a newer attempt. Runs with temporal properties use no symmetry. In `queue_writes` the
group undo has a second step that can fail after the first was applied, and the queue of one place
is full while the actor works on the other write. The history runs bound the items by
`MaxSequence`, the changes by `MaxRevision` and the connections by `MaxGeneration`; the cache of
one place evicts at the second correction, a group of two is full at its second edit, and four
items are enough to create, edit, undo, redo under a new id and fail in between.

`authorization` has one write, since writes meet only in the queue, and three revokers, so that a
revocation can overtake another and both can overtake a registration; two dialogs allow a write to
be confirmed again behind the queue. In `server` three requests on one connection are a response
being written, one queued behind it and a request that meets what both left; on two connections they
meet in the keys and in the one permit of the streams. A client that waits for a place waits for
nothing else, so the places are as many as the clients. One power failure, since `seen` and `safe`
are equal again after it. In `services` one engine is in the job and one is not, so the exit is seen
to end the first and to find or leave the second; a third fetch is the first one after an
invalidation that a late fetch can disturb; one worker is a pool at its limit.

In `backend`: two log records of at most three units, so that a third evicts across generations, one
oversized record is cut, and with four generations the oldest counters are pruned; a generation may
begin before the one numbered just below it, and any number of them before an earlier one has ended;
two readers over answers of up to three items with one above the response limit, a store of six
units that evicts, and two generations; two operations over a list of one and files of two lines,
which rotate; two responses in a row with up to two frames, cut at every byte; a word of three bits,
so that products wrap, with budgets and backoffs at and around zero and the cap; three commands in a
row, enough for an edit, its undo and its redo; six sets of capabilities with those that tools need
together apart, and five changes of the catalogue, as many as it takes for a read to find its tool
under one connection, pin the next, which lacks it, and be validated under a third; three objects
and two that a write may create, a group of two records, and one move by the engine.

Bounds are in guards, so the runs do not report deadlock at the bound: `CHECK_DEADLOCK FALSE` is
set where finished calls stay finished and nothing else needs to happen. `authorization` checks for
deadlock too.

## 4. Fairness and refinement

* `Dispatcher`: the task and the callers are polled when ready, timers fire, a write finishes
  (tokio's scheduler and, for the last, a peer that reads or a connection that ends; a write that
  never finishes is assumed away, see section 5). Nothing is assumed of the engine or of a caller
  that is dropped.
* `BridgeSession`: a call that can go on does, requests end by `REQUEST_TIMEOUT`, an aborted task
  ends, a dispatcher obeys a shutdown (which `Dispatcher` shows).
* `EditQueue`: callers and actor go on; a request ends by its answer or its timeout; a confirmation
  ends by its own timeout. No fairness on the engine, on lost clients, on leases or on the decision
  to shut down.
* `McpAuthorization`: a request, a revocation and the actor go on, a lease ends by its deadline.
  Nothing is assumed of the user, the settings or the connection.
* `McpHttp`: the server's steps and, once armed and woken, the watchdog's timer. A client that
  sends ahead reads the responses queued before its last one (`Overtaken`): with those unread, hyper
  stops at its full buffer and takes no further request, and no watchdog of a later stream runs.
  Nothing else is assumed of a client: it may neither read its last response nor leave.
* `McpRuntime`: the command that has the lock goes on; its joins have deadlines. Nothing is assumed
  of the server's task.
* `EngineProcess`: launches, monitors and stops go on while the editor runs; a killed child ends.
  Nothing is assumed of the user, of an engine or of the exit.
* `Thumbnails`, `ImageWorker`: callers go on, a fetch ends by its answer or timeout, time passes, a
  job ends, the shutdown goes on when it has its permits.

All of it is weak fairness of steps a scheduler polls, and no property needs more.

The refinement: `Contract` is `RequestContract`'s specification under the mapping of
`DispatcherContract` (`outcome` from `call`, `got` from `answers`, `lost` from the refused frames,
`link` from the task). TLC checks it in `bridge` with its liveness, that every open call is settled,
with two calls that share an id, where the dispatcher has most to get wrong. Its safety part is
proved for any number of calls (`ImplementsContract`, section 6); the liveness stays with TLC.

## 5. Where the documentation and the code differ

Two runs expect a violation. Each states what a comment or a requirement says.

1. `queue_control`. A group control is not marked as started; an MCP caller whose deadline passes
   in the window is told `notApplied` although the group began or ended. The window is a few
   instructions. `EditReportIsTrue` shows that all other writes are reported truly.
2. `reconnect_jitter`. `reconnect.rs:112` computes `nanos * salt + salt`, which is
   `salt * (nanos + 1)`, modulo `nanos + 1`: zero, unless the product wraps. `reconnect.rs:46`
   promises that each sleep is perturbed.

Differences and limits met while modelling that have no run of their own, because the models take
the code as it is or leave the case out:

* `dispatcher.rs:144` calls reusing an id after a timeout fine; by `dispatcher.rs:412` a late answer
  then goes to the new request. `allocate_request_id` never reuses one, and `OwnAnswers` proves that
  this suffices.
* `bridge_state.rs:27` expects the end of the dispatcher to close the broadcast. The handle in the
  `LiveConnection` holds a sender, so after a close by the peer the phase stays connected until a
  request fails or the user acts (`bridge_state.rs:704`); tear-down is unaffected.
* `request()` sends its command and its `Cancel` outside its timeout (`dispatcher.rs:189`), so a
  socket write that never finishes holds a call for longer than `timeout`.
* A disconnect that ends its log generation after a newer attempt began leaves the status of the
  old subscription as it was (`bridge_state.rs:1088`).
* A write that was sent back for confirmation and then ends without another ticket keeps a record
  that is never final (`mcp/writes.rs:80`). `FirstTryRecordSettles` shows that all others settle.
* `mcp.rs:176`: of two revocations the slower one, with the lower revision, also cancels leases of
  the newer revision. Their clients have to retry; nothing older survives (`RevokedStaysOut`).
* The preview of an undo of a creation names the object and not what was put below it since
  (`mcp/reads.rs:1304`, against `docs/mcp-and-edit-layer-requirements.md:459`).
* `docs/memory-buffer-policy.md:88` asks for at most one thumbnail a second; an invalidate resets
  the cadence. `CadenceKept` is stated up to it.
* `connect_with_retry` with an `initial_backoff` of zero never grows it; a sleep may exceed
  `max_backoff` by the jitter, were there any. A `reconnect()` dropped inside `shutdown()` leaves
  the old dispatcher to its clones; `NoOverlap` does not count it.
* `SseLineScanner` takes lines that end in LF and headers below its limit for granted, as the
  libraries in use write them.
* A `sync_directory` that fails after the rename answers with an error although the new file is
  there; `mrPromised` then holds both values. `set_settings` with the settings in force and a server
  that has died refreshes its state and does not start it again.
* By `process_runtime.rs:47` a normal exit kills the engine, with `kill_on_drop` behind the hook as
  a safety net, and only a forced end of the editor leaves engines. But the end of the process drops
  no future, so in a normal exit the net is not there either. Where no job holds it (other systems
  than Windows, or a failed assignment), an engine outlives the editor if the exit comes while its
  launch waits for READY (`process_runtime.rs:275`), if its handle is stored after
  `shutdown_on_exit` has looked and its monitor has no time to act on the hook's kill, or if a stop
  or a replacement has just told the monitor. `ExitLeavesNone` says what remains: none of the job,
  and not the one the exit found.
* `process_runtime.rs:22` promises one signal for the end of an engine. When two launches race, the
  handle of one replaces the other's (`process_runtime.rs:332`); the replaced engine is killed and
  nothing is said of it. `OneExitSignal` excepts it.
* A read is validated against the catalogue as it is by then, not as it was when its connection was
  pinned (`mcp/reads.rs:840`), and sending checks nothing (`bridge_state.rs:161`), so a read may
  reach the engine of the connection that is being torn down although that never advertised it. Its
  answer is refused (`mcp/reads.rs:852`). `viewport_get_thumbnail` is validated before it pins, and
  `get_raw` pins again (`mcp/thumbnail.rs:208`): an image may come from a later connection than it
  was validated for. `AnswersAreAdvertised` says exactly this much.
* The state of an HTTP connection is one for all its requests. The end of a response finishes the
  request that was active when its head was written, releases the ordinary permit and clears the
  deadline (`mcp.rs:1271`), whoever they were taken for. If the client sends ahead, a request
  that came behind an unwritten response may so lose its registry entry, and with it the
  cancellation by its key or by the loss of its client (its authorization and its deadline still end
  it), or have its event stream written without a watchdog; `LiveIsCancellable` and `StreamIsTimed`
  except these. Permits balance (`PermitsBalance`) and come back (`PermitReturns`) all the same.
  hyper mostly writes a response out before it takes the next request, so the model allows more
  of this than happens. The flag for HEAD is a choice, `WriteBodyless`.
* MCP calls that follow each other without end can keep a Game View call of `get_raw` going round.
* The parsers accept more than the schemas: empty ids, `{"ready":null}` for a state of
  `engine.getStatus` (`status.rs:70`), and arrays for the structs whose reading serde derives
  (`capabilities.rs:23`, `asset.rs:146`). `bridge.getCapabilities` is passed on as it was parsed;
  the state and the answer `[true]` to `asset.reloadManifest`, which `asset.rs:144` calls strictly
  extracted, reach the screen as they came. `ForwardedIsTyped` excepts these two. The history's
  target count includes an object once per record; the `newId` of an applied event is not filtered
  for an empty text.

## 6. Proofs

TLAPS checks every theorem for all values of the constants that the `ASSUME` of the component
allows; TLC evaluates these assumptions in each run. Each component has an inductive invariant,
its theorem `...Invariance`, and theorems for the properties the runs check; the invariants were
checked by TLC on the runs' instances before they were proved. None of the properties is inductive
by itself; what follows says what each invariant adds and why.

**Dispatcher** (`DispatcherProofs`). `TypeCorrect`, `Invariance`, `NoOrphanedWaiter`,
`NoSpuriousClose`, `TimeoutsDoNotLeak`, `OwnAnswers`. `DispatcherInv` adds: a registered or
queued request has an empty oneshot and a caller that waits, is about to cancel or whose `Cancel`
is queued (`EntriesExpected`); an entry lies under its own id (`HolderOwnsId`); a request is not
queued and registered at once (`RegisteredOnce`); a `Cancel` comes from a call that has timed out
(`CancelAfterTimeout`) and never precedes its own `SendRequest` (`SendComesFirst`, without which a
cancel could be consumed before the entry exists and leak it); a call that has not been queued has
a fresh oneshot (`FreshReply`); a stopped task has an empty table and channel (`StoppedIsEmpty`).
`ImplementsContract` is the safety part of the refinement, initial states and steps. It needs
`AnswerInv` (`AnswersInvariance`): an answer was sent to a request the engine has received, lies in
one place, on its way or in one oneshot, and what a call returns is its oneshot's content.

**Connection** (`ServicesProofs`, first part). `SeenLive`, `LateCleanUp`, `OwnedOnce` for any number
of attempts and disconnects. `SessionInv` follows the two facts the code relies on without saying
so: whoever holds the phase's connection is alone (`SoleHolder`), so what a late clean-up took was
replaced before, and every relay and log generation that was built and not ended is held by exactly
one attempt, disconnect or phase (`RelayHeld`, `HoldsFit`).

**Edit queue** (`EditQueueProofs`). `EditReports`, `OperationRecords`, `ShutdownIsComplete` for any
number of writes and steps and any bound of the queue. `QueueInv` says where a write is: queued
once, in work, or with its caller, and which states of its ticket go with that; `ExecInv` what the
two atomics of `McpExecution` know about what was sent; `ReportInv` that report and record tell no
more than these two. The race of cancellation and start is one compare-and-swap of the ticket,
which is why a write that was told `notApplied` is never sent afterwards.

**Authorization** (`McpAuthorizationProofs`). `RevokedOut`, `ConfirmationHolds`, `PolicyAtStart` for
any number of requests, revokers and dialogs. The invariant keeps, for each revoker, how far it has
come (`RevisionsKnown`), so that a lease registered between the revision and the list is seen by the
list or was taken under the new revision, and for each request which snapshot, permit and
confirmation its future holds at each place (`FuturesFit`).

**Server** (`ServerProofs`). `AccountsBalance`: the permits of `McpHttp` are counted as the
cardinality of the sets of connections that hold them (`PermitsCounted`); what else a connection
holds follows from its queue of responses: a stream whose request came behind none is the first of
them and keeps entry and deadline (`StreamFits`), a running request has its own unless it came
behind (`RunningFits`), and a late stream has a deadline, a watchdog or no permit (`LateFits`).
`WordIsKept`: a command's remaining steps are one of few plans (`TodoFits`), a file's `seen` and
`safe` differ only inside a write or after a failed one (`WriteFits`), a server runs with the token
of the file (`ServerReadsFile`, `TokenInHand`, `ServerIsDown`), and the settings in force follow the
stored ones as soon as no plan is left (`SettingsFollow`).

**Services** (`ServicesProofs`, the other parts). `EngineOwned`: a handle is in one place
(`HandleInOnePlace`), a child and its monitor follow the launch (`ChildFollowsLaunch`), what the
screen was told is final (`ToldIsFinal`), a stored handle is held, with a stop or dropped, or the
end was told (`StoredIsKept`, for the promise that one signal comes), and what the exit has joined
does not run (`ExitHasHandle`). `ImageJobsSafe`. `SharedFetches`, with its action property: what the
state keeps, cached or in flight, is of its own generation and size (`KeptIsOwn`), whoever waits
waits for a fetch of what he asked for (`WaitsForOwn`), and the clock of the state is never ahead of
the one the cadence is about (`PacedByState`). `RetriesKeepPace`: the backoff variable, capped, is
the documented base of the next sleep (`BackoffIsBase`), the clock has passed what the sleeps so far
ask for (`PacedSoFar`), and of the dispatchers that live and are somebody's there is one
(`OneIsKept`). The documented base is `initial_backoff` doubled n times, a function defined by
recursion; `Recursion` proves that such a function exists, and `JitterIsBounded` that the wrapping
product does not lengthen a sleep by more than a quarter. `CatalogFollows`: the catalogue offers
what the newest connection advertised or nothing (`OfNewest`), the published session is the
catalogue's but inside `publish_session` (`SessionFits`), a list that is not current is going to be
renewed (`StaleIsKnown`); a call knows which engine it is sent to (`KnowsItsEngine`), a write was
let through by that engine, another read at least if that engine is still the current one, which is
what its answer is checked for (`LetThrough`), and an image was validated by an engine that is not a
later one (`ImageChecked`). The lemmas `ReadsNeedTheirMethods` and `WritesNeedTheirMethods` go
through the tables of all tools. `OperationsAreTold`: the latest list is shown or on its way to a
panel that has asked (`LatestIsComing`), nothing told is newer than the store and what has its
revision is its content (`AllGenuine`), the files are the last part of what was saved, through
rotations and failures (`FilesFit`), and a line of the actor is there only for what the actor has
settled (`ActorSettled`).

**Edit service** (`EditServiceProofs`). `ActsAsShown`, `OneHistoryGeneration` and
`CaptureStaysCurrent` for any number of objects, values, edits, groups and connections and any size
of the correction cache. The core of `EditInv`: the history revision moves with every change of a
stack, so that a cursor of the present revision shows present entries (`CursorFits`); an open
group's entries have its token for key and no entry below them has, so that closing a group shows
the same run (`GroupFits`); while a group is pending none is open; an edit in work leaves only its
own group open and an undo, redo or retry none (`EditRunFits`, `HistoryRunFits`), so that the plan
stays what was shown until it is carried out. Every operator of `EditHistory` has a lemma that says
which histories it leads to (`...Follows`).

`CaptureStaysCurrent` needs `CacheInv` on top of it. `Knows`: of every slot that no unanswered
request may have changed and no request in flight has, a correction has the engine's value, and a
capture of the connection has it too, or the cache has the slot at a later revision than the
capture's, or counts such revisions as lost. `AnswerFits`: the answer on its way is of the engine as
it is, and a new object has the root's value for every attribute, which is what the cache notes
without being told. `StepInv`: no two entries of the stacks and the group have one number
(`Unique`), and the step an undo or redo has sent is the top of its stack, those it has left lie
under it (`StepsFit`), so that the answer is written to the slot the step was about and not dropped;
without it an undo could change the engine and leave the cache behind. The lemmas `...Unique` and
`...Tells` say this of every operator of `EditHistory` and of every action: between two states a
correction stays, is forgotten and counted as lost (`Ages`), or is new and the engine's
(`Learns`).

**Edit groups** (`EditGroupProofs`, on top of `EditServiceProofs`). `GroupsKeepWhole` and
`TargetsStay` are about the order in which the entries lie, so the proofs read a history as one
walk: `At(h, 1)` to `At(h, Span(h))` are the undo stack, the open group and the redo stack from its
top down, `Here(h)` is the place between what is done and what is undone. An undo or redo moves
`Here` by one and leaves the walk as it is, an edit cuts off what lies behind `Here` and appends,
discarding a pending group takes out its block; each operator of `EditHistory` has a lemma that says
which.

`GroupInv` (`GroupInvariance`): every entry that is not in the open group lies in a block of as many
entries as it counts, all of its key and all of that key (`Blocks`); the open group lies at the end,
and behind it nothing once it has an entry (`GroupKeys`); `Here` cuts at most one block, that of the
undo, redo or retry in work or of the pending group (`Cut`, `BusyKey`); and what that item has done
and has left adds up to the block (`Accounts`, `WorkAccounts`, `PendingFits`). A discarded
group goes as a whole, which keeps the blocks on both sides of it whole.

`TargetInv` (`TargetInvariance`): no entry acts on an object before the one that creates it
(`CreatesFirst`), and every entry's object is there, lost to the history, or brought back by a
redo that comes first (`Reaches`). Between the engine's answer and its recording the state of
the engine is ahead of the history, so the invariant speaks of the answer too: an accepted deletion
is counted among the lost (`Leavers`), a created object is new to the history (`AnswerReaches`),
which is why a redone creation can be renamed without capturing another object's entries.

**Edit values** (`EditChainProofs`, on top of `EditGroupProofs`). `HistoryKeepsWalking` reads the
same walk slot by slot. `ChainInv` (`ChainInvariance`) says of the walk that, of every followed slot,
each entry's new value is the next one's old value, and within one group of every slot (`Linked`);
that what a group changes first of an object it has created was as new (`Rooted`); and that the
values are such as the engine takes unchanged (`Ranged`). Of `Here` it says that the last entry done
and the next one undone of a slot meet in the value the scene has (`Meets`), which is what an undo
or redo then starts from. Groups need clauses of their own (`Linked` within a key,
`Rooted`, `Grouped` for the open one), because a redone creation gives the entries of its group
another id, whose slots are followed from then on: inside a group the values have to fit also where
the slot was not followed, and the first change of an object the group creates has to start from
what a new object has.

The difficulty is the time between the engine's change and its recording. `Scene` is the scene the
history is about: where an edit with a known old value is done and not yet recorded, the value
before it, otherwise the engine's. An edit whose old value was not known, a deletion and a step of
an undo have no such value; their slots are left out until they are recorded (`Away`). The answer
then has to agree with both sides: `OldFits` says that an edit's old value is the engine's
until the engine has changed it, `StepTaken` that a step's value is there once it is answered. `Held`
is what the types need of the cache: no more corrections than `MaxCorrections`, none of revision 0,
and only values of the engine.

Proving these changed the model in five places. `Followed` leaves out slots of orphaned objects from
`HistoryWalks`: with larger bounds than the runs' TLC finds a single redo of a creation that other
groups refer to, after which their entries keep the old id, the case that
`docs/mcp-and-edit-layer-requirements.md:436` already gives up. `EditAnswered` clears `unsure` at an
accepted deletion, because the correction cache is then marked as lost as a whole and every earlier
capture is answered with a refresh, so the promise holds again for those slots. `Discard` names the
entries by their set instead of their places. `NoneAssumption` says of a pending group what it said
of all other records. `AnyEntry`, the type of the entries, has no entry without a generation: none
is recorded while there is no connection.

**Assumptions** beyond types. `ImageAssumption`: the set of callers is finite (the workers' places
are counted). `QueueAssumption`: a group control has one step. `RuntimeAssumption`: a missing and a
corrupt file are told apart from a generation number. `EditAssumption`: the bounds are numbers and
`None` is not one. `BoAssumption`: the quarter of a configured backoff fits into the width of the
code's integers, which have at least one bit. `NoneAssumption`: an absent value is none of the
records it may be absent for. None restricts the code; `MaxSequence`, `MaxRevision`,
`MaxGeneration` and the like are bounds of the models that the theorems hold for whatever their
value.

**Induction over data.** The library's induction theorems take an operator as a parameter and
cannot be instantiated. Where a proof needs induction, over the length of a stack or the number of a
sleep, it takes the least counterexample instead (`Least`, from the well-foundedness of inclusion of
finite sets).

**Only model-checked**, and why:

* liveness (`CallReturns`, `ServiceReturns`, `RequestSettles`, `ServerComesToRest`,
  `ServicesComeToRest`, the liveness of `Contract`): fairness and `ENABLED` are out of the prover's
  reach;
* `CommandsKeepTheSchema`: `AnswerShapes` is recursive over JSON values;
* `TrackerReadsTheWire`, `WriteStaysInScope`, `LogIsHonest`, `ReadsAreWhole`: not attempted; the
  last two are about sums and selections over sequences.

## 7. Plan

Done: `Dispatcher` with proofs; `BridgeSession`; `EditHistory`, `EditService`; `EditQueue`;
`McpAuthorization`, `McpScope`; `McpHttp`, `SseWire`, `McpRuntime`; `EngineProcess`; `Thumbnails`,
`ImageWorker`; `LogBuffer`, `ReadSnapshots`, `Operations`, `ToolCatalog`; `Reconnect`;
`AnswerShapes`, `ScreenCommands`; `RequestContract` and its refinement; proofs of all but the
properties listed above.

Next, in this order:

1. `ReadsAreWhole` and `LogIsHonest`, with the sums as recursive functions.
2. The screen's reducer for connection and history events; the C++ bounded queue.

## 8. Not modelled

JSON codecs, HTTP headers, image decoding, the encryption of the token, path checks, workspace and
asset files, rendering and layout: stateless or outside TLC's reach. What each read tool makes of an
answer beyond its check is formatting. `clear_for_shutdown` of the history runs when the process
ends. The engine is external: it may do whatever the code in the editor has to cope with. Changes
the engine makes by itself, without a request, are in `McpScope` and not in `EditService`, whose
history does not know of them. Queries and `asset_reload` bypass the edit queue in the code; the
models of the queue have none. Of the file writes the unix build is modelled, where the directory is
synchronised after a rename.
