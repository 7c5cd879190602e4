# A TLA+ model of HeliosLite

HeliosLite is a coding agent in Rust: a CLI (`forge_main`) drives an agent loop
(`forge_app`) whose conversations live in SQLite (`forge_repo`), optionally
written through a daemon (`forge_dbd`). Around these sit services, adapters,
telemetry, relays and terminal crates. The modules here model the parts in which
the order of events decides correctness: the write daemon, the routing of writes
to it, the conversations table under concurrent statements, the agent turn with
its compaction, the MCP service and its client, the telemetry sink and its
journal, and the agent-registry daemon. They are checked with TLC on small instances.
Every safety property that TLC finds true there, and the refinement, is also proved
with TLAPS for every instance; liveness stays with TLC.

`PROJECT.json` maps every definition to the lines it models.

## 1. Inventory

### Components, their state and operations

| Component | State | Operations |
|---|---|---|
| `forge_dbd` server (`server.rs`) | accept loop, one handler task per connection, bounded channel (1024), writer batch, lazily opened connection, `queue_depth`, `active_connections` | accept, read frame, ping, enqueue, answer, time out; batch, open, execute, account; idle shutdown, signal drain, crash |
| `forge_dbd` client (`client.rs`) | a fresh stream per request | connect with ping, `send_classified`: `Ack`, `Unavailable` (nothing was sent) or `Indeterminate` |
| `DaemonConversationRepository` (`daemon_repo.rs`) | cached client, `lifecycle_lock`, process-wide `SPAWN_ATTEMPTED` | ensure a client (probe, spawn once, poll), send, evict a stale client, fall back to a direct write |
| `ConversationRepositoryImpl` (`conversation_repo.rs`) | the `conversations` table: context as text or zstd blob, owner workspace, intent state; an attached read-only legacy database | upsert, delete, rewind, mark intent, prune, compress all, forget, import; queries |
| `Orchestrator` (`orch.rs`) and `ForgeApp::chat` (`app.rs`) | local context, `self.conversation`, dirty flag, drop guard, request and error counters | flush, request, execute tool calls, append, limits, End hooks, completion, final save, cancellation |
| Hooks (`hooks/*.rs`) | none between events, except title tasks | doom-loop reminder (Request), compaction (Response), auto-repair (ToolcallEnd), pending todos (End) |
| `MpscStream` (`forge_stream`) | channel of one, task handle | spawn, poll, abort on drop |
| `ForgeMcpService`, `ForgeMcpManager` (`forge_services/src/mcp`) | tool map, failed servers, hash of the configuration they stand for, `init_lock`, cached server list, trust decisions | call, list, reload, write the configuration; gate, prompt, clear, connect, commit; cancellation |
| `ForgeMcpClient`, `CircuitBreaker`, `Bulkhead` (`forge_infra`) | cached connection, `connect_mutex`, breaker state and failures, permits | connect, call, retry, evict, trip, half-open |
| `forge_tracera` | bounded event store, journal on disk, batches, shutdown flag, current and previous credentials | submit, drain, send with retries, requeue, flush, shut down, rotate, replace; append, compact, replay |
| `forge3d` | lock, pidfile, socket path; registry of leases | start, serve, stop, die; register, heartbeat, deregister, list |
| `forge_sharecli` | channels with sequence numbers, bounded queues | publish, subscribe, lag, relay |
| `forge-daemon` (Zig) | ring buffer, workers | push, pop, wrap |
| `forge_lsp`, `forge_cloud` | pending requests, task states | request, reply, restart; schedule, finish |
| compaction (`forge_app`, `forge_domain`) | none (pure) | choose the cut, summarise |
| everything else | configuration, files, terminals, HTTP | I/O, parsing, rendering |

### How they interact

`forge_main` calls `ForgeApp::chat`, which prepares a conversation and spawns one
task that runs `Orchestrator::run` and sends events over an `MpscStream` with room
for one. For an announced tool the task waits until the consumer notifies it that
the header is shown. Dropping the stream aborts the task at any `await`. The task
persists the conversation through the conversation service; its writes go to
`DaemonConversationRepository`, which sends them over a Unix socket to a daemon
shared by all processes or, when none can be reached, executes them on its own
pool. Daemon and direct connections write to one SQLite file: only single
statements, and the import transaction, are atomic.

A tool call of the turn may go to `ForgeMcpService`, which connects the servers of
the configuration that the trust gate admits, lazily and at most one update at a
time, and gives each server a `ForgeMcpClient` that concurrent calls share. The
turn puts a timeout on every call, so any of these futures may be dropped at any
`await`. Telemetry events are submitted from any task and flushed by others.
`forge3d` is a process of its own; agents talk to whichever one the socket path
leads to.

### What is hard

* *Concurrency*: handlers, the accept loop and the writer share a channel whose
  closing ends the writer; several processes race for one socket path; several
  connections interleave statements of operations that read, check and write.
* *Failure*: a daemon dies with a batch half committed; an answer is lost after
  the commit; opening the database fails; a save fails in the middle of a turn;
  the consumer goes away.
* *Ordering*: parallel tool calls merged with sequential ones; hooks that change
  one of two copies of the context.
* *Timeouts*: a response timeout does not withdraw the request; the idle timer
  races accepted connections; polling for a spawned daemon ends; a cancelled call
  leaves behind what it had cleared, and a breaker that waits for its report.
* *Stale decisions*: a trust decision, a credential, a configuration hash or a cached
  connection is read before an `await` and used after it.
* *Limits*: a failed batch comes back to a store that has filled up meanwhile.

### What makes each modelled component correct

* daemon: an acknowledged mutation is committed, each at most once, in the order
  accepted; a graceful exit loses nothing; every request is settled.
* routing: a write reaches the database by one path only; success is never
  reported for a write that is not there; nobody writes directly beside a
  recovery in the same process; every write returns.
* table: scoped operations leave rows of other workspaces alone; nothing but the cut
  of a rewind makes a row undecodable. (No row should be, and maintenance should lose
  nothing: see `store_rewind` and `store_compress_race`.)
* turn: a request is made with stored history only; completion is announced only
  when everything is stored; calls keep their results, merged in their order and
  compaction included; a limit closes the turn until an End hook reopens it; nothing
  but an End hook sends the loop round past a limit. (It should also make no more
  requests than the limit allows and reminders ask for once each: it does not, see
  `turn_past_limit`.)
* MCP service: only servers the user accepted are connected, reported or cached; an
  unchanged hash means that the tools are there; updates end.
* MCP client: the breaker follows the failures; a live connection is not replaced.
* telemetry: every accepted event is waiting, out, delivered or counted as dropped,
  and in one of these only; order is kept; a revoked credential signs nothing new;
  the journal keeps the line of an accepted event, in order, through appends, crashes,
  replays and requeues. (It should deliver at least once: it does not, see `journal_loss`.)
* registry daemon: one process owns the slot and the path leads to it; live agents
  are listed and silent ones are not.

## 2. Modules

| Module | Models | Composition |
|---|---|---|
| `MutationService` | the contract of `send_classified` (abstract) | refined by `DbServer` |
| `DbServer` | the daemon and its clients | instantiates `MutationService` |
| `DaemonRepo` | routing in several processes, with daemons reduced to what `DbServer` shows of them | composes tasks, processes, daemons and the socket path |
| `ConversationStore` | the table under direct sessions, the daemon and maintenance | composes both writers |
| `Orchestrator` | one turn: run, hooks, tools, consumer, persistence, cancellation | composes task, hooks and consumer |
| `McpService` | ForgeMcpService and ForgeMcpManager under concurrent, cancelled callers | callers, user, file, cache |
| `McpClient` | one ForgeMcpClient with breaker and bulkhead | concurrent calls |
| `Telemetry`, `DiskStore` | the sink over its MemoryStore; the journaled store | submitters, flushers, credentials; crashes |
| `Forge3d` | the registry daemon's slot and leases | processes that share three files |
| `MCDbServer`, `MCDaemonRepo`, `MCConversationStore`, `MCOrchestrator`, `MCDiskStore` | TLC instances of one module | |
| `MCTurnRouting`, `MCMcp`, `MCStores` | TLC instances of several modules that share no state: every behaviour belongs to one of them (`part`), the others stand still | the turn and the routing; the MCP service and its client; the sink, the journal, the table and the registry |
| `DbServerProofs`, `DaemonRepoProofs`, `ConversationStoreProofs`, `OrchestratorProofs`, `McpServiceProofs`, `McpClientProofs`, `TelemetryProofs`, `Forge3dProofs` | theorems | extend the component (`TelemetryProofs` both stores) |

A definition `D_Faulty` is a plausible slip in the code that `D` models. Nothing
uses it; put in the place of `D` it must break a property, which shows that the
property depends on that line of code.

### DbServer

Variables follow the code's objects: `phase` is the run loop; `handler[c]` the
program counter of a `handle_client` task; `queue`, `batch` and `flushLen` the
channel, the writer's vector and the length it read before the flush; `oneshot`
the response channels; `queueDepth` and `active` the two counters (integers, so
that a wrap-around of the `AtomicUsize` shows as a negative value). `enqueued` and
`processed` are history variables. A request is its connection, its number and
its kind (`legacy`: an unscoped mutation, always refused). A timer may fire
whenever the code can be suspended on it. `Crash` is `kill -9`.

### DaemonRepo

One write per task (`Writers` are pairs of a process and a task). `stage` walks
through `try_daemon` and `ensure_client`; `lifecycle` is the lock; `probes`
numbers the `DbClient`s, so `Arc::ptr_eq` becomes equality of numbers. A daemon
starts (`CheckSocket`, `RemoveSocket`, `BindSocket` are separate system calls),
takes and executes requests, drains and dies. A process spawns at most one daemon
because `SPAWN_ATTEMPTED` is never reset. A daemon takes
a request in one step; `DbServer` shows in detail what happens inside.

### ConversationStore

A session executes one multi-statement operation at a time; each SQL statement is
one step, and between two of them any other session, the daemon, a forget or an
import may run. `Decoded` is what `Conversation::try_from` reads; `Encodings` is
`encode_context` (and `persist_context` of the daemon, which writes the same
columns): the blob, the plain text when compression fails, or nothing for an
empty context. `Truncations` is what the rewind search really does: it looks for
`"role":"user"` although roles are stored as `"User"`, so it empties the context,
or cuts inside a tool argument that holds that text (the contexts in `Marked`) and
leaves text that is not JSON (`broken`), which may still hold the searched text.

### Orchestrator

`pc` names the await points of `run`. `context` is the local variable and
`conversation` the field: hooks change the field only, and the loop copies one to
the other where the code does. `stored` is the database's copy of the context; the
todo list is not persisted. A message keeps its
kind, the response it belongs to and, for a call or a result, its position.
`Cancel` aborts the task and runs the drop guard. The code splits the calls into tasks
and others by one predicate, runs them as two lists, and merges the two lists of
results by another: `ResultOrder[i]` is the call whose result the merge puts in place
`i`, and `Appended` puts it behind the response. `NeedsReminder` compares the todos'
texts with what it reads back from the lines of the last reminder, where `&`, `<` and `>`
are escaped and a text ends with its first line (`ReadBack`; `Escaped` are the todos
that this changes). `Compactions` is the code's
choice of what to evict: from the first assistant message to the start of the
retention window, pulled back by `EvictionEnd` so that calls and results stay
together. `interrupted` says that an Interrupt was sent and that no End hook has
reopened the turn since.

### McpService and McpClient

A configuration is the set of its enabled servers, so the hash of a configuration
is the configuration. `caller[c]` walks through the awaits of one call: `check` and
`lock` are the two looks of `ensure_mcp_initialized`, `gate` and `prompt` the trust
gate (run under `init_lock` for an update and without it for the cache key of a
list), `clear`, `connect` and `Commit` are `update_mcp`. A call holds the read guard
of the tool map while it runs (`Readers`), which `Clear`, `Connected` and `Drop` wait
for. `Cancel` releases guards and undoes nothing. `accepted` is what the user said
yes to; `stale` is the hash that a cancelled update left over a cleared map.

In `McpClient` a connection is the number of its handshake, 0 for none. `Begin` is
bulkhead and breaker, which let a call in or refuse it at once; `TransportFails`
clears the cached connection and retries; `CancelCall` tells the breaker nothing.

### Telemetry and DiskStore

An event is the number of its acceptance. `flusher[f]` is the flush of one task: the
batch it drained, the attempt and the credentials that signed it. The collector may
answer, fail or lose its answer at will; a batch whose answer was lost is sent again.
`expired` says that the overlap window of a rotation is over. In `DiskStore` a line
of the journal is the event it holds or `Garbage`; `torn` says that it has no end,
and the next line is glued to it. An append that fails, and a crash in it, may leave
nothing, a part of the line, all of it but its end, or all of it (`AppendCutShort`).

### Forge3d

Each system call on the lock, the pidfile and the socket path is a step of a
process, `Kill` may come between any two, and a process's name is its pid. A signal
stops a process that serves, or one whose serving task has not run yet. Time is
counted in units of which `Lease` make `LEASE_MS`. `contact` is when the serving
process last heard of an agent.

## 3. Runs

| Run | Instance | Shows |
|---|---|---|
| `daemon_safety` | 2 connections, 2 frames each, channel 1, batch 2, symmetric connections | acknowledgements, order, drain, exit of the writer and accounting under every interleaving, timeout and crash |
| `daemon_service` | 2 connections, 1 frame each, fair | refinement of `MutationService`; every request settles, every accepted one is processed, a drain ends |
| `routing_safety` | 2 processes (2 and 1 tasks), up to 3 daemons | no write is delivered twice, Ok means applied |
| `routing_single_writer` | as `routing_safety` | *violation*: two daemons serve one database |
| `store_compress_race` | 2 rows (one id also legacy), 1 session | *violation*: compression overwrites a newer context |
| `store_rewind` | 1 row, 1 session, a context with the searched text in a tool argument | *violation*: a rewind leaves a row that does not decode |
| `turn_and_routing` | turn: 5 tools, 2 calls per response, 2 answers, limit 2, failure limit 1, two todos, the text of one escaped, reminders and compaction on; routing: 1 process, 3 tasks, 2 daemons; fair | pairing through merge and compaction, write-ahead, completion, no repeated reminder of a plain list, no request after an interrupt, every round ends; no direct write beside a recovery, no eviction of a newer client, every write returns |
| `turn_drop_guard` | 1 tool | *violation*: the drop guard persists nothing |
| `turn_past_limit` | 1 tool, 3 answers, request limit 1, one todo with an escaped text | *violation*: the reminder is repeated and the turn goes on past its limit |
| `mcp` | service: 2 callers and a local file that names one server or none, or 1 caller and a file that names any of two; a user server, one edit, fair; client: 3 tasks, 2 permits, threshold 2, 3 handshakes | only accepted servers; the hash stands for a populated map; updates end; the breaker follows the failures; no live connection is replaced |
| `stores` | sink: 2 flushers, 4 events, store of 2, batches of 2, 2 attempts, 2 credentials; journal: capacity 2, 4 writes; table: 1 row, 2 workspaces, 2 sessions, one context, which holds the searched text; registry: 3 processes, 1 agent, lease 2, clock to 6; processes, sessions and flushers symmetric | conservation, order, revocation; lines kept, replay in order; isolation, only a rewind breaks a row; exclusive slot, reachable daemon, correct listing |
| `journal_loss` | capacity 2, 4 writes | *violation*: a torn line makes every later open fail, and the accepted events before it are lost |

In `turn_and_routing`, `mcp` and `stores` each behaviour belongs to one part, and the parts
share no variable: the states of such a run are the sum of the states of its parts, and
every property speaks of its own part. The longest run takes less than three minutes on
two cores.

### Why the bounds are enough

Every queue is small enough to be full and large enough to hold two requests that
can be swapped: with a channel of one and a batch of two a handler blocks on the
channel while the writer holds a request of each connection, and a threshold
flush, a window flush and a final flush all happen. Two frames per connection let
a late answer meet the next request. Two processes are what a race for a socket
needs; a second task in one of them meets its lifecycle lock; three tasks are what
an eviction needs (one with a stale client, one recovering, one using the new
client). One row is enough for races on a row, two rows for a compression pass that
is half done, two sessions and the daemon for three writers; one context can be
whole, emptied, cut, cut again, compressed and absent. In a turn, two answers
with a request limit of two reach the limit and a reminder reopens the turn after
it; two calls per response can be out of order, and the retention window can begin
between their results; a task behind another call makes the merge swap the order of the two
lists; the failure limit of one interrupts a turn after its first response; of two todos
one survives the escaping. (On a larger instance, with four answers, a compaction evicts
the reminder that stood between two equal ones, which is why `RemindsOnce` lets a
summary separate them; its theorem covers turns of any length.) Two callers are what a lock with a fast path needs: one updates, the other
looks, calls, reloads or is asked about the same file; one edit changes or reverts
the configuration in between. With one caller, the file may hold two different
sets of servers before and after the edit, so that a decision on the one is there to
be mistaken for the other. On the client, three tasks with two permits fill the
bulkhead, a threshold of two opens the breaker with a third call still out, and
three handshakes let a connection be lost, replaced and lost again. Two flushers of
a store of two with batches of two fill the store while a batch is out, and two
events more make the requeue drop. Three processes are a predecessor that goes
away, its successor, and a rival of both; six ticks are three leases.

`MaxFrames`, `MaxCalls`, `MaxAnswers`, `MaxEdits`, `MaxConns`, `MaxFailures`,
`MaxEvents`, `MaxWrites` and `MaxTime` are bounds of the model; `QueueCap`,
`BatchThreshold`, `MaxRequests`, `ErrorLimit`, `Permits`, `MaxAttempts`, `Capacity`,
`BatchSize`, `MaxRetries`, `JournalCapacity`, `DrainMax` and `Lease` are parameters of
the code. At
`MaxAnswers` the provider gives no further answer. Nothing obliges it to fail then, so
the bound does not end a turn: a turn that an End hook has reopened may stay there, as
in the code it may go on. `RoundEnds` therefore speaks of what the code does promise, a
way from the head of the loop to the End hooks within the request limit, and
`MaxAnswers` is not below that limit.

Deadlock is not checked where the system may stop: a daemon exits or is killed, all
writes are done, a turn is over, the processes or the bounded inputs of an instance
are used up.

### Fairness

* `DbServer`: weak fairness of each handler, of the writer, of accepting, of
  delivery and of noticing a closed stream. The tokio runtime polls every ready
  task and fires every timer, and the kernel delivers. Nothing obliges a client to
  send, the operator to stop the daemon, or a process to crash.
* `DaemonRepo`: weak fairness of each task (polls and timeouts end) and of each live
  daemon; none for stopping or crashing one. `WritesSettle` holds although a probe
  of a draining daemon waits under the lock, because draining ends.
* `Orchestrator`: weak fairness of the task and of the consumer that shows headers.
  Providers answer (HTTP timeouts; failing is never obliged), and so do tools (`call_with_timeout`);
  an agent called as a tool has no timeout, but is itself such a turn.
  Cancellation is never assumed.
* `McpService`: strong fairness of each caller's steps. tokio's locks are FIFO queues,
  so a caller that waits is served although others keep coming; servers answer or
  time out; the user answers a prompt. No caller is obliged to begin anything.

### What the violations show

* `routing_single_writer`: `run_unix` unlinks whatever is at the socket path and
  binds, with neither a lock nor a liveness probe. Two processes that find no
  daemon each spawn one; the second takes the path away from the first, which goes
  on serving its open connections. The design (ADR 004 and the P3 document)
  requires one writer and a guarded start.
* `store_compress_race`: the pass reads all plain rows first and updates each by id
  alone, so what was saved in between is replaced by the older text. The trait says
  it is safe to run at any time.
* `store_rewind`: `truncate_context` (`conversation_repo.rs:2426-2442`) cuts the text in
  front of the last `"role":"user"`. Roles are stored as `"User"`, so that text can only
  stand inside a tool argument; the prefix with `"rewound":true}` behind it is not JSON, although
  the comment promises "a valid JSON shape". `OnlyRewindBreaks` shows that nothing
  else makes a row unreadable.
* `turn_past_limit`: a reminder of the End hook clears the `should_yield` that the
  request limit has set (`orch.rs:506`). One request more for each list of todos is
  what the hook is for, and `LimitHolds` allows it. But a reminder is escaped when it is
  written (`pending_todos.rs:124`, `forge_template/src/element.rs:36`) and compared with
  the raw contents (`:94`), so a todo with `&`, `<`, `>` or a line break is reminded of at
  every End, and the turn makes requests for as long as the provider answers and the
  todo is active. `forge_config/src/config.rs:268` says "Maximum number of requests that can be
  made in a single turn." The same happens when a compaction evicts the reminder.
* `journal_loss`: the module says "at-least-once delivery, never lost". The run's trace
  is the shortest: an event is accepted, the process dies within the line of the next
  one, and `open` (`disk_store.rs:138-143`) refuses the journal because of that line, now
  and ever after. Two more ways lead there: a line that is torn swallows the
  event accepted after it, and `compact` or `close` with a batch out rewrites the journal
  without that batch, which a crash, or an end without requeue, then loses; the
  module's doc advises to compact after a large drain. `JournalKept` says that there are no others.
* `turn_drop_guard`: the guard copies `dirty` and the conversation before anything
  has changed and is never updated, so its `drop` finds nothing to save.

## 4. Proofs

All theorems hold for every value of the constants under the named assumptions of
the modules.

**DbServerProofs.** `TypeCorrect`: `TypeOK` is not inductive, because the capacity of
`batch` and the head taken by `ExecuteOne` depend on where the writer is;
`TypeInv` adds `FlushShape`, which ties the batch and `flushLen` to the writer's
program counter. `AckCorrect` rests on `CommitGrows` (committed requests stay
committed). `FifoCorrect` follows a request from channel to batch to history with
three lemmas on concatenation. `WriterExitCorrect` and `DrainCorrect` use `ExitInv`:
once the writer is done nobody holds a sender, nothing is queued, and the run loop
has left its accept loop; with `Fifo` this gives that what was processed is what
was accepted.

`OnceCorrect` needs to know why a request cannot be enqueued twice. `Exchange` says
that a connection has one exchange at a time: while a frame, a handler or a reply
is about its newest request, the client has no verdict on it and sends no other.
So what a handler sends is newer than all that entered the channel from this
connection (`Enqueues`), and what the writer finished is an initial part of what
entered (`ProcessedPrefix`). `DepthCorrect` takes each term of `DepthAccounting`
through each step; the cardinality of the set of senders changes by one. It gives
`DepthNeverWraps`: the unsigned counter never goes below zero.

`RefinementCorrect` uses the same invariant: a frame that is sent is a `Submit`; a
successful `ExecuteOne` is a `Commit`, allowed because `CommitsProcessed` and
`OnceCorrect` exclude an earlier commit and `Exchange` an earlier acknowledgement;
a reply received and an abandoned exchange are a `Tell`, where `AckCorrect` gives
that an acknowledged request is in the log. All other steps stutter.

**DaemonRepoProofs.** `TypeCorrect` needs `LockHeld`: a task that looks for a daemon
holds the `lifecycle_lock` of its process, and one with a stream knows whose it is.
`DeliveryCorrect` and `OkCorrect` use `DeliveryInv`: a write is in at most one daemon's
queue and there once (`QueuedOnce`); a queued write is handed over and not applied; an
applied one is handed over, and from there no step leads to the direct path
(`Delivery`): an indeterminate outcome is reported and not retried. `FallbackCorrect`
and `EvictionCorrect` are action properties: they find the steps that reach the
fallback or empty the cache, and `LockHeld` says who may recover at that moment.

**ConversationStoreProofs.** `TypeCorrect`; `IsolationCorrect`: each scoped write
repeats the workspace predicate in its own statement, so the proof needs nothing of
what happened since the validation. `ReadableCorrect` has no hypothesis on the contents:
`ReadableWrite` shows that what upserts and imports write can be read whatever the row
held, `ReadableUpdate` that of the updates of a readable row only one that writes a cut
text makes it unreadable, and `BreaksOne` that a step can break no row but the one it
writes. Each action then needs `TypeOK` only.

**OrchestratorProofs.** `SentCorrect` uses `Synced`: the flush at the top of the loop
stores the context that is about to be sent, and the Request hooks change the other
copy. `CompletionCorrect` uses `Settled`: after the final flush only the final save
changes what is stored, and the drop guard is disarmed once `run` has returned.
`LimitsCorrect` uses `Closed`: an interrupted turn that no End hook has reopened is
past its request and yields.

`TypeCorrect`, `PairedCorrect` and `RemindsCorrect` share the invariant `TurnInv`, which
speaks of every copy of the conversation, since each may become the next context:
the local one, `self.conversation`, the stored one and the drop guard's are all `Good`
(typed, paired, reminders spaced). The lemmas are about contexts only: `GoodAppend` for
a message that a hook adds (for a reminder, because the last one lists other todos),
`GoodExchange` for a response with its results, and `GoodCompaction`. `GoodExchange` rests on
`OrderIdentity`: splitting the calls by one predicate and merging the results by the
other gives every call its own result, because the two predicates agree. `RemindsCorrect`
is about lists without an `Escaped` item; the others are repeated at every End. `GoodCompaction`
is the core: `EvictionUncut` shows that each case of `find_sequence_preserving_last_n` yields
a boundary that no group of call and results spans, and `GoodCut` that evicting
from the first assistant message to such a boundary keeps every other group whole;
no result can stand before the first assistant. For the counters, `Counts` adds where
a response is answered and not counted yet.

**McpServiceProofs.** `TrustCorrect`: `OnlyTrusted` says nothing of a caller between the
gate and the connection; `TrustInv` types what it carries (`Jobs(A)`: only servers of `A`)
and adds that a remembered yes is about accepted servers, so a decision reused by the
gate admits nothing new. `accepted` only grows, which carries every caller over the
answer of another one. `ReadyCorrect` uses `ReadyInv`: who clears or fills the map holds
`init_lock`; while an update fills it, every trusted server is connected, failed or
still to do (`Progress`), and the hash is the one it found, which is what a
cancellation then leaves as `stale`.

**McpClientProofs.** `BreakerSound` is inductive once the counters are typed: a report
never leaves the breaker half-open, whoever makes it. `ConnectionCorrect` uses
`ConnectInv`: whoever shakes hands holds `connect_mutex` and found no connection.

**Forge3dProofs.** `SlotCorrect` and `ReachableCorrect` use `SlotInv`: the holder of the
lock is the process between lock and closed listener, so only that process touches
the socket path. `ListedCorrect` uses `LeaseInv`: a lease is dated
between the last contact and one lease later.

**TelemetryProofs.** `EventsCorrect`: `EveryEventOnce` alone is not inductive. `SinkInv` adds
that a batch repeats no event (or a requeue could repeat it in the queue), that a
flusher at the head of its loop holds none (or a drain would lose its batch), and
that `lost` is finite, so that what a requeue has no room for changes `total_dropped`
by its number (`PieceCardinality`). What one flush does to `Held` is split into its own
batch and those of the others (`HeldParts`, `HeldStep`). `OrderCorrect` uses `OrderInv`: as
long as no batches overlapped, one flusher at most holds events, and they are older
than the queue. `RevocationCorrect` uses `AuthInv`: what `set_auth` replaced is neither
current nor previous. `JournalCorrect` and `ReplayCorrect` use `JournalInv`: a rewrite
replaces the file by the buffer, so an accepted event that is on a line must also be in
memory or settled while the store is open (`Covers`); a line that is torn, and that the
next append spoils, is not of an accepted event (`Accepted`); batch, buffer and the lines
without garbage are in order and nothing exceeds `writes` (`Ordered`). `JournalCorrect`
excepts nothing that the store does by itself: it says that the line of an accepted event
leaves the file by a rewrite with the event out, and in no other way.
All rest on three lemmas
about appending to, joining and cutting sequences (`AppendElements`, `ConcatElements`,
`CutElements`).

**Assumptions.** The constants' types only (sizes and limits that the code has as positive
`usize`, bounds that are naturals, distinct names for nothing).

**Only model-checked**: what needs fairness: `EveryRequestSettles`, `DrainTerminates`,
`EnqueuedGetsProcessed`, `WritesSettle`, `RoundEnds` and `UpdatesEnd`. Liveness under
fairness, and `ENABLED`, are beyond the prover. The least and greatest elements that the
operators choose (`LeastExists`, `GreatestExists`) are obtained from the library's theorem on
well-founded relations, because its induction theorems cannot be instantiated here.

## 5. Observations

Seen while modelling, and not the subject of a run.

Conversation store and daemon

* The guard of `prune_conversation` on `verified` is on the row it read; the UPDATE
  (`conversation_repo.rs:1416`) repeats workspace and id only, so a conversation set
  back to pending in between loses its context, although
  `forge_domain/src/repo.rs:557-560` promises a safety guard.
* An upsert keeps the intent state (`:433`): messages added after `verified` were
  never extracted, yet the conversation stays eligible for pruning.
* `prune_conversation` writes its summary to the plain column
  (`conversation_repo.rs:1421`), but readers prefer the blob of a compressed row, so
  pruning such a row changes nothing they see.
* `rewind_conversation` also writes the plain column only: on a compressed row it
  reports success and changes nothing visible. On a plain row the search text
  differs from the stored spelling (`:2399`), so the whole history is emptied although
  the comment says that it errs on keeping more.
* The daemon's upsert (`server.rs:635-650`) has no owner predicate: a write for an id
  that another workspace owns changes that workspace's row, which the direct path
  refuses.
* Requests of a batch are executed in autocommit mode (`server.rs:498`), while the P3
  document has all batched writes inside one transaction.
* The in-process path of `helios-bot` (`agent.rs:72-79`) asks for a chat on a
  conversation id it never stored, which `ForgeApp::chat` refuses; it always falls
  back to the binary. Its collecting loop also never notifies a tool header, which
  would block the turn at the first announced tool once the first problem is gone.

Agent turn

* Two predicates decide what a task is: `to_lowercase()` splits the calls (`orch.rs:104`)
  and `eq_ignore_ascii_case` merges the results (`:94-98`). They differ on a name with the
  Kelvin sign (U+212A, whose lower case is `k`): the merge then runs out of results and
  `expect` panics. No name in `Tools` tells them apart.
* The todo list is not persisted with the conversation (`conversation_record.rs:1029`), so
  no reminder follows a restart until the tool is called again.
* A doom-loop reminder goes to the field and not to the local context
  (`orch.rs:343`): it is sent with the next request, not with the one it was raised
  for. Tools have run before their exchange is appended (`:426`): a cancellation in
  between leaves effects that the stored conversation does not mention.
* The optional structural pruning (`prune/mod.rs:66-88`, off by default) removes
  messages by their original indices from a vector that shrinks, so it removes
  others than it scored and may separate calls from results.

MCP

* `update_mcp` records the hash of the trusted configuration (`service.rs:172-175`)
  while callers compare the raw one, as the comment at `:131-133` intends: with a
  rejected local server every use initialises again.
* A caller on the fast path (`:106-110`) may look for its tool while another one has
  cleared the map: the "Tool not found" the comment at `:172-174` means to prevent.
* An update that is cancelled after `:138` leaves a cleared map under the old hash. It
  bites when the file is then put back to what that hash stands for: the fast path
  finds the hash unchanged and no tools, until a reload.
* The list is cached (`:270`) under a key read before the update, so after an edit or
  a reload in between the entry describes another configuration, until it expires.
* The trust store keeps one decision per path; of two concurrent prompts about
  different contents the later answer wins and the other content is asked about again.
* A cancelled half-open probe never reports and half-open admits nobody
  (`resilience.rs:90`): all further calls to that server are refused for as long as
  the client lives. Results of calls admitted earlier move the breaker too, and a
  transport error on an old connection evicts a newer one (`mcp_client.rs:601`).
* `forge_app/src/resilience.rs`, which nothing uses: `check` drops its bulkhead permit
  at once, half-open admits everyone, refused callers are charged by the throttle.

Telemetry

* `shutdown` sets its flag before it flushes (`sink.rs:475`), and `flush` gives up when
  the flag is set: nothing is delivered. `forge_main/src/main.rs:150` calls `shutdown`
  only, so the CLI never delivers, although `lib.rs:96` says "Drain pending events and
  shut down".
* The previous credential still signs after its overlap window, until someone takes
  an `auth_snapshot` (the doc at `sink.rs:220-223` has it dropped); rotating to the
  same identity renews a window that is over.
* A requeue that does not fit drops the tail of the older batch rather than newer
  events (`store.rs:161-162`). A `block_on_full` submitter spins for ever once nothing
  drains any more. Two concurrent flushes may put batches back in the opposite order.
* `DiskStore` is not wired to the sink. Its replay drops the newest events where the doc
  (`disk_store.rs:103-105`) says the oldest; see also `journal_loss`.

Registry daemon and others

* `PidFile::drop` unlocks and then removes the pidfile (`pidfile.rs:128-137`), which may
  be its successor's. A process that starts while the old one is still going away is
  refused, and then no daemon is left. The docs speak of `forge3d.pid` and of draining;
  the file is `daemon.pid` and connections are aborted.
* A new lease is dated one lease ahead, so the first heartbeat shortens it;
  `is_alive` looks at `registered_at`; `evict_expired` is never called.
* `forge_drift` stores a prompt before it compares, so each observation matches itself.
* `forge_sharecli` takes the sequence number before the send (`channel.rs:50`), so two
  publishers may deliver in the opposite order of their numbers.

## 6. Abstractions and limits

* `DbServer`: the Windows named-pipe loop shares handler and writer and is not modelled
  separately; frames arrive whole; SQL is a nondeterministic outcome.
* `DaemonRepo`: the four writes take the same route and are one; the direct path
  either applies or fails; a process does not crash.
* `ConversationStore`: titles, metrics, parents, timestamps, search and its index are
  left out, and so are rows without a workspace. A statement is atomic; `SQLITE_BUSY`
  ends an operation where it is, which the model shows as a session that never
  continues.
* `Orchestrator`: a retried request is one request; how much a compaction retains, which
  depends on token counts, is arbitrary, and the optional semantic and structural
  phases (off by default) and droppable messages are left out; when a doom loop is detected is arbitrary once tools have been
  called; an event that cannot be sent means that the consumer is gone, which also
  aborts the task (`Cancel`); no todo's text is the escaped form or the first line of another
  one, and no assistant text quotes the phrase by which a reminder is found; an unlimited `max_requests_per_turn` is a limit that is
  never reached.

* `McpService`: the user-scope file is constant, disabled servers are left out, and all
  tools of a server come and go together. `McpClient`: a handshake succeeds or fails;
  OAuth and the transports are inside it. The composition of the two is the server
  that connects or fails in `Connected`.
* `Telemetry`: the content, encoding and size of a batch are left out; a refused
  credential is a final failure. A flush runs to its end: the callers (`forge_main`) await
  `submit`, `flush` and `shutdown` and drop none of these futures before the process
  ends, which loses the events in memory too. `DiskStore` has one consumer.
* `Forge3d`: pids are not reused and a process runs once; requests are atomic; drift
  observations and notifications, which nothing dispatches, are left out.

Not modelled: parsers, renderers, HTTP adapters, configuration, build and test
support, because they are I/O or character-level data. The list of components in
`PROJECT.json` gives the reason for each.

The definitions stand for about 4,300 of the workspace's 196,500 lines of implementation
(2.2%): the parts where tasks, processes or crashes interleave, chosen for their
hazards. A reader should take no claim from here about the rest.

## 7. Plan

Every invariant and action property of the passing runs is a theorem. What could be
added on the proof side are the measures behind the liveness properties (what each
fair step decreases) as action properties, and the composition of `DaemonRepo` with
`MutationService`, which it now reduces to a step per request.

Modules that would follow:

1. `ConversationReads`: queries over the local and legacy tables (which row wins, how
   limits and orders combine), parents and child counts, composed with
   `ConversationStore`.
2. `DoomLoop`: the repetition count against a reference definition.
3. `ShareChannel` (sequence numbers taken before the send, lagging subscribers), the
   Zig ring, title tasks.
