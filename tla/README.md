# A TLA+ verification of QGIS Agent MCP

QGIS Agent MCP lets an AI client work in a running QGIS. An MCP **server** (`src/src/qgis_mcp`, an
asyncio process that the client starts) talks JSON lines over a loopback socket to a **plugin**
(`src/plugin/qgis_agent_mcp`) that runs on the main thread of QGIS. This directory holds TLA+
specifications of the parts where order, failure and concurrency decide what is correct, the TLC
configurations that check small instances, and proofs checked by TLAPS. Paths below are relative to
`src/plugin/qgis_agent_mcp/` (plugin) or `src/src/qgis_mcp/` (server); `PROJECT.json` maps every
definition to the lines it stands for.

## 1. Inventory

| Component | Files | State | Operations |
|---|---|---|---|
| Bridge scheduler | plugin `bridge_scheduler.py` | three bounded deques, the reads-since-mutation counter | enqueue, pop_next, cancel_request, discard_socket, clear |
| Plugin bridge | plugin `bridge.py` | client sockets and buffers, authentication, the drain flag and its zero-delay timer | accept, read, drain one, process, disconnect, stop, broadcast, connection file |
| Dispatcher, idempotency | plugin `dispatcher.py`, `reliability.py` | remembered results per key, their file | dispatch (lookup, handler, remember), prune, save, load; the handlers |
| Persistent diagnostics | plugin `store.py` 15-217 | snapshot file, journal file, calls in progress | begin, finish, save, load |
| Handles, artifacts, events | plugin `store.py` 220-501 | paged results, artifact files, a ring of events | put, read, prune |
| State, revisions | plugin `state.py`, `revisions.py` | revision counters, cached layer summaries | touch, snapshot since a revision, resource notifications |
| Batches, workflows, checkpoints | plugin `dispatcher.py` 1373-1466, `workflows.py`, `safety.py` | workflow files, checkpoint files | execute, run, resume after restart, restore, prune |
| Processing operations | plugin `operations.py` | operation table, QGIS tasks | start, control, finished, retain outputs |
| Data cache and sources | plugin `autonomy.py`, `data_sources.py` | cached downloads | fetch, prune |
| Bridge client | server `bridge.py` | one shared connection, pending futures, two locks | connect, request, retry, cancel, close, read loop |
| MCP server | server `server.py` | in-flight requests, subscriptions, deduplication of notifications | dispatch, cancel, notify |
| MCP tasks | server `tasks.py` | task files, running coroutines | start, get, cancel, update, load, expire |
| Plugin advisor | server `plugin_advisor.py` | proposals | validate, complete |
| Tool registry, catalog, context packs | server `tool_*.py`, `context_pack.py` | static tables | selection and formatting |
| 3D views on Windows | plugin `ecosystem_tools.py` 394-800 | aliases of windows, creations in progress | create, list, configure, close |
| Runtime tools | plugin `runtime_tools.py` | QGIS's edit buffers and undo stacks | tasks, render, transaction, undo, diff |
| Onboarding | plugin `onboarding.py`, `connect_dialog.py` | client configuration files | connect, repair |
| QGIS wrappers | the remaining plugin files | QGIS's own | thin API calls |

How they interact. A tool call enters the server, which makes one or more requests on the **bridge
client**. All coroutines share its connection; numbered lines go to the **plugin bridge**, which puts
each into the **scheduler** and drains one per turn of the Qt event loop. A drained request is
**dispatched** on the main thread: diagnostics `begin`, idempotency lookup, handler, `remember`,
diagnostics `finish`, reply. Handlers call the managers (operations, workflows, state, stores), which
emit events that the bridge broadcasts and the server turns into MCP notifications. Calls are
synchronous inside QGIS, messages between the processes, shared files between sessions (journal,
idempotency file, workflows, tasks).

What is hard, and where it bites (`PROJECT.json` "hazards" lists each at its line):

* *Nesting.* `visual.review` pumps the Qt event loop inside its handler. Requests are read, drained and
  dispatched before it returns, between the lookup of a key and the recording of its result.
* *Crashes.* QGIS may die at any point; journal, snapshot, idempotency file, workflows and checkpoints
  are read by the next session.
* *Partial failure.* Disks fill up; an exception outside a `try` leaves a drain step, a batch or a
  workflow half done.
* *Sharing.* Coroutines of the server share one connection: each may close, reconnect, time out or be
  cancelled while the others wait.
* *Limits.* Queue, history, idempotency entries, handles, checkpoints and caches evict what somebody may
  still need.
* *Staleness.* Revisions restart with QGIS and delta snapshots rely on truncated change lists.

What makes each component correct:

* the scheduler keeps its reserve and starves neither reads nor mutations; the bridge answers each
  request at most once and leaves none unattended;
* the guard replays only what really happened and executes a key twice only for a reason; the journal
  loses no interruption and invents none;
* a call made under `if_revision` starts on the content its client saw, and a read-only tool or a dry run
  changes nothing; a delta snapshot plus its base equals the full one;
* an atomic batch or workflow that fails leaves nothing behind, and a resumed workflow repeats no step
  whose effect is known;
* an outcome a client reads, of an operation or of a task, is what became of it;
* what a store has just handed out can be read, and a name leads to the view it was given to;
* the client gives each caller its own answer, never leaves one waiting on a dead connection and sends
  what may not be repeated once; a confirmed proposal installs once.

## 2. Modules

| Module | Models | Extends or uses |
|---|---|---|
| `BridgeScheduler` | the queue and its operations | |
| `SchedulerFairness` | the scheduler alone, with counters of who was overtaken | `BridgeScheduler` |
| `SchedulerProofs` | its theorems | `SchedulerFairness`, TLAPS |
| `RequestLedger` | abstract: what may happen to one request line | |
| `LocalBridge` | the plugin bridge, composed with the scheduler and with nested event loops; refines `RequestLedger` | `BridgeScheduler`, `INSTANCE RequestLedger` |
| `IdempotentDispatch`, `IdempotentProofs` | dispatch of keyed mutations and the guard; its theorems | |
| `DiagnosticsJournal`, `DiagnosticsProofs` | snapshot and journal; its theorems | |
| `BridgeClient`, `ClientProofs` | the server's side of the bridge, with the plugin as its client sees it; its theorems | |
| `BridgeProofs` | theorems of the bridge, its refinement included | `LocalBridge`, SequenceTheorems, TLAPS |
| `ProjectScripts`, `LayerScripts`, `CartographyScripts`, `ServiceScripts`, `ReadScripts` | every handler of the dispatcher, as scripts of what it checks, changes and touches | |
| `ToolCatalog` | the server's tools, their methods and annotations | |
| `HandlerCalls` | a client's guarded calls of these handlers | `ToolCatalog`, the scripts |
| `StateTracker` | revisions, the log of changes, delta snapshots | |
| `OperationOutcomes`, `Operations` | Processing operations: state and promise, what changes it | |
| `BoundedStores` | handles, artifacts, the data cache | |
| `Native3DViews` | names of 3D views | |
| `MCPlugin` | the five parts above, as one run | `HandlerCalls`, `OperationOutcomes`, `INSTANCE` of the others |
| `PluginProofs` | theorems of these parts, and of the run that has them all | `MCPlugin`, the library's theorems, TLAPS |
| `Automation`, `AutomationProofs` | batches, workflows, checkpoints, nested; its theorems | |
| `TaskOutcomes`, `TaskManager` | MCP tasks of several servers: state and promise, what changes it | |
| `PluginProposals` | installation of plugins under a proposal | |
| `MCServer` | both parts of the server, as one run | `PluginProposals`, `TaskOutcomes`, `INSTANCE TaskManager` |
| `ServerProofs` | theorems of these parts, and of the run that has both | `MCServer`, TLAPS |
| `MCLocalBridge`, `MCIdempotentDispatch`, `MCBridgeClient` | constants of the runs | the module each names |

**BridgeScheduler.** `queue` is the three deques as one set of numbered requests (a deque's order is the
order of the numbers). `Accept`/`Reject` are `enqueue`, `PopControl`/`PopMutation`/`PopRead` are
`pop_next` with its weights, `CancelRequest`, `DiscardSocket` and `Clear` the rest. `PopNext(item, also)`
pops for a step of the bridge that removes further requests (a cancellation). The limits are derived
from what the environment asks for exactly as in the constructor. Statistics are left out.

**LocalBridge.** One action is one Qt slot or timer callback. `drainScheduled` is the flag, `timers` the
single-shot timers in flight, `frames` the handlers suspended in `visual.review`. `_drain_one` is one
action per way through `_process`: expired, invalid, greeting, refused, an exception in the greeting,
cancel, an exception in cancel, an ordinary handler, a handler that nests. `PassDeadline` ages requests;
all have the same allowance, so they expire in order of arrival. Left out: a request's own JSON-RPC id
(each has its number, and callers are assumed not to reuse ids), the connection file, broadcasts.

**IdempotentDispatch.** `entries` is the `OrderedDict` as a set stamped with times of last use, `stored`
its file. `Dispatch` covers lookup, refusal of a key with another fingerprint, replay and the start of a
handler; `Return`, `ReturnUnsaved` and `Raise` are its ends; `Expire` ages entries; `Crash` keeps only
durable effects; `Restart` loads and prunes, or finds a file it cannot read and begins with nothing
(`LoadNothing`). Left out: dry runs, calls without a key, results kept behind
handles (whose handle may be gone on replay), a failing save in the guard's constructor.

**DiagnosticsJournal.** A save is two steps, `Replace` and `Unlink`, with a crash or failure possible at
each; `_load` reads the journal line by line. `torn` is a journal that ends in a line without newline.
A start may be unable to read the snapshot, the journal or both, which `_load` then takes as empty; the
history variable `missed` says which. What the operating system accepted survives: only the death of QGIS
is modelled, not a power cut.

**BridgeClient.** A coroutine keeps asyncio's event loop between awaits: `current` is the one that has
it, and the steps up to its next await are guarded by it. `writer` is `self._writer`; the two locks are
queues whose heads hold them; `link` tells what became of each connection. `close` has its two halves
around `wait_closed`, and `_fail_pending` fails whatever is pending by then, on any connection, as in the
code. The plugin is reduced to what a client can observe of `LocalBridge`: greetings come first, other
lines in any order, any may be declined (busy, expired, failed), a line before the greeting is answered
by a disconnection. One scheduling fact is assumed: opening a connection takes several turns of the event
loop, so coroutines that were ready have run by then. The loss of a connection and the read loop's
hearing of it are one step. Left out: fixed connection information (then nothing is retried), the future
of a `bridge.cancel` request (nobody acts on it), events other than `bridge.reconnected`.

**The script modules.** The dispatcher's hundred handlers are sequential Python on QGIS's main thread. What
matters of one to a client is which of its statements may raise, what has been changed by then, and where
it calls `StateTracker.touch`. A *script* is one way through a handler as a sequence of such steps:
`check`, `raise`; `project`, `layers`, `edit`, `data`, `disk`, `profile`, `view` for what is changed;
`session` for the plugin's own tables; `begin` and `end` around what an edit command or an `except` takes
back; `touch`. A loop is written as two rounds, so that its second round can fail after the first has
changed something. One definition stands for one handler and `map` gives its lines.

**ToolCatalog** holds the tables of `tool_catalog.py` and the hint each tool gets. `EveryToolIsHandled` in
`HandlerCalls` ties them to the handlers: no tool lacks a handler, no handler lacks a tool.

**HandlerCalls.** One client looks (`Look`), then calls tools, with `if_revision`, with `dry_run` or plainly;
the called handler follows one of its scripts, step by step. `changed` and `moved` say whether content and
revision differ from what the client saw: no property asks for more of them than this. `blame` is a history
variable, who first left changed content under an unmoved revision.

**StateTracker.** QGIS's signals (`LayersAdded`, `LayersRemoved`, `LayerChanged`, `ProjectReplaced`) and touches
by name; `changes` is the bounded log, `summaries` the cache of layer summaries by revision. `base` and
`view` belong to a client that takes a full snapshot and merges deltas; `untold` are the layers whose
change the plugin was not told, or told under another name.

**Operations.** A background operation is a QGIS task: it begins on another thread, its `begun` signal
arrives later, it finishes; one on the main thread runs from a timer. All write the same output file, which
`baseline` is compared with. An operation that is `wanted` is to add its output to the project (`Retains`);
`placed` says whether the layer got there, was passed over as invalid, or was refused by the project, which
raises after the status has been set. `wrote` is a history variable. Left out: outputs that are retained
outside the project, and operations with several outputs.

**BoundedStores.** Each store is a sequence, in the order in which it gives things up. `ReadHandle` stores the
nested handles of a page one by one; `Pruned` of the cache takes files that cannot be removed into
account. `answer` is what the last call handed out.

**Native3DViews.** QGIS names a new window itself, from a queued slot; `aliases` is filled by whichever later
call finds exactly one new window. The person at the screen opens and closes windows at any time. A client
closes a view by its alias, by QGIS's name, or by that name in another letter case (`CloseInOtherCase`):
windows are matched without regard to case, aliases are dropped by the exact name. Assumed: the slot runs within the five seconds after which a creation is given up.

**MCPlugin.** The five parts share no state, so a behaviour lives in the part chosen in `MCInit`: one run
checks them all without multiplying their states. `MCServer` does the same for the server's two.

**Automation.** `frames` is the stack of what has begun: batches, workflow runs, scans of the timer. A step may
begin another one, two deep, and while a step pumps the event loop other clients and the timers get in. A
run goes through `running`, its steps (`StepBegins`, `StepActs`, `StepWorks` or `StepFails`, `StepNoted`),
`Restore`, `Finish` and `Close`, which is the `finally`. `DiskRefuses` may end each save, `RestoreFails` the
restoration, and `Restart` throws the memory away. Of the project only which atomic activities have changed
it is kept; `remembered` are the steps in the idempotency cache, `settled` those whose effect is known. The
cache loses any of its keys at any time the event loop is open to other calls (`KeysForgotten`: an hour has
passed, or other keys displaced them) and over a restart; `forgotten` are the steps that this happened to.

**TaskManager.** Any number of server processes on one directory: `record` is each one's memory, `saved` the
files, `job` the coroutine of a task. A save may fail at each place, a process may be stopped (its event
loop cancels what runs) or killed, and `Load` of another one marks as failed what it finds working. `events`
says what has really happened to a task.

**PluginProposals.** Calls are coroutines that validate, wait for QGIS and then complete the proposal. An error
of a call leaves open whether QGIS went on (`unknown`). QGIS replays a key it knows.

## 3. Runs

| Run | Instance | Shows |
|---|---|---|
| `scheduler` | 7 arrivals, 2 sockets, one method per category, 4 slots, 1 reserved, read weight 3 | reserve kept, control refused only by control, overtaking bounded |
| `bridge_safety` | 2 clients, 4 requests, 2 nested handlers, 3 slots | one drain timer, no stranded work, only clients' work is queued, a cancelled request never runs, `RequestLedger` implemented |
| `bridge_liveness` | 3 requests, malformed greetings | every accepted request leaves the queue unless an exception broke the drain chain |
| `bridge_serial` | as above | *violated*: finding 1 |
| `diagnostics` | 3 calls, nesting 2, 3 crashes, history 1, compaction after 3, unreadable files | interruptions reported, none invented, none repeated once settled, history without duplicates |
| `diagnostics_torn` | 4 calls, 2 crashes, compaction after 4 | *violated*: finding 2 |
| `idempotent` | 3 keys, 2 entries, 1 storable, 4 requests, 2 handlers, 1 crash, an unreadable file | replays faithful, a second effect only for a stated reason, results whole within a session |
| `idempotent_retry` | 3 requests | *violated*: finding 3 |
| `client` | a read that is retried and a mutation that is not, both cancellable and able to fill the buffer; 3 connections, 2 QGIS sessions | own answers, no abandoned waiter, no leaked connection, one write of what may not be repeated, sessions announced, every call ends |
| `plugin` | 2 layers, lists cut to 1, log of 2, 4 revisions; 2 operations on one file, each adding its output or not; 4 ids, 3 handles, 3 artifacts, items of 1 or 2 in 4 bytes, pages of 3; 2 names, 3 windows | guarded calls meet their content, read-only means read-only, deltas keep up, outcomes are true, what is handed out is there, names lead to their view |
| `automation` | a resuming workflow of 2 steps, batches of 1 call, 2 checkpoints, nesting 2, keys lost at any time | what is rolled back leaves nothing, no step twice unless in doubt, `running` is true |
| `server` | 3 calls, 2 keys; 2 servers, 2 tasks | one installation per proposal, tasks tell the truth |

Why the bounds are enough to mean something. Seven arrivals against a weight of three let reads overtake
a mutation, exhaust the weight and start again. Four bridge requests are an authentication, a suspended
review, a nested request and its cancellation. Three crashes let one fall into the recovery of another
and a later start read what an earlier one could not, and a history of one makes truncation bite at the second call. Three keys against two entries and
one storable force eviction from memory and from disk. Three connections let the client lose one, close
one that another coroutine made, and go on. Two layers against lists of one let
`_compact` cut a bulk change, two entries let the log lose one; two operations on one file let one claim
the other's output; three handles against pages of three evict the parent and then the page's own; two
checkpoints against two nested activities and a client let pruning take the one in use. The script of every
handler is run under every tool that reaches it, plainly, guarded and dry. The `Max...` constants are bounds on exploration only (each
is marked "bound" where it is declared); `HistoryLimit`, `CompactAt`, `MaxEntries`, `ConfiguredPending`,
`ReadWeight` `MaxListed`, `MaxChanges`,
`MaxHandles`, `MaxItems`, `MaxSize`, `MaxTotal`, `MaxCached`, `MaxPage`, `MaxCheckpoints` are the program's own limits,
made small. `CHECK_DEADLOCK FALSE` in all runs but `automation`: a bounded behaviour ends when its requests are
used up. In `automation` something can always happen, and TLC checks that it can.

**Symmetry** is used for sockets and keys in runs without liveness; nothing distinguishes them.

**Fairness.** `LocalBridge`: weak fairness of `DrainOne`, because Qt fires a zero-delay timer on the next
turn of the loop, and of `FinishReview`, because the handler's loop has a five-second deadline; nothing
is assumed of clients, of time or of the user. `BridgeClient`: weak fairness of what a coroutine does
next, of its timers and of the read loop; QGIS owes no answer. One thing is assumed of it: it reads its
sockets again or ends. `drain` (line 281) has no timeout and holds the write lock, so a QGIS that lives and
never reads would hold up every caller; `EveryCallEnds` says nothing about that case. The remaining
modules are checked for safety only: what they leave undone, `RunningIsTrue`, `TasksTellTheTruth` and
`OutcomesAreTrue` say as invariants.

## 4. Findings

1. *Mutations can overlap* (`bridge_serial`). `README.md:98` promises serialized mutations. `visual.review`
   pumps the event loop (`dispatcher.py:1227-1232`) after `_drain_one` cleared its flag, so another mutation
   is dispatched inside it.
2. *A torn journal line swallows the next one* (`diagnostics_torn`). `README.md:96` calls the journal
   crash-resilient. A write cut short by a full disk is ignored (`store.py:183`); the next begin, written
   and synced without an error, is glued to it and skipped by `_load`.
3. *A retry can run twice* (`idempotent_retry`). `tool_catalog.py:2265` offers the key for safe retries. It is
   looked up before the handler and recorded after it, and nothing marks it as in use: inside
   `visual.review` the retry runs again. (In the other direction, a crash can undo an unsaved project change
   whose record survives; the retry is then answered from the record.)

Met while modelling, stated as the exceptions of properties that hold:

* An exception in the greeting or in `cancel_request` leaves the drain chain broken until the next accepted
  request (`escaped` in `NoStrandedWork`, `BacklogDrains`). If the queue is full by then no request is
  accepted, and the bridge stays wedged until a client disconnects.
* A retrying request closes the connection another coroutine has just made (client `bridge.py:218`), and the
  second half of `close` fails requests on newer connections too. Those callers are told at once
  (`NoAbandonedWaiter`), but a mutation can be reported unavailable and still run.
* A cancellation during `bridge.hello` keeps the connection without recording or announcing its session
  (`abandoned` in `SessionAnnounced`): `except Exception` does not catch it.
* After the wait for the write lock `self._writer` may be `None` (an `AttributeError` that is not retried) or
  a newer connection, which then gets a request before its greeting and hangs up.
* `if_revision` compares revisions. Five methods have a way that changes something and returns without a
  touch: `bookmark.manage` (zoom), `visual.review` (capture), `cartography.renderer` (save_qml),
  `database.control` (a query with `allow_mutation`) and `ecosystem.plugins` (show_manager). Failed handlers
  never touch (`QuietMethods` and `blame` in `GuardedCallsMeetTheirContent`). For methods outside
  `MUTATION_METHODS` the dispatcher ignores `if_revision`, `dry_run` and `idempotency_key`.
* `vector.edit` with action `start` (`dispatcher.py:828`) starts editing, touches and then reads `result`, which
  no branch has assigned: the client is told of an error.
* `_compact` cuts lists to twenty ids and `delta_complete` stays true (`untold` in `DeltaKeepsUp`). Revisions
  start at 0 in a new session and carry no session, so one taken before can match another state.
* A main-thread operation cancelled while queued stays `cancelling` for ever; two operations with the same
  output file can both succeed although only one wrote it (`OutcomesAreTrue`).
* `README.md:101` promises that outputs requested with `add_to_project` are resolved and verified as layers before
  success is reported. The status is set first (`operations.py:214`, `_retain_outputs` follows at 223). An output
  that resolves to no valid layer is passed over without an error (278). If the project refuses the layer, the
  exception (287) makes a main-thread operation failed after all; on a background task nobody catches it, and
  the operation stays succeeded without its layer, its event and its release (`SuccessIsAdded` in
  `OutcomesAreTrue`).
* A start that cannot read the journal reports calls whose finish line is in it as interrupted, and one that
  misses either file may report nothing (`missed` in `NoFalseInterruption`, `InterruptionsReported`; `store.py:131`
  and 138). A journal torn inside a multibyte character cannot be decoded, which is no `OSError`: the
  error leaves `_load` and the constructor (not modelled). An idempotency file that cannot be read leaves no key,
  and the next save overwrites it (`reliability.py:98`, `LoadNothing`).
* Paging a handle with more oversized items than the store holds evicts the first of the handles it returns. A
  cache directory that cannot be removed is not counted off, so that pruning may delete the entry just
  fetched (`StoredIsThere`). Fetching a URL again under another filename leaves the older file behind; its
  directory can then not be removed.
* 3D views: a view the user closes keeps its alias, so that `create` under this name is refused and `configure`
  and `close` end in a `KeyError`, or hit the next window QGIS gives the name to; a creation that failed
  blocks its name. The alias also stays when a client closes the view under QGIS's name in another letter case
  (`ecosystem_tools.py:517` folds the case, 533 does not). (`intruded`, `bereft` in `NamesLeadToOwnView`.)
* Batches and workflows: an error that is not in the except list (a full disk) leaves an atomic batch half done
  and deletes its checkpoint (`RolledBackLeavesNothing`); so does a checkpoint pruned by others, and deleting
  a pruned one raises although the batch was committed. A rollback takes other clients' changes back too.
  Keys of rolled-back sub-calls stay in the idempotency cache; outputs are resolved after the checkpoint is
  gone. A workflow whose `checkpoint.create` fails stays `running` (`cut` in `RunningIsTrue`). A fixed
  `idempotency_key` in a step's parameters makes later runs replay it. A resumption skips steps whose effect
  was in the memory of the QGIS that died; resumed more than an hour later, or after its key was displaced, it
  repeats a step whose effect was recorded but not yet saved in the file (`forgotten` in
  `StepsOnceUnlessInDoubt`; `reliability.py:72`). Changes to a workflow during its own run are overwritten.
* Tasks: an error of QGIS is a *completed* task whose result is an error. A task that fails after `cancel()` is
  overwritten with failed; one cancelled before its first step never leaves `_running`; a second server marks
  the working tasks of the first as failed ("adopted" in `Truthful`).
* Proposals: two calls validated before either is answered both install (`overlaps`); a consumed proposal can be
  used again under the key that consumed it.

## 5. Proofs

All theorems are about the modules' specifications with arbitrary constants; the assumptions are the
named `ASSUME`s of each module, which TLC evaluates in the runs.

* `SchedulerProofs` (from `SchedulerAssumption`). `ReserveLeavesRoom`: whatever limits the environment
  configures, there is room for a request and a slot beyond the reserve. `SchedulerTypeCorrect`,
  `SchedulerKeepsReserve`, `ControlAlwaysGetsIn`, `SchedulerBoundsOvertaking`. Overtaking is not inductive by
  itself: a read passes a mutation only while the code's counter is below the weight, so the invariant adds
  that the reads counted never exceed that counter and that a mutation which passed a read has reset it.
  Finiteness of the queue is part of it because the reserve is about cardinalities.
* `DiagnosticsProofs` (from `JournalAssumption`). `JournalTypeCorrect` and `NoInterruptionLost`: every start
  that can read both files reports every call left open, for any history limit, threshold and number of calls
  and crashes, whatever earlier starts could not read. The
  invariant says where an open call is at each stage: in the snapshot or as a begin line with no finish line
  anywhere; in memory whenever the process could save; in the snapshot alone between the two halves of a
  save, since the journal may be gone after the next step; and, while loading, in memory or ahead of the
  reading position. An unreadable file suspends what is said of memory, not of the disk, until the next
  start reads both. That no call occurs before it has begun rules out stale lines for new calls.
  `NoInterruptionMadeUp` (unless this very start cannot read the journal) and `NotReportedTwice` need the opposite (`PastInv`): a call that finished has its
  finish line after its begin line, or is in neither file, and what was settled is in neither, although a
  journal may outlive the save that made it superfluous. `HistoryOnceHolds` follows with both: what
  enters the history was active, and what is active is not in it (`ActiveIsNew`).
* `IdempotentProofs` (from `DispatchAssumption`). `AnswersAreFaithful`, `NoOtherSecondEffect`,
  `ResultsStayWhole`. The invariant links entries, suspended handlers and answers back to requests, and
  accounts for each effect: its request is running, its key is recorded in memory and on disk, or the key is
  in doubt, as all stored keys are after a start that could not read the file. Without that account a second effect could not be excluded when an entry is dropped.
  `GuardStaysWithinLimits`: memory holds `max_entries` results at most, and the file what may be stored.
  Entries have stamps of their own, so keeping those with fewer than n newer ones keeps n at most; this is
  proved by counting ranks (`NewestBounded`), which must differ.
* `BridgeProofs` (from `SchedulerAssumption` and `BridgeAssumption`, for any traffic, number of requests, depth of
  nesting). `BridgeTypeCorrect`, `DrainTimersNeverMultiply`, `NothingIsStranded`, `BacklogIsOfClients`,
  `CancelledIsNeverRun`, and `BridgeKeepsTheLedger`: every step of the bridge is a step of `RequestLedger` or
  a stutter. The invariant says that waiting requests carry arrival numbers and nothing has happened to them
  (`Numbered`, `WaitingUntouched`), and that the suspended handlers are of distinct requests that have not
  been answered (`RunningUnanswered`): without it a handler could answer a second time when it resumes.
  `Drains` states once what all ways through `_drain_one` have in common, and each lemma about a step cites it.
* `ServerProofs` (from `KeysAssumption`). `TasksAreTruthful`, `TasksTypeCorrect`: for any number of servers
  and tasks. The invariant ties every working record to its own live process and every cancellation that is
  under way to its mark, so that a late return cannot overwrite it. `ProposalsInstallOnce`: a call that waits
  while another has been answered overlaps with it, or repeats its key, which QGIS replays.
  `PartsKeepTheirSpecifications`: a behaviour of the run is one of each part, so the results hold in it.
* `PluginProofs` (from `PluginAssumption`: the log and the stores keep something, and nothing stored is larger
  than its store). Each part has its own invariant:
  * `TrackerTypeCorrect`, `DeltasKeepUp`. The log is an interval of revisions that ends with the last one
    (`LogIsDense`); what the client has wrong was bumped since its base (`WrongIsBumped`), and a layer that is
    gone is named by the very entry that bumped it, unless that is out of the log (`GoneIsLogged`); a cached
    summary that hits is one the client has seen (`HitsAreSeen`). Together they make the sum of a base and a
    complete delta the project.
  * `OperationsTypeCorrect`, `OutcomesAreAlwaysTrue`. The output file only grows, and where it has grown beyond
    an operation's baseline some operation wrote it. An operation succeeds in the step that tries to add its
    layer, so its success and the fate of the layer are related in one state and neither changes again.
  * `ViewsTypeCorrect`, `NamesLead`. One view is created at a time and a window that appears in between is its
    own or an intruder (`OneIsCreated`, `AppearedIsOwn`); no two open windows have one title, so a name that
    leads to a title leads to one window (`TitlesDiffer`, `AliasesLead`). A window closed without its aliases
    makes its request bereft, by whomever it was closed.
  * `StoresTypeCorrect`, `HandedOutIsThere`. The counter of bytes is the sum of what is stored; what is evicted
    is a beginning of the sequence, or one item taken from its middle, and a sum is that of its parts. A
    download survives the pruning it causes because all the others together are enough, when all can be
    removed. The lemmas about sums (`SumsUnfold` to `AtSomePlaces`) go by the least number at which a claim
    would fail (`LeastNatural`), as no induction theorem can be instantiated.
  * `GuardedCallsStartOnTheirContent`, `ReadOnlyChangesNothing`. The tables are proved from their text: each
    script ends what it begins and touches after its last change, but for five methods (`...AreSound`); no
    handler outside `MUTATION_METHODS` changes anything; the server's tools and these methods agree
    (`TablesAgree`). `CallsInv` then says that changed content under an unmoved revision is told of by a touch
    still to come, or has someone to blame, and that nothing is to be undone between calls.
  * `PluginTypeCorrect` and `PluginKeepsItsPromises` put the parts together for the run's specification.
* `AutomationProofs` (from `AutomationAssumption`, for any number of workflows, steps, calls, kept checkpoints and
  nesting). `AutomationTypeCorrect`, `FailuresAreUndone`, `StepsActOnce`, `RunningIsNotLeftBehind`. None is
  inductive: the invariant says that a checkpoint never has the effects of its owner and is its only one
  (`TakenBefore`), that an activity before its checkpoint has changed nothing (`Untouched`), that what failed
  goes straight to its restoration (`FailedIsUndone`), that a workflow is on the stack once (`OneRun`) and its
  file says so until its last save (`RunIsMarked`), and that what is known to have acted is in the cache
  or was lost from it (`SettledIsRemembered`). `Pops`, `Pushes` and `OnlyGoesOn` say once what each way to change the stack keeps.
* `ClientProofs` (from `ClientAssumption`, for any number of coroutines, connections and QGIS sessions).
  `AnswersAreOwn`, `WaitersAreNotAbandoned`, `NoConnectionLeaks`, `NothingIsSentTwice`, `SessionsAreAnnounced`,
  `ClientTypeCorrect`. The invariant says that the queue of a lock holds its waiters and, first, its one
  holder (`ConnectLock`, `WriteLock`), that the requests with a future have numbers of their own (`Numbers`),
  that a line and an answer are of the request that has their number, if any (`Lines`), and that the
  connection being greeted is the client's or has been given up (`OneConnection`). An answer cannot reach
  another caller because numbers are never used again, even over a new connection; a second connection
  cannot be opened because its opener holds the connect lock. `StepKeeps`, `NetworkKeeps` and `FailingKeeps`
  say once what coroutines, the network and `_fail_pending` have in common.

Each module has the same shape: `Init => IInv`, one lemma or step per action for
`IInv /\ [Next]_vars => IInv'`, and the properties from `IInv`.

Every invariant and every safety property that a run checks is the statement of a theorem. Only model-checked
are the two liveness properties, `BacklogDrains` of the bridge and `EveryCallEnds` of the client: liveness
under fairness and `ENABLED` are outside what the installed provers do. TLC also checks the assumptions,
`EveryToolIsHandled` among them (every tool of the catalog reaches a handler with a script), which no theorem
uses.

## 6. Not modelled, and the plan

Not modelled because they have no protocol of their own: what QGIS makes of a call, schemas and search of the
tool catalog, context packs, downloading, the ranking of plugins, dialogs and the client configuration files
that onboarding rewrites. Left out although they have one:

* the server's in-flight requests, its subscriptions and the deduplication of resource notifications
  (`_resource_notification_revisions` is not cleared when another QGIS session begins), and the cursors of
  lists, which are offsets into what may have changed;
* the connection file and the broadcasting of events;
* an asynchronous `processing.start` with `add_to_project` inside an atomic batch: its layer arrives after the
  batch has ended, so a rollback does not take it back (`RolledBackLeavesNothing` is about what the batch's
  own calls change before they return);
* nested event loops other than that of `visual.review`: the dialogs of QGIS's plugin installer run one too;
* what lies beyond a client's own calls in `PluginProposals`: QGIS is taken to keep a key for the fifteen minutes
  of a proposal, which its guard does unless other calls displace the key or its file cannot be read at a start;
* a second QGIS process on the same workflows, checkpoints and journal;
* `if_resource_revisions`, and resources other than layers.

The plan, the most important first: a module of the server's notifications across QGIS sessions, composed
with `StateTracker`, and its theorems; the safety part of what the liveness
properties rest on (no step from which the backlog cannot drain), as invariants that can be proved.
