# Cortexta, modelled in TLA+

Cortexta is a local memory and context service for coding agents: a daemon that keeps
memories in SQLite (with branches, snapshots and a vector index beside it), ingests
projects, compiles contexts, watches files for context changes and runs background
jobs. These modules model the parts of it in which order, time and failure decide
correctness. Paths below are relative to `src/`.

## 1. Inventory

| Part | State it keeps | Operations | Hard behaviour | What makes it correct |
|---|---|---|---|---|
| **Memory service** `core/mempalace/memory.service.ts` | SQLite tables: rows of Main and of branches, branch parents, tombstones, snapshots (validity intervals) | upsertMemory, deleteMemory, deleteMemoriesByIds, createMemoryBranch, mergeMemoryBranch, asOf reads and diffs | one memory is spread over three tables; operations await embeddings and vectors between reading, stamping and writing; a temporal *read* writes baselines; no transaction is opened, so that a crash may fall between any two statements of a write | the tables tell one story; the past does not change; the two readers of a branch agree; a merge converges and respects its strategy |
| **Schedulers** `apps/daemon/src/self-healing/scheduler.ts`, `session-resurrection/scheduler.ts` | one timer, started/running flags, run status in memory, history table | start, stop, triggerNow, timer, execute, restart | manual, startup and timed triggers meet a run in progress; the status is rebuilt from a table that is pruned by another order than memory | runs do not overlap; the scheduler never stalls; the back-off is earned |
| **Context stream controller** `apps/daemon/src/context-stream/service.ts` | map of streams; per stream a watcher, queue, debounce timer, hashes and window of suggestions, active suggestions with timers | start, stop, watcher events, processQueuedEvents, ack, expiry | the debounce field forgets armed timers; a compilation is awaited with a check before and effects after; stop awaits the watcher | no event is left waiting, no suggestion outlives its time, limits hold, no dead stream is listed |
| **Ingestion** `core/ingestion` | source fingerprints; memories (through the memory service) | ingest, remove stale chunks and sources; walk, policy, chat discovery, chunking, session parsing | the chunks to remove are computed from ids read before and ids written after; two ingests of a source; fingerprint last; deletions by hand; crashes between | a reader sees the memories a fingerprint promises; nothing readable is skipped, no text is lost |
| **Event stream and agent bus** `apps/daemon/src/stream`, `agent-bus` | ring of past deltas, clients, ping flags | emit, broadcast, replay, inbound deltas, heartbeat, close | deltas dropped for slow clients, replay on connection, peers that vanish, a server that closes | order, no delta twice, no gap for who keeps up; dead peers are cut |
| **MCP server** `apps/mcp-server` | input buffer, initialization flag | stdin chunks, requests, tool calls of the daemon | flushes overlap on one buffer; frames cut anywhere; a timer races the daemon | every request answered once; only listed, complete calls reach the daemon |
| **Embeddings and vectors** `core/embeddings`, `storage/vector`, `searchMemories` | index, known collections, cooldown | upsert, delete, query, fail | tables first, index after an await; calls skipped in the cooldown; rows read before, ranked after | the index follows the tables; a search shows nothing deleted before it |
| **Compaction and maintenance** `core/mempalace`, the schedulers' reports | packed contents, trend snapshots, run history | pack, unpack, audit, backfill, decide, count, snapshot | content that is damaged, looks packed, or does not survive UTF-8; limits, windows and retention | content survives; rows are packed only where all conditions hold; reports add up |
| **Library store and evolution** `packages/core/src/memory`, `routes/evolve.ts`, `core/agents` | atoms, word and project indexes, archive | upsert, delete, archive, search, consolidate, evolve | indexes beside the data; evolution awaits a model and the store between reading and writing | indexes exact; consolidation loses nothing; evolution writes what it reports |
| **Memory graph** `core/graph`, `packages/core/src/graph` | nodes and edges | index, link, traverse | limits of a scan against what earlier scans left | edges have their nodes; memories are linked; traversal exact |
| **Language model** `core/llm` | model file, runtime cache, start promise, health | call with fallback, start the service, read, train | a training replaces the file while it is read; crash in a write; one start for many callers | the configured model answers; the newest model is used; every call ends |
| **Retrieval, scoring, context compiler** `core/retrieval`, `core/scoring`, `core/context`, `packages/core/src/context` | none | pure functions of scores and texts | | |
| **HTTP routes, middleware, metrics, CLI, formats, scripts, site** | none or counters | validation, formatting, I/O | | |

How they interact: HTTP routes, the CLI and MCP tools call the memory service,
ingestion, the context compiler and the stream controller. Ingestion, evolution and
merges write through `upsertMemory` and `deleteMemory`. The session-resurrection
scheduler awaits an ingestion. The stream controller awaits the context compiler, which
reads the memory service, and emits events on the bus. All of this runs in the daemon's
Node.js process, where code runs without interruption between two awaits: an `await` is the
only place where another request, a timer or a watcher event can come in between. That
decides the grain of the modules, **one action per stretch of code between awaits**. SQLite
calls are synchronous and each statement is a commit of its own; `memory.service.ts` opens
no transaction. A stretch is therefore whole to other requests but not to a crash, which
may fall between any two of its statements: where that matters, crashes are actions of
their own that do only the first statements of a stretch (`MemoryService`). The MCP server
and the web socket's clients are other processes, and so is a remote language model.

One case is left out: the commands `memory`, `ingest` and `llm` of the command line
(`cli/commands/memory.ts`, `ingest.ts`, `llm.ts`) run the same services in a process of
their own, on the same database and model file. Used while the daemon is at work, such a
command comes between statements that the modules take to be one step.

`PROJECT.json` lists the components with their status, and under `hazards` each place
where this can go wrong, with the properties that would notice.

## 2. The modules

| Module | Models | Extends / uses |
|---|---|---|
| `MemoryModel` | data and pure operators of the memory service: lineage, branch view, timelines, asOf | |
| `MemoryStore` | **abstract specification** of the memory service: every operation atomic | `MemoryModel` |
| `MemoryService` | the operations split at their awaits, merges, overlapping requests, crashes | `MemoryModel`; `Store == INSTANCE MemoryStore WITH ...` |
| `MemoryModelProofs`, `MemoryStoreProofs`, `MemoryServiceProofs` | lemmas about timelines and lineages, and theorems about both | the module named; `SP == INSTANCE MemoryStoreProofs WITH ...` |
| `RunScheduler`, `RunSchedulerProofs` | both schedulers; theorems | |
| `ContextStream`, `ContextStreamProofs` | one stream key of the stream controller; theorems | |
| `Ingestion`, `IngestionProofs` | ingests of a project's files into one branch; theorems | |
| `IngestSelection` | operators: walk, policy, chats, chunks, turns | |
| `McpServer` | transport, router and tools of the MCP server | |
| `EventStream` | agent bus and web socket server | |
| `MemoryIndex` | vector index, `searchMemories`, cooldown | |
| `Maintenance` | compaction of contents, the schedulers' decisions and reports, the dashboard | |
| `AtomStore`, `Evolution` | the library's store; evolution of a text into an atom | `Evolution` extends `AtomStore` |
| `MemoryGraph` | the graph indexer, the library's graph | |
| `LlmService` | calls of the language model and its file | |
| `ServicesProofs` | theorems about `EventStream`, `MemoryIndex`, `Maintenance`, `LlmService`, `McpServer` | these five |
| `KnowledgeProofs` | theorems about `AtomStore`, `Evolution`, `MemoryGraph` | these three |
| `MC*` | small instances for TLC | the modules named in them |

Definitions whose names end in `Mutant` are the code with a plausible bug put in (a
dropped check, a missing reset). No specification uses them: each shows that a property
would notice the bug it stands for; `PROJECT.json` says which.

### MemoryModel and MemoryStore

The variables are the tables, for one project. A memory's text, tags, scores and vectors
are one `Version`; ids are model values; the identity hash of a snapshot is the tuple it
hashes, which is why `Insert` replaces a snapshot of the same instant and operation.
`Lineage` is `getBranchLineage` with its bound on the walk and its stop at a branch
already seen. `View` is the current reader (`loadCurrentBranchViewRows`: nearest row,
unless *any* branch of the lineage has a tombstone), `AsOf` the temporal one
(`loadTemporalBranchState`: nearest branch with a valid snapshot). Legacy rows are those
that existed before the snapshot table: they have no timeline until a temporal read gives
them one (`Baseline`).

`Ledger` says that rows, tombstones and timelines, which the code writes by separate
statements in six places, agree for each key. `HistoryIsFinal` says that an answer about
the past never changes, baselines included. `ViewsAgree` says that the two readers of a
branch, which share no code and read different tables, have the same answer for now; it
excepts the two cases in which they do not: a row behind an ancestor's tombstone
(`Masked`) and a branch row deleted by storage id alone, without a tombstone
(`BareDelete`).

### MemoryService

Each client is one request in progress. `job` holds what an upsert or delete carries
across its await (its time stamp, taken *before*, and the row a delete has removed),
`merge` what a merge read at its start and has still to do. `Overlap` allows requests to
meet. With one request at a time the service implements `MemoryStore`: an operation takes
effect when it writes its snapshot, at the instant of its stamp, and until then a row a
delete has taken out counts as still there (`StoreRows`, `StoreClock`).

`Crashes` lets the process die at an await and between any two statements: of an upsert
(row, tombstone, close of the open snapshot, insert of the new one: `CrashInUpsert`), of a
deletion with or without a row (tombstone, close, insert: `CrashInDelete`,
`CrashInDeleteAbsent`), of `deleteMemoriesByIds` (row, close, insert: `CrashInDeleteById`)
and of the baselines a temporal read writes (`CrashInRead`). What such a crash leaves - a new
row with the old open snapshot, a closed timeline with no successor, a tombstone nobody
recorded - is marked in the ghost `torn`, and the next write of the key that goes through
takes it out again (`Mend`): closing and inserting start from whatever the timeline holds.
`OnlyCrashesTear` says that each step is one of the store's, nothing, or a crash that is
`Contained`: it damages one key, and every other keeps its row, its tombstone and its
timeline, but for a whole baseline that a read was writing.

When requests overlap the ledger breaks for keys two requests meet on, because a late
write carries an old stamp. The ghosts `suspect` (keys on which requests met) and `torn`
(keys whose last write a crash cut short) say exactly where; `LedgerUnlessSuspect`,
`NoLostDelete` and `SettledHistoryIsFinal` say that it goes no further.

### RunScheduler

One state machine for both schedulers: `config.awaits` is TRUE for session resurrection,
whose run awaits an ingestion, and FALSE for self-healing, whose runs are synchronous.
`flight` are the runs between `running = true` and their `finally`; `plan` is the timer
with `nextRunAt` and the back-off level; `status` the run status in memory; `table` the
persisted history. A run's number stands for its id and `startedAt`, by which the table
is ordered and pruned, while memory is in the order of completion. The delay is kept as a
level, since interval, multiplier, jitter and cap only fix its length. `RestartAgrees`
compares what a new process would read from the table with what memory shows: never a run
in progress, and, while every run could be written (`lost` is the ghost), each of memory's
runs with its outcome, unless the list is full of later ones, with the same latest run that
was not skipped.

### ContextStream

One stream key. A `Runtime` is one ContextStreamRuntime with its watcher, a file stands
for its suggestion hash. `timer` is the armed debounce the field still refers to,
`orphans` count armed ones it has forgotten (`debounceTimer = undefined` without
`clearTimeout`). `Take` is `processQueuedEvents` from its first statement to the await,
with every suppressed event it runs through. `Suggested` and `Unsuggested` are the two
continuations, which also happen in streams that have been stopped. Closing a watcher
answers everyone who awaits it at once, and the microtasks that follow run before
anything else (`Settled`).

### Ingestion and IngestSelection

A file is a sequence of texts, a memory id the tuple it hashes (source, index, text).
`ing[p]` is where ingest `p` is: between two files (`next`), awaiting an upsert
(`storing`), a deletion (`removing`) or a tombstone (`masking`). It carries the ids found
*before* the upserts, which is what `removeStaleSourceMemories` compares with. On a branch
the ids found are storage ids and those written are logical ones (`onBranch`), so that
everything found is stale. Code files come first; the chat files are discovered when they
are done (`DiscoverChatFiles`). `blemished` are sources on which two ingests met or one did
not finish: there the code promises nothing, and the next complete ingest repairs it.

`IngestSelection` holds what an ingest decides without awaiting: the recursive walk with
its skipped directories and bounds, the policy and its validation, the roots and files of
chat discovery, the chunker's greedy packing with its fallback for text without
paragraphs, and the three ways a chat session is parsed (items, records, a log of
patches). Each has a reference definition that says what it promises, and `MCIngestion`
compares the two over some thirteen thousand inputs: a behaviour either ingests or calls
one function once.

### McpServer

A frame is two tokens, header and body, a chunk any run of tokens. `buffer` is shared by
all flushes; `flushes` holds, for each one that awaits something, the frame it is at and
what it awaits (`write`, `daemon`, `nothing`). `Advance` is a flush from one await to the
next. A header behind a left-over body is not valid, which is how one frame without a
length makes all that follow it parse errors.

### EventStream

A connection holds what it was handed, what its peer has not read, and the ping flag
(`aliveMap`). `Emit` is `emitEvent` with the broadcast of `onDelta`, which skips a socket
with too much buffered; `Connect` replays the ring. `Die` is a peer that vanishes without
closing. `server` says what of the daemon is closed.

### MemoryIndex

`rows` are the two tables, `vectors` the index. Each operation changes the tables in one
step and the index in another, or skips the index in the cooldown; `shaken` records the
ids for which that happened, whose call failed, or on which two operations met. Of the three
providers, `memory` does not fail and `chroma` deletes nothing. Of a search's options,
`minScore` is left out: it only takes away from the end of a ranked list.

### Maintenance

A stored value is plain or an envelope, sound or damaged in the ways the audit tells
apart; texts stand for their kinds (too short to pack, not worth it, packed, changed by
UTF-8). One action per operation: write, rewrite, run of either scheduler, dashboard,
corruption. `ReadConfig` is the reading of the environment with its clamps. An audit reads
the `auditLimit` rows accessed last (`Newest`), so that a run is cleared by the anomalies
among those only. `runs` are all runs there were and `lost` those whose row could not be
written: `persistRun` logs such a failure and goes on, and so does pruning. `Recent` is
memory's list; `SloWindow` counts the table's rows, or memory's when the table is not kept
or cannot be read.

### AtomStore and Evolution

`store` is the class's maps; its operations are atomic, since the library awaits nothing
in them. An evolution is a task with one await per model or store call, in the order of
`evolveWithProgression`: writer, critic for each candidate, neighbours, consolidator,
archivist, write. What a model answers is arbitrary within what the agents accept. It can
fail and be replaced by the fallback (`ModelFails`), and a search in the store or the final
write can fail and end the evolution (`StoreFails`). Evolutions overlap with other writers
of the store. `/evolve` without a text, which consolidates the memories of main and writes
them back one by one (`routes/evolve.ts:98-120`), is left out.

### MemoryGraph

`IndexMemoryGraph` is one run of the indexer with each class of node and edge; memories
and snapshots change between runs, so that a scan limited by `ListLimit` and `SnapLimit`
meets what earlier scans left in the tables. A chat turn is linked to the code of its files,
file by file, `MaxLinks` links at most; `MemoriesAreLinked` asks for each link that it is
drawn or that as many before it, in the order of the code, are.

The library's graph is beside it: edges added, replaced and removed, nodes removed, and
the traversal (`TraverseGraph`). The service keys an edge by project, ends and type
(`Key`), the traversal by ends and type (`Route`), so that of a link two projects share it
follows one edge, the heaviest, and `TraversalExact` speaks of routes. Sorting and
filtering are `InOrder` and `Filter`, the loops of the traversal recursive functions over
the turns and over the edges of a node.

### LlmService

`ask` is a caller's way through a call: fetch, probe, start the service, fetch again, fall
back to the local model, whose file is stat'ed and read in two steps. A training reads
and writes the file in steps of its own; a crash may leave it torn. `starts` counts start
loops, of which `localServiceStartPromise` allows one. The child process has no listener for
its error, so that a Python that is missing ends the daemon (`SpawnFails`). A call that comes
after a start has timed out spawns a second process, which `OneStart` does not count.

## 3. The runs

| Run | Instance | Shows |
|---|---|---|
| `store_history` | Main and one branch, one memory, two contents, a legacy row, instants 0 to 2 | `Ledger`, `HistoryIsFinal` |
| `store_overlay` | two branches besides Main | **violated**: `OverlayVisible` |
| `service_sequential` | Main and one branch, one request at a time, merges, crashes between any two statements | `OnlyCrashesTear`, `TargetRowsKept` |
| `service_merge` | Main and two branches in any parent relation, merges both ways | `ImplementsStore`, `MergeConverges`, `ViewsAgree` |
| `service_overlap` | Main and one branch, a legacy row, two requests at once, crashes between any two statements | `LedgerUnlessSuspect`, `NoLostDelete`, `SettledHistoryIsFinal` |
| `service_target_race` | a merge and another request | **violated**: `TargetRowsKept` |
| `scheduler` | both kinds, all 16 configurations, five runs, restarts, failing writes | `OneRun`, `NeverStalls`, `BackoffEarned`, `RestartAgrees`, `RunsGoOn` |
| `stream` | two clients, two runtimes, two files, three events, four instants | `NoLostWakeup`, `NoneOutlivesTtl`, `RateLimited`, `Deduplicated`, `NoDeadStream`, `QueueDrains` |
| `stream_leak` | two starts and a stop | **violated**: `StopStopsWatcher` |
| `ingestion_branch` | two ingests of one file, two contents, an edit, a mishap | **violated**: `BranchSourceExact` |
| `services` | each of `McpServer`, `EventStream`, `MemoryIndex`, `Maintenance` and `LlmService` in turn | `RequestsAnsweredOnce`, `CallsEarned`, `StreamUnbroken`, `IndexSound`, `ContentKept`, `RunsSound`, `LlmSound`, `ServicesProgress` |
| `knowledge` | the same ingests, inputs of the pure functions, `AtomStore`, `Evolution` and the two graphs of `MemoryGraph` in turn; links that two projects share | `SourceExact`, `FilesExact`, `TextKept`, `AtomsSound`, `GraphSound` |

Distinct states: 282,419 in `service_sequential`, 78,064 in `service_merge`, 286,256 in
`service_overlap`, 170,240 in `scheduler`, 168,686 in `services` and 650,838 in `knowledge`.

Each module's type invariant is checked by one of its runs. In `services` and `knowledge`
the variable `part` chooses the service a behaviour drives. These services share no state
and call one another only through interfaces each module leaves open (the daemon may do
anything with a tool's request, a model may answer anything), so that a product of their
behaviours would show nothing that their union does not.

**Bounds.** Keys do not interact except through a merge's order of work and the branch
table, so one memory is enough to break any of the per-key properties. `MaxLineage` is at
least the number of branches, so that the walk stops where the code's 32 would let it
stop; three branches give every shape of lineage the readers tell apart (own, inherited
over one and two steps, cycle). A bug in a timeline needs an instant before, at and after
a write: instants 0 (legacy), 1 and 2. Two requests are enough for every race between two
steps; `service_overlap` has `Strategies = {}` because a merge is a sequence of the
requests it already has. Five scheduler runs with two kept in memory and three in the
table make pruning, skipping and the back-off's saturation happen. In `stream` the
suggestion limit is two with three events, and the dedupe window is shorter than the time
to live so that a hash is suggested again while active; two starts at once need a third
runtime, which `stream_leak` has and the proofs do not bound. `service_overlap`
is cut off where a third snapshot or a second torn key appears (`Few`): those states are
still checked, but not continued from. What more of each may do is proved for every
instance (`DamageConfined`, `DeletesRecorded`, `PastIsSettled`).

Of ingestion one source is enough, since ingests treat sources one after another and ids
of two sources never meet; two ingests, one edit and one mishap give each race and each
interruption of a source. In `services`, three frames are enough for an initialization, a
broken frame or a call in front of every kind of call; a ring of two and a replay of one
with three deltas make the ring, the limit and a full socket bite; two callers and two
trainings give every race on the model's file. In `knowledge`, three ids over two projects
give every archive the consolidation tells apart, three links of a turn to one memory and
a limit of two make the limit bite, and three edges over two projects and two types give
routes that differ from keys. `MaxTime`, `MaxRuns`, `MaxEvents`,
`MaxEdits`, `MaxMishaps`, `MaxCalls`, `MaxOps`, `MaxEdges`, `MaxAsks`, `MaxCrashes` and
`LastDay` only bound the instances. Deadlock is checked except in `knowledge`,
`ingestion_branch` and `services`, whose bounded inputs run out; elsewhere the store can
always be read, a stream always be stopped and a scheduler always be restarted.

**Fairness.** `RunScheduler!FairSpec`: a timer fires and a run ends. The first is the
event loop, which nothing blocks for ever; the second holds because every path of
`execute` ends in its `finally`, provided the ingestion it awaits settles (its only remote
calls are embedding and vector requests, whose failures are caught and whose duration the
HTTP client bounds). `ContextStream!FairSpec`: debounce timers fire, `compileContext`
settles, microtasks run. `QueueDrains` holds because the number of events is bounded: an
editor that saves a file more often than `debounceMs` for ever would keep the queue
waiting for ever. `McpFairness`: a write to standard output completes, and the daemon
answers or the timer of `requestJson` aborts the call. `StreamFairness`: the heartbeat's
interval fires, also while the daemon closes. `LlmFairness`: a request answers, fails or
times out, reads and probes end, and the start loop has a deadline. No fairness is asked
of clients, of stop or start, of clock ticks, or of expiry.

## 4. What the code does otherwise than its documents say

* **`store_overlay`** - `docs/cxlink-spec.md:86` calls branch-local writes copy-on-write
  overlays. The current reader hides a memory if any branch of the lineage has a
  tombstone for it, so a branch of a branch that writes what its parent has deleted does
  not see its own row, while an asOf read of the same instant does.
* **`service_target_race`** - a target-wins merge is to "preserve target overlays on
  conflicts" (`.agents/skills/cortexa-branching.skill.md:31`). The check for a row of
  the target comes before the await of the embedding, the write after it: a row written
  in between is overwritten.
* **`ingestion_branch`** - branches have "branch-aware stale cleanup" (`CHANGELOG.md:70`).
  `listExistingSourceMemoryIds` returns the primary keys of `memory_branch_memories`,
  which are hashes of project, branch and id, and `removeStaleSourceMemories` compares
  them with the ids just written: none matches. The second ingest of a changed file on a
  branch deletes and masks everything the first one stored, what it has just written again
  included, and the fingerprint makes every later ingest skip the file.
* **`stream_leak`** - two starts of one key that wait for the old watcher's close both go
  on to open a watcher; the map keeps the second, and no stop reaches the first.

Seen while modelling and stated as exceptions of the properties rather than as runs: a
branch row deleted by storage id alone leaves no tombstone (`BareDelete`); a legacy row
overwritten before its first temporal read loses its past (`Unrecorded`); between a branch
deletion and its tombstone readers see the inherited memory (the `delete` job); after a
restart the schedulers' last run is the one that started last, where before it was the one
that ended last, and skipped rows can push failures out of what the back-off is recomputed
from (`BackoffEarned` is an inequality for that reason); vectors outlive their memories
under Chroma, whose client deletes nothing (`IndexFollowsTables`); a text with half a
surrogate pair, or one that looks like an envelope, does not come back from compaction as
it was written (`ContentKept`); `dryRun` left out means a real run for `/cxlink/evolve`
and a dry one for agents (`WritesAsked`).

## 5. What is proved

TLAPS checks these for every value of the constants; TLC checks the same formulas on the
instances above.

**`MemoryStoreProofs`**: `TypeCorrect` (`Spec => []TypeOK`) and `LedgerCorrect`
(`Spec => []Ledger`), for any branches, memories, contents, legacy memories and bounds,
from `ModelAssumption` and `StoreAssumption` (Main is a branch, Null is not a value, the
walk's bound is positive). `Ledger` is not inductive as it stands: `Baseline` writes at
the instant a row was created, and would break the order of a timeline that has newer
snapshots. `KeyInv` therefore adds that a row without an open upsert snapshot is a legacy
row of Main *with an empty timeline* and instant 0, and that stamps lie in the past. The
proof is per key: lemmas say what closing and inserting leave in a timeline
(`ClosedType` to `WriteOrdered`), `UpsertKey`, `DeleteKey`, `BaselineKey` that each kind
of write re-establishes the key's invariant, `SameKey` that a key nobody writes keeps it
while time passes; there is one lemma per operation and `InvNext` puts them together.

`PastIsFinal` (`Spec => HistoryIsFinal`, an action property) needs of a timeline what the
ledger does not say: no two of its snapshots are valid at one instant (`Lone`), so that a
read of the past has one answer whatever order the snapshots are found in. `KeySteps`
says that a step does one of three things to a key, and a lemma per thing that the past
stays. `ReadersAgree` (`Spec => []ViewsAgree`) compares the two readers along a lineage:
`FirstBranch` and the lemmas on `Lineage` in `MemoryModelProofs` say where each stops,
`AllBlank` that a delete snapshot holds no content.

**`MemoryServiceProofs`**: `TypeCorrect` (`[]TypeOK`), `DamageConfined`
(`[]LedgerUnlessSuspect`) and `DeletesRecorded` (`[]NoLostDelete`), for any number of
clients, branches and memories, overlapping requests and merges, and crashes between any
two statements, from the assumptions of both modules. The obstacle is that a request
writes with a stamp, and a deletion with a row, that it read before its await. `Inv`
therefore says of each request in progress what it still knows: `Met` that two requests at
work on one key have made it suspect, so that a key which is not suspect has one writer at
most; `Loaded` that what this writer carries is then still what the tables hold; `Gone`
that a row missing from its table while its timeline is open has a deletion in progress
that took it out, or is torn. `KeyOK` is the ledger of a key up to these. `MergeInv` says
that what a merge has still to do lies within the keys it read. There is one lemma per
step. `CrashLeaves` says what a crash can leave of a key, wherever it falls (`Struck`):
nothing was written to it (`Spared`), a read wrote its baseline or only closed its
timeline for one (`HalfRead`), or a write stopped before its snapshot was in
(`HalfWritten`), and then the key is torn. The lemmas about timelines in
`MemoryModelProofs` are shared with `MemoryStoreProofs`.

`PastIsSettled` (`Spec => SettledHistoryIsFinal`) is `PastIsFinal` with requests in flight.
`KeyPast` adds to `Inv` that a timeline nobody raced on lies before the stamp of the one
request about to write it, so that this write ends the timeline; `KeyStep` lists what a
step can do to a key, what a crash leaves of it included (`CutShort`), and `Flow` says that
time and suspects only grow. `CutAnswers` is why a crash between closing a timeline and
inserting into it does not change the past: the close is at the stamp of the write.

`MergesConverge` (`Spec => []MergeConverges`): where requests do not overlap, after a
source-wins merge of a branch into its own parent both have one view of every memory,
whatever crashes in the middle of earlier writes have left. The property supposes that the
walk's limit (32 in the code) does not cut the source's lineage off (`Whole`): beyond it
the target, one branch further up, sees a branch the source does not. `MergeTold`,
inductive beside `SoloInv`, accounts for a merge under way (`Transfer`): each row and
tombstone of the source is one it has still to write, one it is writing, or one the target
has. `ParentLineage` and `ParentInherits` in `MemoryModelProofs` compare the two lineages,
in a circle of parents too.

The **refinement** of `MemoryStore`: `Atomic` (`ASSUME ~Overlap, ~Crashes PROVE Spec =>
ImplementsStore`) and, with crashes, `OneByOne` (`ASSUME ~Overlap PROVE Spec =>
OnlyCrashesTear`). `~Overlap` says that a request begins when the last one has ended; the
daemon does not guarantee this, it is what the theorems are about: what overlapping
requests do is `DamageConfined` and `PastIsSettled`. The mapping shows the store the
instant of the request's stamp while a request is in progress, and the row a deletion has
taken out and not yet recorded. `SoloInv` is `Inv` with `Alone` (one request at a time) and
`Side`, which says why the mapped step is the store's: a stamp is an instant of the store
(`Stamped`), a row that is gone has one form (`Clean`), the deleted row is the one the
request carries (`TakenOut`), the branch is registered (`Registered`). There is a lemma
per step that names the operation of the store it is, or none; a crash is none of them,
and `CrashContained` says that it is `Contained`. `ServedReadersAgree`
(`[]ViewsAgree` of the service) is `ReadersAgree` carried over by this refinement.

**`RunSchedulerProofs`**: `RunsDoNotOverlap` (`Spec => []OneRun`) and
`SchedulerNeverStalls` (`Spec => []NeverStalls`), for any configurations and limits and
unboundedly many runs, from `SchedulerAssumption`. Each needs the other's neighbourhood:
that no run is left behind when the flag is cleared, and that a fired timer re-arms
whether its run was skipped or not. `IInv` is their conjunction with the shape of the
plan.

`BackoffIsEarned` (`Spec => []BackoffEarned`), for the same. What a
new process makes of the table is bounded by the errors after the table's last success
(`After`), and these by the failures in a row (`Recorded`). `PrunedFairly` says that
keeping the newest rows puts no error behind a success it came before; `Ranks` and
`Sorted` that the list `ORDER BY startedAt DESC` gives holds each row at its place, by the
pigeonhole principle; `LeadingBounded` that the errors the code counts at its head are
among `After`. `Ordered` is why a run that ends is later than all that ended before it,
skipped ones apart.

`TypeCorrect` (`Spec => []TypeOK`) and `RestartsAgree` (`Spec => []RestartAgrees`), for
the same. `Agreed` is the strengthening: memory's latest run that was not skipped is no
older than any such row and, while there are such rows, one of them; `Covered` is the
other: a run of memory is in the table, or as many later ones as the table keeps.
`KeepsLater` and `KeepsWithin` are why pruning keeps it so: what drops a row has dropped
all that are older. `LatestPushed` and `LatestSorted` say what is latest in a list that
was pushed to and cut, and in the list a new process sorts.

**`ContextStreamProofs`**: `StreamTyped`, `NoWakeupLost`, `SuggestionsExpire`,
`StreamsAlive`, `SuggestionsLimited` (`Spec => []TypeOK`, `[]NoLostWakeup`,
`[]NoneOutlivesTtl`, `[]NoDeadStream`, `[]RateLimited`) and `SuggestionsDeduplicated`
(`Spec => Deduplicated`, an action property), for any numbers of clients, runtimes, files,
events and instants and any limits, from `StreamAssumption`. `IInv` adds to the invariants
`Checked` and `Counted`: what the duplicate check and the rate limit found before the
compilation is awaited is still so when it ends - there is room for one more suggestion -
since a runtime compiles one event at a time and time only goes on. `RecentOnes` says that
the filter of the window keeps the suggestions within it: they were made one after the
other, so the old ones come first. `Taken` says what `processQueuedEvents` leaves behind
and serves all its callers.

**`IngestionProofs`**: `IngestTyped` and `SourcesAreExact` (`IngestSpec => []IngestTypeOK`,
`[]SourceExact`), for any sources, contents and number of ingests, unbounded edits,
failures and crashes, from `IngestionAssumption`. `SourceExact` speaks of sources at rest;
`IngestInv` says what an ingest at work on one still owes. `WorkOK`: it writes memories of
the file it read and deletes memories of its source, on main none it has written.
`AloneOK`: with the source to itself, a row of the source is of that file or about to be
deleted, and on main each memory of the file is there, about to be written, or was deleted
by hand. An ingest that is not alone has its source among the blemished. So when the
fingerprint is written nothing is owed, which is `SourceOK`.

**`ServicesProofs`**, each from the assumption of its module and for any of its constants:

* `StreamIsUnbroken` (`StreamSpec => []StreamUnbroken`). `RingOK` says that the ring holds
  the last deltas in order, `SentOK` what each socket has been handed: increasing, and from
  the backlog on without a gap as long as it kept up, position by position. `PeerOK` says
  why a cut means an unanswered ping; a web socket server that has closed has no clients.
* `IndexFollows` (`IndexSpec => []IndexSound`). `Settling` says that an id nobody raced on
  is being written by one operation at most, with what its row holds; `SeenOK` that a search
  in progress has noted all the tables held since it began.
* `ContentSurvives` and `RunsAreSound` (`MaintSpec => []ContentKept`, `[]RunsSound`).
  `CodecKeeps` says what packing, unpacking and the integrity check make of a stored
  value; `ConfigRead` that any environment gives a configuration within its bounds;
  `PrunedRuns` that a pruned table has a run's row or as many later ones as it keeps, from
  which `CountsSame` has the counts of a window no longer than that, over the rows
  written; `SnapsKept` what retention leaves of the dashboard's trend.
* `LocalModelSound` (`LlmSpec => []LlmSound`). `CallOK` says which settings and failures lead
  a call to where it is, `FileFresh` that a model trained alone is in the file, whole, and
  that the cache of this instant's file is of it; `Owed` that a call begun after it gets it.

The **MCP server**, there too: `EachAnsweredOnce` (`McpSpec => []RequestsAnsweredOnce`),
for any stream of frames, cut anywhere, and any overlap of flushes, from `McpAssumption`.
The invariant counts the tokens taken from the buffer: an even number while every frame
had a length, an odd one since the first that had none (`Parity`), and the buffer is the
rest of what has been received (`Holds`). A frame is still to come, or exactly one flush
is at it, or it is settled (`FrameOK`); and the buffer is at rest or a flush is under way,
which is why no frame is left lying. `Takes` says that a flush's way through the buffer is
one of three things, `Advances` that each keeps the invariant; both serve every action.

`CallsAreEarned` (`McpSpec => []CallsEarned`), for the same. `SchemasCovered` compares the
catalog with what each tool asks of its arguments, tool by tool. `CallsInv` adds to `Inv`
that the transport is initialized only once an initialize is among the frames taken
(`Began`), that a request is for a lawful frame that has been taken (`Earned`), and that
no flush carries a success of a request the daemon has not done (`Honest`).

**`KnowledgeProofs`**, from `AtomStoreAssumption`, `EvolutionAssumption` and
`MemoryGraphAssumption`:

* `AtomsStaySound` and `EvolutionTyped` (`AtomsSpec => []AtomsSound`,
  `[]EvolutionTypeOK`), for any callers of the library's store and any overlapping
  evolutions. `Filed` says that each index of the store is what the atoms say; a
  consolidation is two recursions, of which `Distilled` and `Filing` are the invariants:
  an atom is archived only where one in use covers it. `Ordered` says that a list in any
  order has each atom once, `ArchivistFalls` that days take a promotion and never give
  one, and bring an archiving and never take it back, whatever the importance and the
  confidence; `AskedFor` what an evolution may still write.
* `GraphStaysSound` and `GraphTyped` (`GraphSpec => []GraphSound`, `[]GraphTypeOK`). The
  invariant `GraphInv` adds to `GraphSound` the types and that the tables are finite,
  without which counting their links says nothing. `PutInOrder` is the pigeonhole argument
  that a list in a total order has every member once; `DrawnEnds` says that a run draws
  the ends of what it draws, `FirstLinked` and `LinksUsedUp` that the first `MaxLinks`
  targets of a chat turn are linked and any other has as many before it. A traversal is
  breadth-first: `Distances` turns the nodes within `d` steps into a distance, `Frontier`
  says that the queue holds nodes of the current distance and the next, the nearer first,
  and `Between` that the edges of every node expanded are out. `LayersSeen` is why a node
  met for the first time is one farther than the node at hand, `TurnsEnough` why as many
  turns as the code's loop can take end with an empty queue or with the limit reached: no
  node is queued twice, and there are no more nodes than ends of edges. A traversal skips
  a route it has seen, also where the edge is another project's; `FirstHeaviest` says that
  of a route it sees the heaviest first.

Only model-checked, and why:

* liveness (`RunsGoOn`, `QueueDrains`, `ServicesProgress`): temporal proofs under fairness
  and `ENABLED` are out of the prover's reach;
* `FilesExact`, `TextKept`: statements about the recursive operators of `IngestSelection`,
  compared with their references over bounded inputs;
* `ServicesTypeOK`: the types of five modules together; the part of it their proofs need
  is in the inductive invariants (`LlmTyped`, `StreamInv`, `IndexInv`, `MaintInv`).
  `KnowledgeTypeOK` is `EvolutionTyped` and `GraphTyped` together.

## 6. Not modelled

* **Data, not control.** Embeddings and scores, ranking, the text of summaries, n-gram
  counts, compression itself, branch summaries. Where control depends on them the modules
  leave the outcome open (which hits are best, what a review scores, whether packing
  wins).
* **Retrieval, scoring and the context compiler**, AST extraction and the language registry,
  context file formats: pure functions of texts and numbers without state, order or
  failure; what could go wrong in them is arithmetic that tests reach.
* **A second process**: commands of the command line that run the services beside the daemon
  (section 1).
* **Routes, middleware, metrics, CLI**: validation and JSON around the components. Where a
  route decides something (`/cxlink/evolve`, the stream's start and stop) it is part of
  the component's module.
* **SQLite and cache wrappers**: each statement is taken to be atomic and durable.
* **Legacy daemon, build and data scripts, site**: not part of the running system.
* Left out of the modules above: several projects in the memory service (every table is
  keyed by project), the stream controller's counters, the reconnection timer of the
  event stream's client, a vector backend that forgets its collections.
