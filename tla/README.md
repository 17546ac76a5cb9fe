# Verification of peri-fuse

TLA+ models of the parts of peri-fuse in which several writers, background jobs
and processes share state, checked with TLC on small instances and, for the
safety properties, proved with TLAPS for every value of the constants. Paths
below are relative to `packages/`; every definition's source lines are listed
under `map` in `PROJECT.json`.

Contents: [inventory](#1-inventory) · [modules](#2-modules-and-the-code) ·
[runs](#3-runs-bounds-fairness) · [proofs](#4-proofs) ·
[what is not covered](#5-what-is-left-out) · [plan](#6-plan)

## 1. Inventory

peri-fuse is a telemetry server (traces, observations, scores) and an LLM
gateway over two SQLite databases. One server process holds the writer
connection; a worker thread indexes text for search; scripts (`cas-migrate`,
retention) and further server processes may open the same database. SQLite in
WAL mode gives what the models take for granted: `IMMEDIATE` transactions are
atomic and one at a time, a read transaction sees one snapshot.

| part | code | state it keeps | operations | talks to |
|---|---|---|---|---|
| CAS pool and collector | `shared/src/server/io-cas/{write,gc,gc-state,gc-job}.ts` | `observations.input/_codec`, `io_cas_chunks` with `mark_epoch`, one `io_cas_gc_state` row per project | publish chunks with a row, write barrier, start round, mark batch, begin sweep, sweep batch, block, reset | writers, retention and migrations share its tables; the maintenance loop schedules it |
| Re-encoding jobs | `io-cas/migration*.ts`, `scripts/cas-migrate.mjs` | `io_cas_migration_state` (status, cursor, pass), a batch in memory | begin, resume, pause, plan, apply, fail, finish, verify | the pool; writers change its rows between plan and apply |
| Daily rollups | `stats/daily-stats*.ts` | `daily_stats`, `daily_model_stats`, `daily_stats_dirty` with revisions | mark a day, recompute a day, backfill page, refresh page, repair on read | markers are set in the writers' transactions; retention deletes |
| Retention | `stats/retention.ts` | `telemetry_retention_state.cutoff_day` | raise the boundary, purge rows, rollups, markers | deletes under all of the above |
| Maintenance loop | `stats/maintenance-loop.ts` | one timer, pending flag, abort signal | pass, request, stop | schedules stats, retention, collector |
| Telemetry writers | `adapters/{sqlite-telemetry-adapter,telemetry-mutations,io-columns-decision}.ts` | rows, `ingestion_field_versions` | insert, mergeInsert, update, delete | queue search sources, mark days, publish chunks, all in one transaction |
| Ingestion versions | `adapters/ingestion-versions.ts` | (timestamp, event id) per column | compare and take per column | the writers |
| OTLP route | `server/src/routes/otel.ts`, `otel/OtelIngestionProcessor.ts`, `ingestion/processEventBatchLite.ts` | none (ids of traces seen, per request) | convert spans to events, write table by table, answer 200, 400 or 503 | exporters, which repeat; the writers |
| Session search | `session-search/{storage,indexer,backfill,lifecycle,query}.ts` | queue with revisions, occurrences, shared texts, index state, two cursors | mark dirty, list, read, index, fail, limit, enqueue backfill, search | writers queue sources; worker threads index; queries read |
| Job queue | `adapters/in-memory-queue-adapter.ts` | jobs waiting, delayed, active | add, take, retry, drain, close | ingestion |
| SQLite read pool | `adapters/sqlite-read-pool.ts` | worker slots, waiting requests | acquire, answer, time out, retire, restart, close | dashboards |
| Transaction ownership | `db/{sqlite,sqlite-transaction,sqlite-statement,read-snapshot*}.ts` | connection state, native handle, FIFO gate, reentry store, pending operations, a handle and its queue per transaction | connect, exec, prepare, run, iterate, transaction, snapshot, abort, close | every statement of a connection |
| Response cache | `server/src/{response-cache,bounded-response}.ts` | entries, bytes, computations in flight with waiters | hit, join, compute, settle, expire, clear | HTTP routes |
| Gateway admission | `gateway/src/hooks/*`, `utils/sliding-window.ts`, `middleware/request-limits.ts` | slots and windows per key | acquire, reject, settle | gateway requests |
| Gateway spend | `gateway/src/spend/*` | spend rows, budgets, reset dates | record, flush, reset | admission reads the spend |
| Router and cooldown | `gateway/src/router/*` | failure counts, cooldown dates | choose, fail, recover | gateway requests |
| Slow log | `gateway/src/slow-log/writer.ts` | two streams, queue | write, drop, rotate | gateway requests |
| CLI daemon | `cli/src/lib/daemon.ts` | pid file | start, stop, health | the server process |
| Prompt store | `server/src/routes/prompts-v2.ts`, `server/src/shaping/prompts-v2.ts` | rows of `prompts` (versions with labels) and `prompt_dependencies` | create a version, replace its labels, delete, record and resolve references | clients only |
| Datasets | `shared/src/features/datasets/*`, `repositories/dataset-runs.ts`, `server/src/routes/{datasets,dataset-items}.ts` | item versions with validity intervals, runs; run items in the telemetry database | create, update and delete items, delete a dataset, create a run, add and delete run items | telemetry writers |
| Codecs, other routes, web UI, MCP wrapper | `io-cas/{chunk-codec,hash,manifest,prepare}.ts`, `server/src/app.ts`, `web`, `langfuse-mcp` | none beyond the above | — | — |

**What is hard.** But for the gate of a connection there is hardly a lock in this code: jobs work in short
transactions with unprotected gaps, and correctness rests on something that is
re-read in the last transaction — an epoch (collector), a byte comparison
(migration), a revision (rollups, search). The hazards are therefore

- *a gap between read and write*: a row planned, aggregated or extracted in one
  transaction and published in another, with writers, a second process or
  retention in between;
- *cursors that persist or wrap*: a page cut short by a byte budget, a page of
  exactly the limit, rows inserted behind the cursor, a cursor ahead of the work
  after a crash;
- *one member that always fails*: a bad manifest, a malformed row, a day that
  times out, which must neither be skipped silently nor hold up the others;
- *counts kept by increments* beside the thing they count;
- *states left by an interruption*: of a purge, a round, a batch, a worker;
- *a check before an await and the call after it*: a request of a connection
  looks at its state, waits for its turn, and may find it closing or failed,
  with a transaction of somebody else left open;
- *handlers of several statements without a transaction*: prompts, and the
  deletion of dataset items, where requests interleave between any two
  statements and may end after any of them.

`PROJECT.json` lists each at its line with the property that covers it.

**What makes each part correct** (modelled parts first):

- CAS: no committed row ever names a chunk that is not in the pool; a finished
  round leaves no garbage; collection is invisible to readers.
- Migration: no text changes; the stored cursor never passes unfinished work;
  the collector's invariant survives.
- Rollups: a rollup not marked dirty is what its queries would return now; a
  finished backfill forgot no day; expired days stay gone; one bad day does not
  hold up the others.
- Search: hits are current; what left the queue is indexed or given up; shared
  texts survive; the pending count is the length of the queue; the history is
  covered in the end.
- Connection: only the owner of the gate touches the native handle, never after
  it was closed; turns are taken in order and none is lost; a resolved request
  has taken effect and a rejected one has none; close() ends.
- Ingestion: each column ends with the value of the latest event that provided
  it, in whatever order events come; a repeated event changes nothing; the totals
  of a trace are those of its observations.
- OTLP route: what an exporter was told is stored is stored, whatever failed, was
  repeated or was written to the same trace meanwhile.
- Job queue: an accepted job is in one place until it ends, ends once, and ends
  at all while there is a worker; the limits hold.
- Maintenance loop and its jobs: a request made after a retention pass is never
  left to the interval; nothing runs on a closed database; each pass serves every
  project it is through with; garbage is collected over the passes.
- Read pool and response cache: nobody gets the rows of another query, however
  late an answer comes; one computation per key, whose every outcome settles its
  waiters; a query that ran into a limit is never taken for data; a slot that lost
  its worker gets another.
- Prompts: as long as requests come in turn, whichever of them end halfway, labels
  are on one version each; a request that met no other one settles the labels it
  claims; references go only by a deletion or a failure.
- Datasets: an item has one version at each instant, the past does not change, and
  concurrent requests share one run per name.
- Gateway: a request's place and slots come back exactly once; what a client is
  told is what was recorded; log, daily row and spend agree; a budget is reset at
  most once per period; repeated failures lead to a cooldown.

## 2. Modules and the code

| module | models | extends |
|---|---|---|
| `Keyset` | a page of a keyset scan (`… WHERE key > cursor ORDER BY key LIMIT n`) | |
| `ObservationInputs` | what clients are promised about `observations.input`: a store of texts | |
| `IoCasPool` | pool, writers, retention, collector of one project | `Keyset`; refines `ObservationInputs` |
| `IoCasMigration` | backfill and expand runners beside all of `IoCasPool` | `IoCasPool` |
| `DailyStats` | rollups, markers, maintenance passes, readers, other processes, retention | `Keyset` |
| `SessionSearch` | search queue, projection, backfill, indexers | `Keyset` |
| `FifoLock` | what the gate promises: a lock handed over in order of arrival, whose waiters may leave | |
| `FifoGate` | the chain of promises of `FifoGate` | refines `FifoLock` |
| `SqliteConnection` | one `Database` of the bun:sqlite engine and its requests | `FifoGate` |
| `Ingestion` | batches of events, versions per column, totals of traces | |
| `OtelSpans` | requests of an exporter over `Ingestion` | `Ingestion` |
| `Lists` | arrays and ordered maps kept in memory: filtering, removal, sums of sizes | |
| `InMemoryQueue` | the bounded queue of jobs | `Lists` |
| `MaintenanceLoop` | one loop, as operators on a record | |
| `CasGcJob` | retention's and the collector's loop, the collector's pass over all projects, start and shutdown | `MaintenanceLoop` |
| `SqliteReadPool` | slots, worker threads and the queue of the read pool | `Lists` |
| `ResponseCache` | entries, computations in flight and who waits for them | `Lists` |
| `ReadPath` | a cached read: the cache's computations are the pool's queries | `ResponseCache`, `SqliteReadPool` |
| `Prompts` | the prompts of a project, statement by statement | |
| `DatasetItems` | item versions, runs and run items, statement by statement | |
| `Gateway` | one request from admission to accounting, and many at a time; budget resets | |
| `ProviderRouter` | the candidates of a request, failure counts, cooldowns | |
| `MC*` | instances of the above for TLC; `MCMetadata` is the part of `MCIngestion` on prompts and datasets | |
| `*Proofs` | theorems | the module they are about, `TLAPS` |

Names follow the code: an action is named after the function it models
(`MarkRootBatch`, `ApplyBatch`, `IndexSource`), a variable after the table or
column it stands for. One action is one transaction, or one step between two
awaits of a job. The faulty variant that a mutant uses stands before the definition
it replaces.

### IoCasPool

A text is the set of chunks it is sliced into; ids and hashes are numbers in
scan order. `codec`/`body` are the columns of `observations`, `pool`/`mark`
those of `io_cas_chunks`, `epoch`/`phase`/`rootCursor`/`sweepCursor` the
collector's row. Everything is a table column, so a crash between two steps is
simply the absence of the next one.

`WriteCas` is `insert`/`mergeInsert` with a candidate that wins its row:
`publishCasInput` inserts what is missing, compares what is there
(`Publishable`) and lifts the marks of what it uses (`MarkReferenced`, the write
barrier) in the transaction of the row. Whether a version wins is the choice
between writing and not writing. `PurgeRows` is retention's chunked delete.
`MarkRootBatch` takes a page of roots, possibly cut by the byte budget, and
either marks all of them or, at one bad manifest, blocks the project and marks
nothing. `SweepChunkBatch` deletes a page of chunks with an old epoch and ends
the round after a short page. `DamageRow` and `RotChunk` are damage on disk.
`Hydrated` is what a reader assembles; `ObservationInputs` is implemented with
`value <- [id |-> Hydrated(id)]`.

### IoCasMigration

A runner is one process of the script: `begin → loop → plan → apply` and back,
with `fail`, `done`, `verify`. Its batch and its copy of the cursor are in
memory (`run`), the job's row (`jobRow`) is what survives a `Crash`. Ids are
listed in one transaction, planned in a second, applied in a third;
`SameSnapshot` is the byte comparison that the third one makes. Nothing prevents
two runners, of one job or of both, and the model does not either. `touched` is
a history variable: the ids a job is not answerable for because a writer, the
other job or the operator's `--cursor` passed them. A new pass is the next
number (the operator may choose any other one).

### DailyStats

A query over a day yields the set of rows it covers, so a rollup is exact when
it equals what all queries would return now. Each aggregate query runs on a
snapshot of its own (`RunQuery`), so a recompute can see a torn state; `Publish`
is refused when the revision moved or the day expired. Recomputes of a day are
serialised within a process (`FreeFor`), not across processes (`Foreign`).
`ListMissing … EndFix` are the two pages of a maintenance pass with the
loop's cursors and flags as they are kept in memory; `FailDay` is a query that
fails; `RaiseCutoff … PurgeMarks` is retention in the code's order, interruptible
between any two. `Restart` loses everything that is in memory.

### SessionSearch

`MarkDirty` runs in the transaction of the write and gives the source a new
revision. An indexer's tick is `CheckBackfill`, `EnqueueBackfill`, `ListDirty`,
then for each source `TakeNext`, `ReadSource`, `IndexSource` and their error
paths `MarkFailed` (put off) and `MarkLimited` (given up until it changes).
`IndexSource` replaces the occurrences and drops texts nobody names, unless a
newer revision exists (`Superseded`). `retry` abstracts `next_attempt_at`:
`later` becomes `soon` when a tick starts and is due after that, because the
shortest backoff (5 s) outlasts a tick's own delay. `index` and `backfill` are the project's and the
backfill's rows of `search_index_state`.

### SqliteConnection

A step is what a request runs between two awaits; each of its checks is made in
the step in which the code makes it, so state may change in between. `phase`
says where a request is: `opening` (waiting for `ready()`), `queued` (for the
gate), `inside` (owner, checked), then by kind. `exec` makes one call; `run`
prepares, lets go and asks again (`requeued`, `executing`), as
`withStatement` does; `stream` is `iterate` on a prepared statement, which no
registry tracks; `write` is `transactionAsync` and `snapshot` the same with a
signal. `Scopes` are the values `AsyncLocalStorage` can hold: none, a running
transaction, or one that is over (a task its callback left behind).

The gate is modelled by ticket numbers: `tail` promises are chained, those up to
`served` are resolved. `Withdraw` is an abort while waiting (the caller is
rejected, its promise stays in the chain), `PassOn` the turn of such a promise.
`lane` is the gate of a transaction's handle; `work` what became of each of its
statements, `caught` when the callback dealt with the error. Rows tell who wrote
them: `native.staged` holds those of the open transaction, `table` the committed
ones. `RollBack` may fail, which leaves the transaction open and fails the
connection (`Taint`).

`Close … CloseFinishes` is `performClose` between its awaits; `stopped` are the
streams it has asked to return. `Connected` sets the state to open whatever
`close()` has made of it, as `connect()` does.

### Ingestion

A transaction is `Begin` (one table of a sorted batch), `ApplyEvent` per event in
order of time, `Commit` (which first recomputes the totals that `pending` names,
`flushIngestionMetrics`) or `Rollback`. `work` is what the transaction sees, `db`
what is committed. `Accepted` is the comparison of (timestamp, envelope id) per
column, `Known` what a row without versions counts as, `Inherited` the input and
output that a trace takes from an observation of its batch. `Recorded` is
`recordTelemetryMutation` case by case: an observation joins, leaves or stays in a
trace, with increments where a total exists. The sums are linear in the usage of
an observation, so a total is kept as the number of observations per usage.
`seen` is a history variable: the events a row has met.

### OtelSpans

A request goes through `Export` (conversion: every span becomes an observation
event, `ForTrace` says which also become an event of their trace), then per table
`BeginTable`, `WriteEvent` for each event, `CommitTable` or `FailTable`, then `Answer`
or `LoseAnswer`. The steps on rows are those of `Ingestion`; `TraceOrders` is the stable
sort by time, `Takes` the input a trace takes over from the spans of its request
(`processEventBatchLite.ts:329-370`), before its event competes with others.
`RemoveRows` is a deletion meanwhile, `Crash` the end of the process. Ids of trace
events are random (`RandomEnvelopes`), so which of two events of one trace in the same
millisecond wins changes from one attempt to the next: "idempotent UPSERT"
(`OtelIngestionProcessor.ts:555`) holds of an event, not of a request sent again.

### Prompts

No handler runs in a transaction, so one action is one statement: a creation reads
the newest version (`ReadNewest`), the greatest version number (`ReadMax`) and the
holders of the labels it claims (`ReadHolders`), writes to each holder what it held
without them (`Release`), inserts its row and then a row per reference; a patch and
a deletion are the same kind of sequence. `FailRequest` ends a request between any
two statements, which is an error of the database as well as the end of the
process. `met`, `overlapped`, `forgotten` and `cut` are history: which requests were
under way together, and whose references a deletion or a failure has taken.

### DatasetItems

A new version of an item is one transaction that closes the one before
(`NewItemVersion`). A deletion is not: it reads the current version (`ReadCurrent`)
and closes the row it read (`CloseVersion`), also when an update has closed it
meanwhile; `overtaken` is the history of those. `FindRun`, `InsertRun`,
`FindRunAgain` are the race of requests that create the run of one name, decided by
the unique index. Run items are in the other database and survive a dataset.
`FailCall` ends a request between two statements.

### InMemoryQueue

`accepted` is the map of jobs, `waiting`, `timers` and `executing` are where they
are. Each handler ends with `ProcessNext`, as in the code. `Drain` fails what does
not run, `CloseQueue` drains and lets what runs come to its end; a failure then is
final. The processors registered today are placeholders
(`worker/in-process-worker.ts:63-92`): the module is about the queue itself.

### MaintenanceLoop and CasGcJob

A loop is a record (timer, running, pending, stopped), and what its closures do are
operators on it, so several loops stand side by side in `jobLoop`. `GcPass` is one
step of `runCasGcPass`: discovery, then steps of the project at hand within the
budget of the project and that of the pass, of which the first step of a project
is exempt. Of a project's round only the length is kept: what its steps do is
`IoCasPool`, which has one project. `RetentionEnds` is the request for a collection.
`Boot`, `ShutDown`, `CloseDatabase` and `Exit` (a crash, too) are those of
`server/src/index.ts`; `Boot` is one step, a signal during it is not modelled, and
the collector is taken to be switched on (`PERIFUSE_IO_CAS_GC`).

### SqliteReadPool, ResponseCache and ReadPath

A slot has a state, a request and at most one thread; the thread has a mailbox and
a reply on its way, so that an answer can be late. `Cancel` is a query's timer or
signal, which retires the slot; `Exit` and `Start` are the thread's end and the
restart timer. Every handler ends with `Dispatch`. In `ResponseCache`, `Own` is the
miss that starts a computation, `Join` one that waits for it, `ComputeAlone` what a
waiter does that was told there is nothing to share. `ReadPath` composes them: a
computation submits the query of the pool that carries the request's name, its
outcome limits what the handler can answer (`Responses`; repositories turn an
error into an empty list, which is `fallback`), and a query that ran into a limit
ends in an error whatever the handler made of it (`QueryFailed`).

### Gateway and ProviderRouter

`stage` says what a request awaits: authentication, the shared write probe, the
hooks in their order, the upstream call, the body of a stream, the transaction of
its spend. `Settle` is `HookRegistry.settle` with what the acquired hooks do, and
`Respond` the end of the handler, whose body the limiter reads on behalf of the
client (`place`). A client may leave at any time (`gone`). `chat.ts` and
`messages.ts` go through the same stages and are one request here. `Commit` is
`recordSpend`, one transaction; `StartPass … EndPass` is the reset of budgets,
which decides from what it read before (`found`), beside `ComesDue` and an
administrator's `Reschedule`.

`ProviderRouter` is the upstream call: `Resolve` reads the available deployments
once, `Call` tries one after the other, `Fails` counts and, at the threshold, goes on to
`Mark` (the UPDATE), `MarkFails` (the UPDATE failed, which is ignored) and `Forget` (the
count is cleared after it).

## 3. Runs, bounds, fairness

| run | asks | result |
|---|---|---|
| `pool` | Can a row lose a chunk, a round leave garbage, a mark be lifted without use, a root start on bad bytes, a reader notice the collector? Is garbage collected in the end? | no; yes, or the project is blocked |
| `migration` | Can a crash, pause, failure or resume lose a row, or a text change, also with backfill and expand against each other and a whole round? | no |
| `daily_stats` | Can a clean rollup be wrong, a finished backfill have forgotten a day, an expired day return? | no |
| `maintenance` | Do all days but the failing one become exact, with a restart on the way? Do retention's and the collector's jobs lose a request, outlive the shutdown, or starve a project? Is the history covered by an indexer although a source fails for ever? | yes; no; yes |
| `search` | Is every hit current, everything off the queue indexed or given up, every count exact? | yes |
| `connection` | Can a request touch the handle without its turn or after close(), an answer be untrue, a turn be lost or taken out of order, a close() hang? | no |
| `ingestion` | Can the order, lateness or repetition of events show in a row, or a total drift from its observations? Can an exporter be told 200 for what is not stored? Can prompts that are changed in turn end with a label on two versions, or a run of a name exist twice, or the past of an item change? | no; no, but for a request that could not be converted; no |
| `gateway` | Can a rejection, abort or failure leak capacity, a client be told what was not recorded, accounts disagree, a budget be reset twice, failures be ignored? | no |
| `read_path` | Can a late answer reach another request, a failed query be cached as data, a waiter or a slot be left behind? Can the queue lose a job or end it twice? | no |
| `connection_handled` | Does a statement error that the callback dealt with leave its transaction alone? | **no** |
| `prompt_labels` | Is a label on one version of the project? | **no** |
| `search_ready` | Does `indexState: ready` mean the history is covered? | **no** |

**Three disagreements with documents and comments.**
`docs/session-text-search-design.md:227` says that while coverage is incomplete users are told that history is still being indexed.
`query.ts:193` answers from the project's row of `search_index_state` as soon as
there is one (`ORDER BY`, line 182), so with an empty queue it answers `ready`
with coverage `new` between two pages of the backfill, and for as long as new
work keeps the backfill waiting. In the run nobody writes (`HistorySpec`): the
indexer queues the one trace of a history of two rows, lists it, reads it and indexes
it; the answer is `ready` while the backfill is at coverage `backfill`, with its
observation cursor at 0 and the second row, an observation with text, never queued.
With writers there is a second way, which needs no page of history at all: a new row
is indexed first, and `ready` is answered before the backfill has begun.

`docs/sqlite-engine.md:179` says that a statement error which a callback has
dealt with must not fail its transaction, and that no flag "something was
rejected" may force the rollback. `PendingOperations` is such a flag
(`sqlite-transaction.ts:183`), and `settle()` (`sqlite.ts:172`) throws what it
holds after the callback has returned. The counterexample is one statement that
fails, is caught, and undoes everything else the transaction did.

`prompts-v2.ts:274` and `:344` say that labels are unique across the versions of a
project. Creations and patches release the labels they claim in statements of their
own before the row is written (`prompts-v2.ts:158`). The counterexample is two
creations for two names that both find no holder of `latest` and both insert it. What
does hold, and is checked and proved, is `PromptsInv` (labels are on one version
as long as no two requests overlapped) and `ClaimSettles` (a request that met no
other repairs what it claims).

One more was met, and is built into the model and its properties rather than
run: line 101 of the same document lets `close()` refuse new work from its first
step on. When `close()` comes while the connection is being opened, `connect()`
sets the state back to `open` when it is done (`sqlite.ts:276`) and requests are
accepted until the handle is gone. None of them harms (`SafeHandle`,
`AnswersAreTrue`), but a stream accepted then is never asked to stop, so
`CloseEnds` promises the end of a close only while the state says `closing`.

**Bounds.** Every bound is a constant named in a guard or a set of the cfg.

- `pool`: three rows so that a page of two is full, short or cut by the byte
  budget, with a row behind, in and after it; two chunks for a shared and an
  unshared one and a full last sweep page; two rounds (a chunk may turn to
  garbage in one and be used again in the next) and then the exhausted epoch.
  One row and one chunk may be damaged: a page with a sound row before or after
  the bad one.
- `migration`: two instances in one run, chosen by the initial state (`instance`).
  One runner has two rows and batches of two, so a page may be cut, one chunk, a
  second pass and no collector. Two runners of opposite jobs share one row with a
  whole round of the collector.
- `daily_stats`: two days and pages of one, so the cursors stop, wrap and end;
  one row that moves between the days; two queries, so a torn read exists; the
  server's loop and a recompute of another process; two changes per kept day.
  Retention raises its boundary to the second day only (`Cutoffs`): one day
  expires while the other is kept. One restart, after which the other process is
  done (`OneTrouble`). The days of `maintenance` let retention reach every day.
  Two readers of one process add only the serialisation that `FreeFor` states.
- `maintenance`: the days, the jobs or the search (`part`), which share nothing that
  matters to any of them. The days are those above with one query, one change and a
  restart. The jobs have two projects, so one comes before the other; rounds of
  three steps and budgets of two, so that a round does not fit a pass and the
  first project uses up the budget; at most two troubles in a behaviour (a failing
  step, a restart, an invalid row, a blocked project). The search has one indexer,
  two chunks and an oversized text, a trace that may fail for ever and is put off
  (`FragileSources`) and an observation that may stop to decode.
- `search`: one trace and one observation make both cursors move and a page of
  one force `100 - added = 0`; two revisions are what it takes for a worker to
  be late; two workers take the same source. One chunk, shared by both, decides
  whether a text is dropped. The trace may fail (`FragileSources`), the observation
  may stop to decode, so a worker gives it up (`DecayingSources`), and a worker may
  restart; these happen only while no source has changed twice (`FewTroubles`). That
  the invariant survives any mix is what its proof covers.

- `connection`: one request of each kind with a character of its own: a
  write transaction with one statement, an abortable snapshot, a prepared
  statement (two turns), a stream; and `close()`. `exec`, a prepared
  statement with its first turn left out, is left to the proofs, which cover any
  number of requests of every kind. Four requests are enough for a queue with an
  aborted waiter in its middle behind a transaction whose rollback failed.
  `connection_handled` needs one transaction.
- `ingestion`: batches, spans, prompts or dataset items (`part`). Batches: two traces, two
  observations; one is created, moved to the other trace by a later event and
  charged by one that has the time of its creation, so that both parts of a
  version decide. A trace has a patch with an inherited input and the same event
  without. Rows of an older release may exist, with or without totals. Spans: a
  request with the root of a trace and an update of it in the same millisecond, and
  one with a plain span that starts later, three sendings between them: one request
  beside a repetition of the other. Four random ids, which decide ties either way.
  The last sending may be later than the others; the trace may be deleted where it
  is not; a request that is refused and one that cannot be converted are sent alone
  (`FewRequests`). Nobody deletes observations here; the part of batches does.
  Prompts: three requests of two clients for two names with two prompts, enough for a
  failed request, one that repairs it and one that meets either; the first one creates
  (`FirstCreates`). Datasets: two that share an item and a run name, two callers and
  three instants; run items are added in the first (`EarlyRuns`).
- `prompt_labels`: two creations for two names are all it takes.
- `gateway`: either requests or upstream calls (`half`). Two of three requests get
  in, the limit is two, and each limit of the first key is one. A request of the
  other key, which has no limit, comes without a reset or a restart (`Small`). Two
  calls, two providers of which one may fail (`Reliable`), the code's threshold of
  three, one lost UPDATE in a row.
- `read_path`: three of four requests arrive, three for one key or one of another
  key among them; one slot, a queue of two, one waiter, one computation at a time,
  and an entry that leaves no room for the other. Requests for the same key arrive
  in the order of their names, which loses nothing. The other half is the queue:
  three jobs that differ in delay, backoff, size, attempts and whether their
  failure is kept, and room for two jobs, three bytes and one at work; each may be
  added twice.

Deadlock is checked where nothing may come to rest; in `connection` it means that
nobody waits for anybody for ever except for a consumer, a caller or a close still
to come. In `ingestion`, `gateway` and `read_path` all requests are answered in the
end, and a closed queue stops. Two workers are interchangeable in `search`; only
that run uses symmetry, and it has no temporal property.

**Fairness.** Only what the code schedules for ever is fair; writers, retention,
damage, failures, restarts and operators may stop at any time.

- `pool`: weak fairness of the collector's next step. `gc-job.ts` visits
  every discovered project in each pass and the loop starts a pass after every
  pass; the budgets only decide where a pass ends, which `GarbageGoes` shows.
- `maintenance`: for the jobs weak fairness of the collector's passes and timer, and of
  retention's, each by itself: timers fire and passes go on. Nobody has to start
  the server. For the days weak fairness of the loop's steps and of the queries and
  publications of a recompute that was started (they have deadlines); strong
  fairness of `LoopDay`, because recomputes of one day form a FIFO chain
  (`daily-stats.ts:274-288`), so readers cannot keep the loop off a day for ever.
  For the search weak fairness of the indexer's next step, since a tick
  schedules the next one whatever became of it, and of the end of a wait.
  The bound is fewer failing sources than a page of the queue: thousands of
  them, each due in a second of its own, could keep some source due at every
  tick, and the history waits for due work.

- `connection`: weak fairness of `Progress`, as one formula: the event loop does
  not idle while a continuation is ready. It includes that a connection attempt
  ends, that the retries of BUSY end within their budget
  (`retryWhileBusy`, 5 s), and that callbacks return, which the code does not
  enforce for writers (`docs/sqlite-engine.md:179`: close waits for them). It
  does not include the consumers of streams, callers, aborts.
- `gateway`: weak fairness of `Handlers`, as one formula: upstream calls have
  deadlines, the probe and the transactions end, and a client reads its body or
  closes the connection.
- `read_path`: `Handlers` are the deadlines of queries and the continuations of
  requests; no worker is assumed to answer. `Comeback`: a thread that was told to
  terminate exits, and the restart timer fires. For the queue, its timers, and the end
  of a job that runs, in one way or the other.

**Mutants.** For every property of a passing run a plausible slip in the code is
kept in the module (`MarkReferencedInMarkOnly`, `EndOfPage`, `NeverSuperseded`,
…); with it in place the property fails under the same cfg.

## 4. Proofs

TLAPS checks these for any rows, chunks, texts, days, sources, workers, batch
sizes and limits; the only assumptions are the named `ASSUME`s of the modules
(keys are positive numbers and finitely many, batch sizes are positive, events of
one observation provide the same values, …), which TLC evaluates in every run, and
the two hypotheses named below.

| module | theorem | says |
|---|---|---|
| `IoCasPoolProofs` | `PoolSafe`, `RootsNeverDangle` | `Spec => []PoolInv`; its point is `NoDanglingRoot` |
| | `FinishedSweepIsComplete`, `RootsStartOnSoundChunks` | the action properties: a finished round left no garbage and marks follow references; no root starts on bad bytes |
| | `PoolImplementsStore` | the pool with its collector implements the plain store |
| | `MigrationKeepsPool`, `ReencodingIsInvisible` | any number of runners keep `PoolInv` and the texts |
| | `ResumingLosesNothing` | `CursorCovers`: the stored cursor never runs ahead of the work, as long as no two processes of a job are at work at once |
| `MaintenanceProofs` | `CleanRollupsExact`, `RetentionIsFinal` | `StatsInv`; expired days stay gone |
| | `BackfillIsThorough` | `BackfillInv`: a finished backfill has forgotten no day |
| | `JobsAreSound`, `PassesServeAll` | `JobInv`; no pass leaves a project behind |
| `SessionSearchProofs` | `IndexIsRight`, `ReadyIsComplete` | `SearchInv`; covered and empty means complete |
| `SqliteConnectionProofs` | `GateIsFifoLock` | the gate implements `FifoLock` |
| | `HandleIsSafe`, `AnswersHold`, `ConnectionInvariance` | `SafeHandle`, `AnswersAreTrue` and the invariant `ConnectionInv` both rest on |
| `IngestionProofs` | `IngestionSound` | totals are exact, columns hold the latest values |
| | `TotalsFollow`, `RetriesAreHarmless` | a commit leaves totals exactly where there are observations; a repeated event changes nothing |
| | `RouteImplementsIngestion` | the OTLP route refines `Ingestion` |
| | `RouteIsSound`, `RouteRetriesAreHarmless` | hence its rows and totals are right, whatever is sent again |
| | `AcknowledgedSpansAreStored` | `AcknowledgedIsStored`: what was answered 200 is in the store until it is deleted, if rows without versions are older than all spans |
| | `PromptsAreRight`, `ClaimsSettle` | prompts: `PromptsInv`, `ClaimSettles` |
| | `ItemsAreRight`, `ThePastIsFixed` | dataset items and runs: `ItemsInv`, `PastIsFixed` |
| `ReadPathProofs` | `PoolSound`, `AnsweredOnce` | the read pool: `ReadPoolInv`; what a query was answered never changes |
| | `ReadsImplementPool`, `PoolOfReads` | cached reads refine the pool, hence its invariant holds below the cache |
| | `CacheSound`, `SharedSound` | the cache: `CacheInv`; what is shared is true: `SharedIsTrue` |
| | `QueueSound` | the job queue: `QueueInv` |
| `GatewayProofs` | `CapacityIsExact`, `AnswersStayTrue`, `AccountsStayInAgreement` | the three invariants of requests; a budget is reset once per period, and nobody is charged who read it spent |
| | `OvershootIsBounded` | those who read it in time overshoot it by fewer requests than there are places and slots |
| | `FailuresAreActedOn` | the invariant of the router |
| `CollectionProofs` | lemmas only | pages (`FirstOfIsPrefix`, `ShortBatchIsAll`: a page skips nothing, a short one is everything) and lists (what `Selected`, `Without` and `Total` return) |

*The pool.* `NoDanglingRoot` alone is not inductive: a sweep step deletes what
has an old mark, so one has to know that no root's chunk has one. That is
`SweepSparesRoots`, which holds when a sweep begins because in the mark phase
every root behind the cursor is marked (`ScannedRootsMarked`) and none is left
ahead of it. Both survive writers only because of the barrier, and sweeping
survives the next round only because absent chunks carry no mark
(`MarksBounded`). `SweptPrefixClean` with `ShortBatchIsAll` gives completeness.

*Migration.* A runner's transaction is, for the pool, a set of writes: what it
publishes goes through the same barrier, what it expands stops being a root.
That it changes no text needs `PoolInv`: backfill's new manifest is complete
because its chunks are in the pool when it commits.

*Resuming a migration.* `CursorCovers` speaks of the stored cursor, which is written
from a runner's copy of it, which was moved past a page that was listed in one
transaction and planned in another. `CursorIInv` says the same of each: the copy
covers what is before it (`CopyCovers`), a listed page leaves out no row the job still
owes (`PageCovers`), and a planned batch has a usable plan, made of the row as it is,
for each row it still owes (`BatchCovers`). A step of anybody else spares a job's rows
or marks them `touched` (`Spared`). The theorem has a hypothesis, that of the runners
of a job one is at work at a time (`TakingTurns`): each may crash, pause or fail and be
followed by another, also of another process. The run satisfies it, its runners having
a job each, and nothing in the code enforces it. Without it TLC refutes `CursorCovers` within seconds (two runners of backfill, two passes): a
runner whose pass fails while it verifies (`RecordFailure`) writes its own pass and
cursor over the row with which a second runner has begun the next pass.

*Rollups.* `CleanIsExact` needs `SnapshotCurrent`: as long as the day's revision
is the one a worker started from, what it has read is what it would read now;
and `RevisionBehind`: revisions of a kept day only grow, so a revision seen
again means nothing happened in between. Retention is the exception (it removes
markers, so revisions restart at zero), which is why both speak of kept days and
`RetentionWithin` ties the deletion to the stored boundary.

*Backfill.* `BackfillForgetsNothing` speaks of the end only. What carries it there
is that every day at or before the cursor is `Covered` (`CursorCovered`), and of the
page at hand those already dealt with (`FilledCounted`). `FirstOfIsPrefix` of
`CollectionProofs` says that a page skips no day and `ShortBatchIsAll` that nothing lies
beyond a short one. A day stays covered because whatever empties or changes it leaves
a marker (`StaysCovered`), and a publication that is refused was refused because of
one.

*Search.* `ShownIsCurrent` and `SettledIsIndexed` need that no indexer holds
a revision ahead of the source's and that a text read at the present revision is
the present one (`WorkCurrent`), that the queue holds only the latest revision
(`QueueCurrent`), and, for completeness, that the cursors leave behind only what
was queued (`CursorsCover`) and the count is the queue's length
(`PendingExact`).

*The connection.* Every step does at most one operation of the gate
(`NextIsGateStep`), so the gate's own invariant and its refinement are proved
once, from the five operations. `SafeHandle` needs that who works has a place in
the chain and whose turn it is (`PlacesInv`, `GateInv`) and that the handle is
closed only by an owner, after which the state is closed for good (`LifeInv`).
`AnswersAreTrue` needs that a request which passed the check under the gate finds
no transaction open but its own (`TransactionInv`): one that could not be rolled
back has failed the connection, and a failed connection never opens again. The
rows waiting for COMMIT are then those of the one open transaction, and its
handle accepts and runs each statement once (`LaneInv`).

*The jobs.* `JobInv` is inductive as it stands, because it has two conjuncts for
that: `StopsTogether` (all loops are stopped in the step that leaves `up`) and
`PassInv` (the loop runs exactly while there is a pass, and the project at hand is
served once it has used a step, which makes `EveryProjectServed` a property of
the step to the next project).

*Ingestion.* `TotalsExact` of what is committed needs it of what the transaction
sees, but for the totals left to the commit (`Sound(work, pending)`), and that
nothing outside a transaction differs from what is committed. `RowsLatest` needs
that a row without versions is as it was before they existed (`Unversioned`). The
totals are cardinalities, so each case of `recordTelemetryMutation` is one more, one
less or the same (`CountOneMore`, `SameCount`). A repeated event is never accepted
because some version at or above it is recorded in each of its columns.
For the route it is enough that only events wait to be written and that a
transaction belongs to a request that is writing a table (`RouteInv`): then every step
is one of `Ingestion` or leaves its rows alone, and its theorems carry over.

*What was acknowledged.* `DeliveryInv` follows each event from the conversion to the
rows: it waits, is in the transaction its request has open, or is committed, unless
its table has failed (`Tracked`) or its row was deleted (`Arrived`). `Status` is 200
only if nothing failed, so all of a request's events have arrived by then (`Kept`),
which no later step undoes. A column has its value from an event that is not older
than any its row has met (`Winner`, from `RowsLatest`), and rows have met events of
spans only (`Met`), so an observation has the values of its own span, by
`SameSpanAssumption`: spans of one id are one span. `Winner` fails for rows that are
older than the versions and not older than the span (their values count as provided at
the row's own time), hence the hypothesis `LegacyTs = 0 \/ db.live = {}` on the store
an exporter finds; a span that such a row outlives is not lost, but its columns may
show the older release's values.

*Prompts.* A request that nobody met is the only one under way, so what it has read
still holds when it writes. `ReadsSound` says so step by step: the version is free
(`Fresh`) or its row is the one it read (`ItsRow`), and no other row holds what it
claims once the holders it has found are released (`Released`). That makes a request in
turn keep `InTurn` and `ClaimSettles` follow from its last step. References need
`Recorded`: what is neither stored nor still to be recorded was removed by name or cut
short.

*Datasets.* The versions of an item follow one another (`Succession`): of two, one
ended before the other began, unless it is in `overtaken`. A replacement ends the
open one at the present instant, so what a past instant shows stays
(`ReplacingKeepsPast`).

*The read pool.* `PoolIInv` says how the handlers leave slots, queue and threads: the
query of a slot is in the queue and in no other slot, a mailbox or a reply belongs to
the query of its slot unless the slot is being stopped (`SlotsSound`, `ThreadsSound`),
so a late answer finds nobody to take it; bytes are the sum over the queue (`Ledger`);
and while a slot is idle nobody waits (`NobodyWaits`), because `Dispatch` gives the
n-th idle slot the n-th query that waits (`RankCounts`).

*The cache and the composition.* `CacheInv` needs that key and owner name each other
(`Owners`) and that a key being computed is not also kept (`Apart`), or a finished
computation would put it into the order twice. `SharedIsTrue` is about both modules:
whoever is answered for a key had it of a request for that key whose query ran into no
limit (`Told`), and that stays true because a query keeps its answer (`AnsweredOnce`)
and a request is the only one that submits the query of its name
(`ReadPathAssumption`).

*The job queue.* `JobsIInv` splits into where jobs are (`Placed`), who works
(`Manned`), the bounds (`Bounded`), attempts (`Tried`), the count of ends (`Counted`)
and the kept failures (`KeptLists`); each handler ends in `ProcessNext`, which is
treated once. `Drain` ends jobs one by one and keeps them one by one: that a list
stays one of `KeptLists` over all of them goes along the recursion of `KeepEach`.

*Recursive functions.* `Selected`, `Total` and `KeepEach` are recursive functions over
the length of a list. The induction theorems of the library take an operator as
parameter, which the provers cannot instantiate; `CollectionProofs` states induction
over a set instead (`UpTo`, `ByAppending`), from the fact that a set of numbers which is
not empty has a least one (`LeastOf`), and that a function defined by recursion over
`0..N` exists (`Recursion`).

*The gateway.* What a request holds is a function of its stage: `PlaceInv` (its
place and whether its client is there), `HookInv` (hooks, slot) and `ChargeInv`
(what is recorded). `Counts` and `AccountsAgree` then follow one request at a time,
with what `FiniteSetTheorems` says of adding and removing one element. `AccountsAgree` is `LogAgrees`,
`ResetOncePerPeriod` and `BudgetHolds`; for the second
`DueInv` pays each budget that a pass has found with the time it came due. The bound
on the overshoot needs that once a budget is spent nobody joins those who read it
before (`Early`): what is spent and what they may still add stays below the bound
(`OvershootInv`). It is too loose for the instance of `gateway`, and stays with the proof.
`FailuresActedOn` is inductive itself: a failure from the threshold on adds one to the
count and one to the calls that are marking, a failed UPDATE moves one from these to
`missed`, and clearing the count pays for everything.

**Model-checked only**: the liveness properties (`GarbageCollected`, `OthersConverge`,
`GarbageGoes`, `HistoryIndexed`, `CloseEnds`, `CapacityReturns`, `EveryoneAnswered`,
`JobsEnd`: fairness is beyond the prover) and the three properties that are violated. Every
other invariant and action property that a run checks is stated by a theorem. What the
theorems assume beyond the runs' `ASSUME`s is one runner of a job at work at a time
(`ResumingLosesNothing`) and the store without newer unversioned rows
(`AcknowledgedSpansAreStored`); both hold in the runs.

## 5. What is left out

- *Data*: how text is sliced, hashed, compressed, extracted and matched; what
  aggregates count; byte budgets except for the cuts they make. A change of any
  byte is assumed to be noticed by the byte comparison and the hashes.
- *Several projects*: the pool, the collector's round and the index are per project
  and each is modelled for one. `CasGcJob` has several, with a round of which only
  the length is kept. A step that throws, as it does for an invalid state row, ends
  the pass (`gc-job.ts:115`): projects after that one get no step in any pass, which
  is why `GarbageGoes` excludes them.
- *The version decision* between two writes of one row: `Ingestion` makes it; in the
  other modules it is a choice.
- *Of ingestion*: scores and dataset run items that come as events (replaced whole),
  what span attributes are converted to.
- *Of prompts*: texts and their resolution; labels and versions of references; that
  labels are matched by LIKE on their JSON. A version number is used again after the
  newest version was deleted. The code releases `latest`, like any label, from the
  versions of all names, and so does the model.
- *Of datasets*: creation and renaming of datasets, what an item holds. Run items of
  a deleted dataset stay in the telemetry database. The clock is assumed not to step
  back. A deletion takes its stamp just before its UPDATE waits for the connection
  (`dataset-items.ts:326`) and takes it with the UPDATE here (`CloseVersion`). A version that an update has closed
  meanwhile may so end a moment earlier than it does in the model; it is one of those
  that `PastIsFixed` excepts anyway (`overtaken`). A request with several items is one request per item here.
- *Of the OTLP route*: a conversion that throws is logged, yields no events and is
  answered 200 (`OtelIngestionProcessor.ts:611`); `AcknowledgedIsStored` excludes such
  requests (`Broken`). An input that a trace takes over is recorded with the start of
  the span it is taken over for and withstands one that is given explicitly with an
  earlier span. Children end before their root, so a plain child exported first
  wins over the root's own input. `reliability-isolated.test.ts:144` wants it
  so, the comment at `ingestion-versions.ts:3` (only columns that were provided
  explicitly are recorded) does not; the property allows it.
- *Of the queue*: a listener that adds the failed job again while the queue is
  drained.
- *Of the gateway*: the byte limit of bodies, requests with `logRequests` off,
  budgets of providers (the resolver filters by a spend that nothing increments),
  the token limit (`tpmLimit` is counted and never checked, `rate-limiter.ts`).
  `sliding-window.ts` keeps a fixed window, so twice the limit can pass around its
  end. The overshoot of a budget is not bounded by the parallel slots alone, because the
  row is read before the slot is taken (`OvershootBounded`). The date of a reset that
  an administrator changes between the pass's read and its transaction is overwritten
  (`budget-reset.ts:46`); `Reschedule` and `ResetBudget` do so, nothing is claimed.
- *Of the router*: which candidate a strategy prefers. `recordFailure`'s UPDATE
  (`cooldown.ts:36-42`) is by id, so it can overwrite the `disabled` of an
  administrator that came meanwhile; `DisabledStaysDisabled` states what is
  expected (`model-resolver.ts:26`) and no run claims it. A success between the
  third failure and the UPDATE does not prevent the cooldown, and an UPDATE that comes
  late puts a provider back into cooldown that has recovered since; errors that the client
  made count like others.
- *Of the response cache*: a plain SQL error that a repository has turned into an
  empty list is cached as one (`fallback`); only queries that ran into a limit are not.
- *The boundary of retention only moves up* (`retention.ts:97`): a longer period
  set later does not bring old days back. Modelled as it is, nothing is claimed.
- *Soft-deleted sources* of the search index count as rows with nothing to
  index; in the code one whose stored bytes exceed the batch budget is given up
  instead, with the same outcome for a search (its old hits are no longer current).
- *A search worker that dies of an uncaught error* is not replaced until the
  server restarts (`lifecycle.ts:58-61`); `Restart` is that restart.
- *Errors of the database itself* (disk full, BUSY past its retries) are a step
  that does not happen; jobs repeat it.
- *Of the connection*: the hooks used at startup only (`activateWalHook`,
  `ensureForeignKeys`, `inspectTables`; the last prepares outside its `try`, so a
  failing prepare would keep the gate, `sqlite.ts:341`), iterators on a
  transaction's handle, the statements of a snapshot (they leave no trace),
  binding memory and deadlines of statements, the Turso engine.
- Components without a module, with reasons: `components` in `PROJECT.json`.

## 6. Plan

Next, in this order:

1. Refinements still to state: the job queue as a bounded multiset of jobs, the
   response cache as a function of the pool's answers.
2. Two runners of one job: which part of `CursorCovers` survives, or a guard in
   `Persist` under which it does.
3. The daemon of the CLI (its pid file), the slow log (its two streams).
