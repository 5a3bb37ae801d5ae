# A TLA+ model of kubescrape

kubescrape is a Kubernetes observability agent in Go. A *metadata server*
watches the API server and answers questions about pods and containers. A
*node agent* on every node tails container logs, scrapes Prometheus targets,
receives OTLP pushes, samples traces and reads Kubernetes events, journald and
Azure diagnostics, and exports everything as OTLP. Its hard part is what it
promises its neighbours: a log offset is committed only after delivery, a batch
that was accepted is not lost, an acked span is accounted for, a lookup that
blocks is woken, a budget comes back. This directory models the parts that keep
those promises, checks them with TLC on small instances, and proves most of the
safety half of them with TLAPS for all instances.

Paths below are relative to `src/`.

## 1. Inventory

State, operations, interactions, hard behaviours and correctness of the
components. `PROJECT.json` lists all of them with their sources and status.

### Node agent: log tailer (`internal/agent/tailer`)

* *State.* Per file: descriptor, recorded inode and fingerprint, read position,
  committed offset, rotated *segments* still owed, per-stream assembly state
  (open CRI run, completed items), exported highs; one batch shared by all
  files; the positions file.
* *Operations.* One goroutine sweeps: discover, open, read lines, replay
  segments, flush, notice and handle rotation, notice that the file is gone,
  save positions. The stages (CRI reassembly, multi-line joining) complete
  entries out of file order.
* *Interactions.* The kubelet and the runtime write, rename, recreate and prune
  files at any moment. The exporter answers success, permanent rejection or a
  retryable failure.
* *Hard.* Offsets must follow delivery although entries settle out of order and
  skipped lines have none; a rotation can fall between any two steps; a failed
  flush in the middle of draining a renamed file; a crash between a rotation
  and the save that records it; descriptors kept open during an outage.
* *Correct when.* No offset runs ahead of delivery, on disk or in memory;
  nothing read or left in a rotated file is forgotten; no line is buffered
  twice; a crash after a save loses nothing; descriptors are bounded; every line
  is eventually settled.

### Metadata server: pod store (`internal/store`, `internal/server/httpcache.go`)

* *State.* Pod records, container IDs, per-node sets, names, address claims
  with their acquisition order, a list of tombstone stamps, change tokens; the
  server's memo of node targets.
* *Operations.* `UpsertPod`, `DeletePod`, `Sweep`, lookups, the memo's
  sample-then-remember. Each store operation runs under one lock.
* *Hard.* The informer coalesces and repeats events: a new UID arrives under a
  name whose old record is live; stale updates compete for an address; a stamp
  outlives a resurrection; the memo reads token and data in two steps.
* *Correct when.* The indexes agree with the live pods, an address belongs to
  its latest live acquirer, every tombstone is swept and none early, a memo with
  the current token is the current answer.

### Metadata server: blocking lookups (`internal/server/server.go`, `internal/store/lookup.go`, `waiters.go`)

* *State.* The waiter table, two counters sharing one cap, readiness and drain
  latches.
* *Hard.* Check-then-park under two locks, a wake racing a deadline, shutdown
  with requests parked in two places.
* *Correct when.* No wakeup is lost, the counters equal the blocked requests, a
  drain answers everybody.

### Node agent: export disk buffer (`internal/agent/otlpexport`)

* *State.* The queue on disk (the external diskqueue library), the installed
  handle, the drain's gate, the table of batches suspected to be poison.
* *Operations.* Enqueue, drain, send, commit, rotate a stuck batch to the back,
  swap a dead handle, final drain, close.
* *Hard.* Producers and the drain meet a dead handle at once; a crash between
  an answer and its commit; an outage must not look like poison, and poison must
  not look like an outage.
* *Correct when.* An accepted batch is on disk until received, dropped with a
  count or reported damaged; one handle is open; a drop has evidence; good
  batches get through.

### Node agent: Kubernetes events reader (`internal/agent/events`, `internal/agent/leader`)

* *State.* The batch, a rendered payload being retried, the committed position
  (revision and watermark), the held watermark and owed entries of a replay, the
  position in a ConfigMap.
* *Operations.* Watch, list the backlog after expiry, filter by watermark,
  batch, flush, bookmark, persist; leadership terms start and stop it.
* *Hard.* The backlog comes in store order; reporters' clocks are skewed;
  payloads are older than the batch; bookmarks race flushes; state of one term
  survives into the next.
* *Correct when.* The position is a lower bound of what is done, nothing passed
  is lost, the watermark drops only exported events, the hold is released.

### Node agent: tail-sampling buffer (`internal/agent/tailbuffer`)

* *State.* Buffered traces oldest first, the decision cache with its eviction
  queue, a latch.
* *Operations.* Push (walk, buffer, follow a cached verdict, enforce bounds),
  sweep in chunks, final flush, sends outside the mutex.
* *Hard.* A push judges other senders' spans and its send may fail; stragglers
  after the final flush; late spans; superseded slots in the eviction queue.
* *Correct when.* An acked span is accounted for, nothing is stranded in a
  latched buffer, a trace shares one verdict and is charged once.

### Node agent: export client, destinations, splitting (`internal/agent/otlpexport`, `pkg/otlpsplit`)

* *State.* The outages per signal behind an unlocked count; warm pools of gzip
  writers, request buffers and gzip readers; the clients that were built, per
  destination; nothing in the splitter.
* *Operations.* Export a payload in parts, retry a part, tell the outcome;
  borrow and return pooled objects; derive a destination from flags, section and
  override, build and close the clients; cut a payload under the send cap.
* *Hard.* `Do` returns while the transport still reads a body; a message is
  closed by a goroutine that did not read it; a success that looks at a counter
  only races a failure; half-built exporters; a metric whose frame alone is over
  the cap.
* *Correct when.* The answer of an export is what happened to its parts, the log
  announces exactly the outages there are, nothing pooled is shared, a
  credential of the flags goes to no other host, and a payload that is cut
  arrives as it was.

### Node agent: metrics of its own and of log rules (`internal/metrics`)

* *State.* Series with values, start times and baselines; copies of failed
  exports, by generation; counters read from functions.
* *Operations.* Observe, snapshot, send in chunks, hand back or retain, evict
  the oldest generation, expire, rearm.
* *Hard.* Observations race a snapshot that is then refused; an expired series
  returns while its last samples are still owed; a cap evicts what nobody has.
* *Correct when.* Each observation is delivered, still held or given up with a
  count, and a stream never goes back in value, start or time.

### Node agent: OTLP ingest and export routing (`internal/agent/otlpingest`, `internal/agent/route`)

* *State.* Three shared budgets (bytes before decoding, decoded bytes, handlers),
  per push its reservation, claim and slot; per re-offering producer the shares
  already delivered, in a bounded memo.
* *Operations.* Admit, read, decode, filter, split by destination, send the
  shares, join the errors, answer; reap what a peer never finishes.
* *Interactions.* gRPC and HTTP servers call back at points the receiver does
  not choose. Journald, Azure and pushes use the same router.
* *Hard.* Budgets by add, test and undo; a reservation with three possible
  releasers; a context that ends at any point; some shares taken, one refused.
* *Correct when.* Budgets equal what is held, a sender is told something it can
  act on, every push ends.

### Node agent: journald and positions file (`internal/agent/journald`, `internal/agent/positions`)

* *State.* Cursor read, offered, committed and saved; the batch; one document
  shared with the tailer.
* *Hard.* A crash between answer and save; a write left out because nothing
  changed, after a failed one; a source that is reopened or vacuumed.
* *Correct when.* It refines at-least-once delivery; its retries repeat nothing
  in one life; what it counts as stored is on disk.

### Node agent: Azure diagnostics reader (`internal/agent/azurediag`)

* *State.* Partitions held, records polled and delivered per signal, offsets
  marked and committed, the token with its expiry.
* *Hard.* Partitions move while a batch is retried; two signals of one message
  settle separately; a refused token must not be shown again.
* *Correct when.* A committed offset is past settled messages only; a token that
  is shown is valid and was not refused before.

### Node agent: Prometheus scraper (`internal/agent/promscrape`)

* *State.* Per scrape: family accumulators, the open chunk, drop counters. Per
  loop: due times, the last list with its age. Shared: pod documents, secrets,
  TLS clients.
* *Hard.* A chunk boundary inside a histogram; a scrape that breaks off after
  exporting a part; intervals that change during an outage; a document cached
  before a container restarted; two scrapes building one TLS client.
* *Correct when.* Every sample is exported once or counted, each target keeps
  its cadence, no row gets another container's identity, credentials age out.

### Node agent: container statistics sampler (`internal/agent/cgroupstats`)

* *State.* Tracked and pending containers, quarantined ones, windows of living
  and dead containers; three loops share one mutex.
* *Hard.* A container changes its cgroup between two samples; lookups happen
  outside the mutex; the time of a pass is not enough for all pending ones.
* *Correct when.* A container has one home, a rate never mixes two cgroups, and
  nobody starves.

### Node agent: cumulative aggregation, service graph, sharding (`internal/agent/cumagg`, `spanmetrics`, `servicegraph`)

* *State.* Bounded series with delivered marks; pending halves of calls in
  arrival order; a hash ring per process.
* *Hard.* A series is observed between being rendered and being acknowledged;
  two exports overlap at shutdown; halves arrive in either order around a
  sweep; processes list the shard names in different orders.
* *Correct when.* Only what was delivered is evicted and nothing goes back;
  halves met within the window pair; a trace is consumed by one shard.

### Metadata service and client: targets, relabelling, cache, tokens (`internal/server`, `internal/scrape`, `internal/services`, `internal/servicemonitors`, `pkg/metaclient`, `internal/bearer`)

* *State.* Service and monitor indexes, their joins and memos with generations,
  entity tags of served documents; the client's cache; the last good token and
  the read in flight.
* *Hard.* Generations are read without a lock and one source moves between two
  reads; late answers reach a cache entry that was replaced; a file read
  outlives its caller; targets of several pods and monitors fold into one URL
  under byte limits; a dropped relabelling rule changes the meaning of a later
  one.
* *Correct when.* An unchanged tag means an unchanged document, cached objects
  are younger than their lifetime, a stalled read is told as such and no token
  is refused within its grace, a target is billed and named for all it
  carries, and the rules that are kept read original labels.

### Both processes: start, readiness, shutdown (`cmd/kubescrape`, `cmd/kubescrape-agent`, `internal/cli`)

* *State.* What `run()` has acquired and deferred, the goroutines of its wait
  group, the process context with the cause that ended it, the first failure
  stored, the budget of the shutdown, the readiness gates.
* *Operations.* Acquire in order or refuse, start pipelines, answer `/readyz`,
  fail fatally, take a signal; then join, ship what is held, drain the spools and
  run the deferred closes, last in first out.
* *Hard.* A signal or failure at any stage of start-up; a goroutine that outlives
  its join; steps that share one budget under the pod's grace period; a second
  failure while the first is being handled.
* *Correct when.* Everything fits the grace period, nothing is closed that a
  joined goroutine could use, what was acked is shipped, a failure is not told as
  success, and readiness never goes back.

### Not modelled

| part | why |
|---|---|
| tail-sampling policies, head sampling, trace hashing | pure functions of one trace; `TailBuffer` lets the evaluator answer freely. A head sampler's token bucket is one number under its mutex |
| transformation scripts | an interpreter and its limits; out of a model checker's reach |
| attribute model, exposition parser, wire conversions | data and parsing without protocol; covered by fuzz and unit tests. The models take their results as inputs |
| debug tap, self metadata | nothing that another part reads depends on them |
| flags, validation | configuration: parsed and checked once, before anything runs (a refused start is one of `Lifecycle`'s steps) |
| repository checks | not part of the running system |

## 2. Modules

| module | models |
|---|---|
| `Ledger` | the tailer's delivery ledger (`ledger.go`, bookkeeping of `flush.go`) as pure operators |
| `Tailer` (extends `Ledger`) | one log path, runtime, sweep goroutine, positions file, crashes |
| `PodStore` | store, sweep, address attribution, node-targets memo |
| `ContainerLookup` | `waitReady`, `GetContainer`, the budget, both drains |
| `MetaClient` | response cache of the metadata client |
| `Bearer` | token files: client's `File`, receiver's `Rotating`, one read in flight |
| `NodeTargets` | indexes, generations, memos and entity tags behind a GET of a node's targets |
| `TargetBuild` | the content of that answer: ports, deduplication, merging, limits; and the keep and drop rules that an endpoint's relabelling chain leaves |
| `ExportBuffer` | one signal's disk buffer; the queue library, its failing disk and the collector are external, modelled by how the sink uses them |
| `ExportClient` | concurrent exports, parts, retries, outage reports |
| `Pools` | pooled writers, buffers and readers |
| `Destinations` | destinations from flags, sections and overrides; build and close |
| `Split` | the splitter as an operator, checked against what a split must preserve |
| `LogMetrics` | series of log rules and of the registry, snapshots and retained samples |
| `Events` | events reader, its position, the lease |
| `Route` | routing decision, shares, withholding, joined errors |
| `Ingest` (extends `Route`) | gRPC and HTTP pushes |
| `Journald` (extends `Route`) | journal reader and positions file |
| `Delivery` | abstract at-least-once delivery from an ordered source |
| `AzureHub` | readers of one consumer group, token source |
| `TailBuffer` | tail-sampling buffer and decision cache |
| `CumAgg` | cumulative series under chunked, overlapping exports |
| `EdgePairing`, `ShardRing` | pairing store; ring and re-sharding |
| `ScrapeSession`, `ScrapeSchedule`, `Attribution`, `ScrapeAuth` | one scrape; the loop; pod attribution; credentials |
| `CgroupStats` | container statistics sampler |
| `Lifecycle` | the life of both processes: stages of `run()`, failures, signals, budgeted shutdown, deferred closes |
| `MCTailer`, `MCEvents` | instances: scripts, events |
| `MCMetadata`, `MCExport`, `MCTraces`, `MCIngest`, `MCScraper`, `MCLiveness` | suites, see below |
| `TailerProofs`, `ContainerLookupProofs`, `ExportProofs`, `MetadataProofs`, `TraceProofs`, `IngestProofs`, `ScraperProofs`, `EventsProofs` | theorems and their lemmas, see section 4 |

**Suites.** A suite puts the components of one area side by side. Its variable
`part` is chosen at the start and says which of them a behaviour is about; the
others keep their initial state. A suite is therefore the union of small
instances, not their product. It says nothing of components acting together:
where they do (a router under its producers, positions file under its two
owners, sampled token and remembered answer), one module holds both.

**Refinement.** `Delivery` states what a reader with a durable position promises:
the position only moves forward, and only past entries that were settled, lay
before the point where the reader began, or were discarded by the source.
`Journald` implements it (`ImplementsDelivery`, with the cursor on disk as the
position and the answers of the router as settlement). The refinement is of
safety only; `Delivery` states no fairness. Tailer and events reader check the
same rule as invariants (`CheckpointsSound`, `PositionSound`), because their
positions are not points of one order: a tailer settles entries of two streams
over several files, and an event has a revision and a time.

**Atomicity.** What the code does under one lock, or in a sequential goroutine
without a call that another actor can observe, is one action: every `PodStore`
operation, a whole `flush` answer of the tailer. What an actor can observe is
split: the tailer's sweep has a program counter (`pc`: replay, drain, gone,
settle, with the runtime and crashes interleaving between any two steps); a
lookup checks under the read lock and parks under the write lock; a push of the
tail buffer walks one span at a time under a modelled mutex, because the clock
was read before it; an admission adds, tests and undoes in three steps; an
export of cumulative series gives up the mutex between chunks; a builder of node
targets reads each generation in a step of its own.

**Data.** A log line is a stream and a kind: full, partial or blank; offsets
count lines. A pod is its node, addresses, phase, termination flag and
container IDs. A batch, span or trace is a model value. An event is its
revision with two times. A payload to split is nested sequences of sizes. A
sample is a family, a part, a series and the reason it would be dropped for. A
metric's value is the set of observations it was made of. A published source is
its version. Times are small integers.

**History variables** (`settled`, `lost`, `duty`, `exported`, `dropped`,
`acked`, `evidence`, `acquired`, `forgotten`, `bills`, `hist`, `movedAt`,
`forsaken`, `mixed`, `undone`, `overtaken` and the like) record what became of
data; no guard of the code's actions reads them.

**Mutants.** An operator marked `Mutant` stands in front of the definition it
changes and is not used by the specification. For each checked property it is
the plausible bug that the property catches.

### How the state corresponds

* *Tailer*: `committed`, `readPos`, `skipEnd`, `segs`, `segmentsFed`, `highs`
  are the fields of `file` of the same or nearly the same names; `str` is the
  per-stream assembly; `saved` is the file's entry in the positions file and
  `ckpt` the entry loaded at start and not yet claimed; `path`, `content`,
  `made`, `pruned` are the node's directory. An entry carries the range of
  positions it was assembled from, and a position is a source id with an offset,
  so that order across rotations is rotation order first.
* *PodStore*: `byContainer`, `byNode`, `byPodName` are the maps; `ip` packs the
  address owner, claims and acquisition order; `pending` is the stamp list;
  `gen` and `nodeGen` the change tokens.
* *ContainerLookup*: `waiters` is the table, `woken` the closed channels,
  `nWaiters` and `nExternal` the two counters.
* *ExportBuffer*: `handle` is the installed handle with its generations; `offer`
  a producer's call; `drain` the drain goroutine; `stuck` the poison table.
* *Events*: `reader[p]` is the Reader struct of one process; `stored` the
  ConfigMap.
* *TailBuffer*: `order` is the trace map and its FIFO at once (entries that are
  gone are left out); `verdicts`, `fifo`, `seq` the cache; `push` and `drain`
  the locals of the calls.
* *Ingest*: `push[p]` is one call: `held` its bytes, `claim` and `dec` the decoded
  claim and charge, `slot` its handler slot; `buffer`, `decoded`, `inFlight` the
  shared counters.
* *Journald*: `jr` is the reader struct, `file` the document on disk.
* *Lifecycle*: `stack` is the list of deferred calls, `running` the goroutines,
  `cause` what `context.Cause` answers, `by` the time `shutdownBy` names; `phase`,
  `at` and `step` are where `run()` is.
* *The others* name their variables after the fields they stand for; the comment
  at each declaration says which, and the `map` of `PROJECT.json` gives the lines.

## 3. Runs

| run | what happens in it | checks |
|---|---|---|
| `tailer_rotation` | three files of one path, one failure of an export, save, read or seek, pruning | `LinesKept` (nothing forgotten, nothing fed twice), `FdsBounded` |
| `tailer_crash` | blank and rate-dropped lines between lines in flight, idle close, one failure, one crash at any step | `Recoverable`, `CheckpointsSound` (offsets in memory, on disk and as loaded behind delivery; never back) |
| `tailer_history` | *violation expected*, see Findings | `OnlyHistorySkipped` |
| `metadata` | *store*: two incarnations of a name, a competitor for an address, missed deletes, sweeps, a memo build. *client*: two lookups, answers late and reordered. *bearer*: reads that stall while the secret rotates. *discovery*: requests against each pair of moving sources. *build*: 2400 inventories. *relabel*: chains of up to three rules | `StoreConsistent` (types, indexes, tombstones, addresses, memo), `RetainedUntilExpiry`, `CacheNeverStale`, `TokenReadsSound`, `AnswersCurrent`, `DiscoverySound` |
| `export` | *buffer*: failing fsync and reopen, damage, shutdown, crash. *client*: three exports. *pools*: two requests, two messages. *destinations*: every combination of flags, sections and overrides. *split*: payloads around the cap. *counts*: rule sets and the registry through failed exports | `BufferSound` (types, accepted is kept, one open handle), `DeliveryTold`, `PooledOnce`, `DestinationsSound`, `SplitFaithful`, `CountsDelivered` |
| `liveness` | *lookup*: two lookups of one ID with room for one, deadlines, drain. *tailer*: a rotation and a failure. *buffer*: a poison batch among good ones, the collector up, down, throttling, unauthorized | `NoLostWakeup`, `BudgetExact`, `DrainAnswers`, `LinesSettle`, `PoisonContained` (drops have evidence, good batches get through) |
| `events_replay` | a fast clock, a filter that drops, outages, compaction, broken walks, bookmarks, a crash, two terms | `PositionSound` (types, lower bound, nothing passed over, emptied is committed) |
| `events_live` | one term over events further apart than the slack | `EventsSettle` (hold released, every event accounted for) |
| `events_held` | *violation expected*, see Findings | `WatermarkIsSafe` |
| `traces` | *tail*: two pushes at every bound, sweep, final flush, refused sends, a retransmission. *aggregate*: two payloads, ticker and final export. *pair*: two payloads of call halves around sweeps. *ring*: two payloads at three processes, failing shares. *life*: six configurations of the processes, any goroutine stuck, signals and failures at any stage | `AckedKept` (acked spans are accounted for, a latched buffer is empty), `DecidedAsWhole`, `SeriesDelivered`, `PairingSound`, `ShardingSound`, `ShutdownSound` |
| `ingest` | *push*: a gRPC and an HTTP push, a context that ends at any step. *journal*: four entries, restart, failing disk or failing source. *hub*: two readers over moving partitions, or one with an expiring token | `BudgetsExact`, `SenderToldTruth`, `PushesEnd`, `JournalSound`, `ImplementsDelivery`, `HubSound` |
| `scraper` | *session*: three bodies by three parsers, cut and failed anywhere. *schedule*: outages and interval changes. *attribution*: containers restart under a cached document. *auth*: two scrapes, one secret. *cgroups*: containers move, vanish and return | `ScrapeAccounted`, `Cadence`, `AttributionTrue`, `CredentialsBounded`, `SamplerSound` |

### Bounds, and why they are enough

* *Tailer.* Three or four lines on two streams: enough for an entry of one
  stream to settle before an earlier one of the other, with a skipped line in
  between. Three inodes: a segment waits for replay while a second rotation
  happens, with `MaxCarriedFds = 1` so that the second does not keep its
  descriptor. One fault and one crash reach every failure path once; the
  violation of `CommittedSettled` that a wrong watermark would cause needs
  neither.
* *PodStore.* A predecessor, a successor of the same name and a competitor are
  what the attribution rules distinguish. Four events and three clock values with
  `TTL = 1` cover delete, resurrect, delete again and a sweep at the edge of an
  expiry.
* *Metadata, others.* Two lookups over two keys with room for one entry replace
  each other's. Two callers and two secrets let a stalled read return after a
  later one. Each discovery budget lets a pair of sources move under two
  requests, which is what one comparison of generations can miss. Inventories
  share one host address, so that every fold happens; byte and count limits cut
  some of them.
* *ContainerLookup.* Two requests for one ID with one slot: one is parked, one
  is refused, and both orders of wake, deadline and drain occur. Three changes
  of the index let an ID come, go and come again.
* *ExportBuffer.* Two attempts and two cycles are the smallest values at which
  "failed once" and "failed enough" differ; `MaxTracked = 1` with two failing
  batches makes the table evict. One disk fault and one crash in the safety run
  meet at any two steps.
* *Export, others.* Three calls with two parts: two of one signal and one of the
  other, so that one signal's success passes the other's outage. Two pooled
  objects of each kind for two users. Payload sizes lie on both sides of the cap
  of 32, frames included. Two streams, three exports of which two fail: a
  retained generation is offered again, and evicted, before the next.
* *Events.* Three events, batches of one or two and a cap of two reach
  shedding; two or three terms let the state of one leak into the next. The events
  are further apart than the slack, so that the filter of a replay drops some.
* *TailBuffer.* One trace fits, two are pushed, a trace closes at two spans, the
  cache holds one verdict: every bound is exceeded by one. The clock stops
  accepting pushes when a buffered trace could no longer fall due.
* *Traces, others.* Two series fit and three are observed; a snapshot copies in
  chunks, so that a tap comes between two of them. One pending half fits;
  a window of two over four clock values has halves that meet at its edge. A name
  list of one process is reordered and repeats a name.
* *Lifecycle.* Three roles of the agent (a shard of the trace tier, a singleton
  with scripts, a node agent), the metadata service and the dry run of each: between
  them every stage, every deferred call and every final step occurs. Time is in
  units of five seconds, which every budget of the code is a multiple of; one
  goroutine may outlive a join.
* *Ingest.* The byte budget holds three granules and each push wants two, so that
  the second waits for a release; one decoded claim and one handler. Two offers
  of a batch: withheld shares are not sent again.
* *Journald, Azure.* Batches of two over four entries, one of them filtered, one
  routed elsewhere, one refused for good. Two members, two partitions, two
  messages each.
* *Scraper.* Chunks of two points, a family budget of four, a limit of six
  samples under a body of seven. One slow target beside a fast one, over seven
  ticks with `Interval = 4`. A cache with room for one pod document.
  `Permutations({p1, p2})` is sound: the two scrapes of the credentials part are
  interchangeable and nothing else names them.
* *CgroupStats.* Room for one tracked container of two, and two pending.

Runs say `CHECK_DEADLOCK FALSE` where the instance legitimately ends (all
lookups answered, all events created, budget of faults used up, the process
stopped). The tailer runs check deadlock: its sweep never stops.

### Fairness

* *Tailer.* Weak fairness of each of the sweep's steps and of the stages: the
  goroutine loops on a ticker and visits every file. Nothing is assumed of the
  runtime, and failures are finite (`MaxFaults`). Idle close, pruning, renames
  and crashes are not fair.
* *ContainerLookup.* Goroutines run, and a drain that began goes on to the
  store. No deadline is assumed to fire, so that being answered is never due to
  a timeout.
* *ExportBuffer.* The drain goroutine runs and its timers fire. That the
  collector stays up is a hypothesis of `GoodBatchesGetThrough`, not fairness.
* *Events.* A replica is elected if one can be and the reader runs. Strong
  fairness of a successful export stands for outages that end: the code retries
  for ever and promises nothing about a collector that never answers.
* *Ingest.* `PushFairness`: the server's own steps, its read timeout and its
  stream window, and an export that ends one way or the other (it has a
  deadline). Nothing is assumed of the peer, which may stop sending at any point.

`MCLiveness` states the fairness of its three components again, each restricted
to its part; the conjuncts are those of `Tailer`, `ContainerLookup` and
`ExportBuffer`.

## 4. Proofs

A theorem holds for every value of the constants that satisfies the module's
named assumption (`...Assumption` in the module that declares the constants):
any number of senders, streams, batches, faults, crashes or restarts. The
assumptions say what kind of thing a constant is and which limits are positive;
those that say more are named below. Every invariant used was checked by TLC
before it was proved. Most properties are not inductive; what each inductive
invariant adds is the reason why the property holds.

**`ExportProofs`**

* `BufferAlwaysSound` (`[]BufferSound`) and `DropsAlwaysHaveEvidence`. `BufferInv`
  says that only the installed handle is open (`HandleInv`); that the drain has the
  head of the queue in hand until it has dealt with it, and that what it is about
  to commit was received or dropped (`DrainInv`), without which a commit could
  take an accepted batch off the disk; and that every cycle counted against a
  batch had a delivery of another to show for it (`StuckInv`), without which a
  drop has no evidence.
* `DeliveryAlwaysTold` (`[]DeliveryTold`). `CallOK` relates an export's part and
  attempt to what the collector has, `HealthOK` the unlocked count to the flags
  under the lock and the outages announced.
* `NothingPooledTwice` (`[]PooledOnce`). Who holds an object, that a body is in
  the hands of one request until both the caller and the transport are done with
  it, and that a reader's source is the message that holds it.

**`MetadataProofs`**

* `IndexesAlwaysAgree` (`[](IndexesAgree /\ MemoCurrent)`), `TombstonesNeverLeak`
  (`[]TombstonesListed`) and `EntriesRetained` (`RetainedUntilExpiry`, an action
  property). `StoreInv` follows a pod through the intermediate states of an
  upsert, which retires a predecessor of the same name, and shows that whatever
  changes under a node moves that node's token. The list of stamps is ordered by
  expiry (`PendingOK`), which is what makes the sweep's early stop right. These
  are three of the conjuncts of `StoreConsistent` (which adds `TypeOK` and
  `LatestAcquirerOwns`).
* `CacheStaysFresh` (`[]CacheNeverStale`). An entry's version was the server's
  within its lifetime; a lookup that is on its way holds an answer that was current
  since it asked, and the entry it began with is the cached one only if the object
  is the same, which is what a late answer is checked against.
* `TokensAlwaysSound` (`[]TokenReadsSound`). `RotInv`: tokens are met in the order
  of the file's contents, a read on its way holds none older than the current one,
  and what is accepted no more is past its grace.
* `AnswersAlwaysCurrent` (`[]AnswersCurrent`). `DiscoveryInv` says that readers are
  behind a generation only while a write holds the index's lock (`IndexInv`); that
  each part of a document in the making, in a memo or in the table of tags is at
  least as new as the generation that was read before it (`RunOK`, `CachesInv`,
  `TagsInv`), which is what a 304 is worth; and that a rebuild of the join holds
  `monMu` from its first read to its last (`JoinInv`), without which an older
  rebuild could replace a newer one.

**`TraceProofs`**

* `SeriesAlwaysDelivered` (`SeriesDelivered`, an action property).
  What an export copied lies between what the collector knows and what the
  store has, and what it listed and nothing touched since is in its copy; so
  acknowledging by identity marks only what was carried.
* `ShardingAlwaysSound` (`[]ShardingSound`). Two lists of the same names give the
  same ring whatever their order and repetitions, so every process names the same
  owner (`OneOwner`). `RingAssumption` states that the processes are configured
  with the same set of names.
* `AckedNeverVanishes` (`[]AckedKept`, that is
  `AckedIsAccounted` and `LatchedEmpty`) for any pushes, payloads, bounds, cache size
  and TTL. `TailBufferAssumption` adds that no two pushes carry the same span.
  `AckedIsAccounted` is not inductive: a refused send makes spans vanish that
  were on their way out, and only ownership says that none of them was acked. The
  inductive invariant `BufferInv` adds
    * `LockInv`: the mutex is held by the actor whose program counter says so,
      and an idle drain carries nothing;
    * `HeldInv`: unkeyed spans, and all spans once latched, are in the buffer only
      while the push that brought them walks, and are its own. With the mutex
      free there is no such push, which is `LatchedEmpty`;
    * `PushInv`: what a push sends without owning it is its own, and every span it
      has walked is accounted for;
    * `AckInv`: acked spans are accounted for and belong to a push that ended
      acked.

    Two frame lemmas (`PushFrame`, `DrainFrame`) carry the argument: a step
    answers for whatever it takes, except for a set of its own spans (`gone`),
    which is empty in every step but a refused send. Each action then only shows
    where its spans went.
* `TracesDecidedAsWhole` (`[]DecidedAsWhole`), for the same constants. The inductive
  invariant `DecInv`, next to `BufferInv`, adds
    * `OrderInv`: a trace has one entry, of its own spans only, and the counter is
      the number of places filled;
    * `CacheInv`: every entry of the cache has its slot in the eviction queue, so
      that a full cache always finds a victim, and a charge is remembered with it;
    * `StaleInv`: a trace that is buffered and has a verdict outlived it. With
      `NowInv`, nobody's clock reading is ahead of the clock, this is why a second
      verdict for a trace is only ever given once the first one is counted
      forgotten;
    * `FateInv`: what left the buffer, sent or still on its way, followed the
      verdict that is remembered; without the spans on their way a late send could
      contradict a drop;
    * `BoundInv`: the bounds hold but for what a walk has parked or is about to
      enforce. The parked spans without a trace id may exceed the bounds by one
      entry of any length, until the walk ends.
* `PairingAlwaysSound` (`[]PairingSound`), for any spans, payloads, window, bounds
  and interleaving of payloads and sweeps. `PairAssumption` says that a span that is
  sent twice is two spans of the model. The inductive invariant `PairInv` adds
    * `ListInv`: a key has one entry, an entry has spans of one side only, and
      they share the window it was opened with, so that two halves of a call cannot
      wait side by side;
    * `ConsumersInv`: no payload's clock reading is ahead of the clock, and a payload
      has not touched the spans it still has to read;
    * `EdgesInv`: edges share no span, which is what lets their number be counted
      against the counters;
    * `TimeInv`: whoever was given up waited a whole window by its own clock
      reading (`Waited`), and is apart from whoever waits now (`AllApart`).
      Without the second part a half that is still waiting could be given up later
      with nothing to say about the first.

**`IngestProofs`**

* `SendersToldTheTruth` (`[]SenderToldTruth`). `RouteInv` says what became of each
  resource of a call: still to send, failed for now, delivered, or refused with
  an answer that says so; `Joined` then means what it says (`AnswerMeans`). It
  needs that the memo of namespaces never changes a decision (`MemoOK`).
* `JournalAlwaysSound` (`[]JournalSound`) and `JournalImplementsDelivery`
  (`ImplementsDelivery`), both from `JournalInv`:
  * `ReaderOK`: the batch holds, in order, every entry above the cursor up to
    its last one that the reader owes, and while it reads, everything up to its
    place is in the batch or held back. Without it a cursor could pass an entry
    that was never in a batch;
  * `CursorInv`: file, document and cursor are in this order, what the document
    counts as written is the file's content, and everything up to the cursor
    is settled;
  * `OfferInv`: a call in progress is for the batch at hand;
  * `OnceInv`: an entry observed is behind the cursor or in a batch that is
    marked as rendered; a default share that went out went out last, with only
    good answers before it, so that its batch will settle.

  The refinement is proved action by action (`JournalStep`): opening at the tail
  is `Begin`, a vacuum is `Expire`, a step of the router is `Settle`, whatever
  writes the document is `Commit`, the rest is a stuttering step.

* `HubAlwaysSound` (`[]HubSound`). `GroupInv`: whatever was polled of a partition
  since its owner began it is settled or still with that owner, and a closed client
  owns nothing, so that neither a commit nor a handover passes a message.
  `TokenInv`: a token belongs to one reader, is remembered as running out no later
  than its issuer means it to, and what was shown is what is remembered.

**`ScraperProofs`**

* `CadenceAlwaysKept` (`[]Cadence`), for any endpoints, intervals, lists, failed
  fetches and delays. `CycleInv` says what each phase of a cycle holds: the kubelet's
  due times, or those and the offered targets', none further away than an interval and
  its allowance. `DistanceInv` relates the count of a key's scrapes to its next due
  time, `n * (interval - allowance) <= due - allowance - first`, which is what a scrape
  at the earliest moment needs. The proof did not go through at first: `Cadence` was
  false for an interval that shrinks and grows back between two scrapes, and the run
  had not shown it because its list changed once. Its count now starts over with the
  interval, and the run changes the list twice.
* `CredentialsAlwaysBounded` (`[]CredentialsBounded`), for any number of scrapes,
  secrets and outages. A cached value was asked for at most a request before it was
  fetched (`AuthCacheInv`), time passes for a scrape only while it asks
  (`ScrapesInv`, one latency for each credential it already has), so the oldest
  credential of a request is within the grace and its own lookups. `ClientsHeld`: a
  client in use is the cached one for its material, closed, or in the hands of a scrape
  that is about to close it.
* `AttributionAlwaysTrue` (`[]AttributionTrue`), for any scrapes, rows, restarts and
  cache sizes. `NewestAt` dates a document by what it must know: every incarnation that
  began before it was asked for, less the service's lag. A cached document is asked for
  at most an allowance before it arrived and used at most a TTL later, so outside the
  window (`AttributionAssumption`: TTL, allowance and lag fit in it) the document knows
  the row's own incarnation, and inside it start times are compared (`MatchedLate`).
  What a row carries from a lookup to the next is of the right pod (`RowSound`).
* `SamplerAlwaysSound` (`[]SamplerSound`), for any containers, caps, budgets, lookups,
  reads and exports. `HomeInv` says that a container's descriptors are open until it is
  gone and that its last reading is of its own directory; `TurnInv` that whoever was
  offered while a container waited stands behind it now, and that what is due in a pass
  was not tried in it. An earlier form of `NobodyStarves`, a bound on the passes a
  container is skipped for, was false with more containers and more churn than the run
  has: newly found containers go first by design (`discover.go:324`). It now says that
  the order rotates.
* `ScrapesAlwaysAccounted` (`[]ScrapeAccounted`), for any bodies, parsers, batch and sample
  limits, budgets, breaks and failed exports. `ReadInv` says where a sample that was read
  is: dropped and counted, in a chunk that was accepted or failed, in the chunk at hand or
  in an accumulator that is still to be flushed (`Open`), but for the one that went over
  the limit; `PlaceInv` that it is in no two of them. `AccInv` relates the accumulators to
  their order and their cost, `StepInv` the failure to the steps that may follow it, so
  that a scrape that ends well has nothing left. The last conjunct of `ScrapeAccounted`
  was false before: a repeated sum replaces the one before it (`convert.go:262`, `298`),
  free of charge, and a family may repeat it any number of times. It now bounds what is
  retained (`Retained`).

**`EventsProofs`**

* `PositionSoundUnderFilter` (`[]FilterDropsOnlyDone => PositionSound`) and
  `PositionSoundUnderWatermark` (`[]WatermarkIsSafe => PositionSound`), for any
  replicas, events, timestamps, batch sizes, caps, terms and faults. The condition
  is needed: after the finding `events_held` a third term filters out events that
  nobody exported and commits past them, so that `PositionSound` itself is false
  beyond the two terms of `events_replay`. The theorems say that this is the only way:
  as long as a replay's filter drops only what is accounted for (in particular, as
  long as no watermark passes such an event), every position is a lower bound, no
  watch passes anything over, and an emptied batch is committed, through shedding,
  expiries, bookmarks, lost leases and crashes. In the runs `events_replay` and
  `events_live` the condition holds. `EventsInv` says what each piece of a reader's
  state vouches for: while the position is free the batch is in order, what is below
  an entry accounted for or before it (`FreeOK`, which makes the advance to the
  newest of a payload sound); while it is held the batch is owed to the replay and,
  once the walk is over, covers its snapshot (`HeldOK`, which makes `secureReplay`
  sound); a pending bookmark and the last revision seen are covered by accounts and
  batch (`PositionOK`); and each stage of a stream has its own prefix (`StreamOK`: the
  snapshot during the walk, with what is still to come; the cursor during the watch).

**`ContainerLookupProofs`** — `WakeupsNeverLost` (`[]NoLostWakeup`) and
`BudgetNeverDrifts` (`[]BudgetExact`) for any number of lookups, IDs and slots.
`LookupInv` is the conjunction of the type invariant, both properties and "a
channel taken out of the table by a wake is not in it any more", which is what
lets a timeout and a wake release one slot between them.

**`TailerProofs`** — `TypeCorrect` (`[]TypeOK`) and `DescriptorsBounded`
(`[]FdsBounded`) for every script, any number of streams, inodes, faults and
crashes. `TypeOK` is not inductive: reopening needs a recorded inode, which
follows from `FdInv`, how descriptor and identity move together. `FdsInv` counts
the segments that keep a descriptor as a finite set. `TypeOK` has no run of its
own: the theorem covers every instance. The module begins with lemmas on the
ledger's operators: maxima and minima exist, the fed end bounds what is buffered,
and the watermark is not above the oldest buffered position.

### Only model-checked

* *Liveness*: `LinesSettle`, `DrainAnswers`, the second half of `PoisonContained`,
  `EventsSettle`, `PushesEnd`. Temporal reasoning under fairness is out of the
  prover's reach.
* *Folds and sequence algorithms*, which need induction over data: `SplitFaithful`,
  the sums of `BudgetsExact`, `DiscoverySound` (folding targets), `DestinationsSound`
  and `CountsDelivered` (filters of sequences), `TypeOK` and `LatestAcquirerOwns` of
  the pod store, whose address claims are a filtered sequence, the deferred calls
  of `ShutdownSound`.
* `PositionSound` without the condition of `EventsProofs`: it holds within the bounds of
  `events_replay` and not beyond them (see `events_held`).
* *Not attempted yet*: `LinesKept`, `Recoverable`, `CheckpointsSound`.

## 5. Findings

* **`tailer_history`** (code bug). A file skipped as history gets a committed
  offset but no identity (`internal/agent/tailer/discover.go:633`). If it is
  rotated before its first open, the change is not noticed, and once the
  successor outgrew the predecessor it is read from the predecessor's size. Its
  first lines are skipped, which the comment at `discover.go:612` rules out.
* **`events_held`** (doc and code disagree). `secureReplay`
  (`internal/agent/events/replay.go:393`) is documented as "a no-op outside a
  replay", but a watermark held by a replay that a lost lease cut short survives
  into the next, positioned term, where a bookmark commits it. A later relist
  then filters out events that were never exported, and its end commits past them.

Two limits are worth knowing, although no run violates a property over them:

* `Recoverable` holds once the save after a rotation landed. A hop that is not
  saved yet is recovered from the previous checkpoint only if that one recorded
  an inode; after a discovery save that stored inode 0 it is not, although the
  comment at `internal/agent/tailer/rotate.go:396` speaks of one hop in general.
* A target scraped a little early is due again an interval after its due time, so
  that the early allowance is not gained round by round
  (`internal/agent/promscrape/schedule.go:163`). The clamp of a target that is
  not due (line 157) takes that back when ticks are shorter than a tenth of the
  interval. `Cadence` therefore promises the interval less the allowance.

## 6. What the models leave out

* *Tailer*: copytruncate, compressed archives, oversized and torn lines,
  metadata that does not resolve yet, several files sharing a batch, errors on
  open other than that the path is gone.
* *PodStore*: a pod's labels, annotations and owners.
* *NodeTargets, TargetBuild*: the unwired TTL path and the early
  return for an empty node name; `sortTargets` and colliding instance labels; the
  details of `enforceFieldBounds`; label selectors, which are sets here.
* *MetaClient, Bearer*: a cached object of another type than the one asked for.
  The operator waits the grace between two rotations.
* *ExportBuffer*: a payload that cannot be decoded any more; the queue's
  segment files (external).
* *ExportClient, Pools, Destinations*: transports and encoding (external).
* *LogMetrics*: histograms and summaries accumulate like counters; a snapshot
  takes no time; compiling of rules, label hashing, the outage log; times are
  scaled with their order kept (baseline before grace, expiry at once); a
  function that is read regains its old total only after being read.
* *Events*: rendering, pod lookups, the set that keeps log metrics from double
  counting; the lease protocol, which is client-go's: terms are one leader at a
  time.
* *Ingest*: decompression and decoding are outcomes; TLS, listeners, limits of
  the HTTP library.
* *Journald*: the probe of journal files, conversion of fields, a missing
  positions store and a corrupt file. Entries before the first commit may be
  skipped when reading starts at the tail.
* *AzureHub*: retention of the hub and offsets out of range, the readiness gate,
  refusals during the SASL handshake (the library retries), which source a
  message comes from. A fetch is bounded by the HTTP timeout, which is shorter
  than a token's life. Messages before the first commit may be skipped when
  reading starts at the end.
* *TailBuffer*: the policies (the evaluator answers freely), the size of a span,
  early-decision reports.
* *Lifecycle*: a process has at most one route and one Azure source; steps and
  closes honour their contexts, so that none lasts longer than its own limit; time
  passes only while shutting down; gates are followed where `/readyz` is served;
  the final export's limit is the shutdown step's. Scripts may still observe into
  log metrics after the last export of those, which the code accepts
  (`Scripted` names those windows).
* *CumAgg, EdgePairing*: exemplars, buckets, labels, `ClampStart`; durations and
  dimensions of an edge.
* *Scraper*: parsing and the conversion of values and labels; the kubelet's
  built-in endpoints are one pipeline. `Attribution` assumes that the window of
  an incarnation is at least a cached document's life, a lookup's allowance and
  the service's lag together, as the code's constants are.
* *CgroupStats*: reading the cgroup files; time is counted in passes and a window
  counts samples up to two; what an export's build or send comes to changes
  nothing that is kept.

## 7. Plan

Done, in this order: tailer with its ledger; pod store and lookups; export
buffer; events; tail buffer; proofs for the tailer's types and descriptors, the
lookups and the tail buffer; cumulative aggregation, pairing and ring; ingest,
routing, journald with `Delivery`, Azure; export client, pools, destinations,
splitting, metrics; scraper and sampler; metadata client, tokens, targets and
relabelling; the liveness suite; the life of the processes; proofs for the export
side, the metadata side with its answers to polls, aggregation and ring, ingest,
the Azure reader, the journal's refinement, and the scraper's schedule,
credentials, attribution, sampler and sessions, the pairing of the service graph,
one verdict for a trace, and the position of the events reader.

Next, most useful first:

1. theorems for the rest of the tailer: `CommittedSettled` and
   `CheckpointSettled`, then `LinesKept`;
2. the metadata client composed with the server's tokens; several files of the
   tailer sharing one batch.
