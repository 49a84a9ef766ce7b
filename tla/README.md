# TeoDB in TLA+

TeoDB accepts batches over HTTP and Arrow Flight, makes them durable in a
write-ahead log (WAL), serves them from a hot buffer, publishes them to an Iceberg
table through a REST catalog, and answers SQL on both. This directory specifies the
server part by part, checks the parts with TLC on small instances, and proves the
main properties of several of them with TLAPS for every instance.

## The system

A batch is named by its *generation*, a number that `reserve` assigns. A flush takes
a set of batches, writes Parquet files and forms an *intent*: a new commit ID, the
writer's epoch, a generation range and the files (`PreparedFlush`). The intent is
stored in a *sidecar* file before it is sent. The catalog's update carries the
intent's identity in the snapshot and moves the writer's *checkpoint* (epoch, last
generation) with it. If the answer is lost, the flush asks whether the exact intent
was committed; when it cannot find out, the table is *blocked* until a recheck
resolves it. On restart, WAL records above the checkpoint are replayed and the
sidecar is resolved like a lost answer.

Around this path: statements create and drop tables while it runs; compaction and
the orphan sweeper rewrite and delete files on several nodes; queries pin the
snapshots they read; a whole-object cache sits in front of the store; admission and
connection limits sit in front of everything; and one process starts, drains and
stops all of it.

| Part of the code | Modules |
| --- | --- |
| Ingest, buffer, flush, recovery, append guard (`teodb-ingest`, `teodb-catalog/src/adapter`) | `WritePath`, `AppendProtocol`, promise in `ExactlyOnce` |
| Bytes, grace and recovery room of the buffer (`buffer/table.rs`, `replay.rs`) | `HotBuffer` |
| Idempotency keys (`idempotency.rs`) | `KeyedIngest` |
| WAL segments, garbage collection, replay plan (`teodb-storage/src/wal`) | `WalSegments` |
| WAL frames, byte by byte (`wal/segment`, `wal/replay.rs`) | `WalFrames` |
| WAL lease, identity, epochs (`wal/manager.rs`, `identity.rs`, `state.rs`) | `WalRoot` |
| Several writers of one table, checkpoint registry (`commit.rs`, `append_guard`) | `WriterRegistry` |
| CREATE, DROP, PURGE against writes (`ddl_effects.rs`, `registry.rs`, `ddl/`) | `TableLifecycle` |
| Table definitions: SQL, REST, inferred; schema conversions | `TableDefinition` |
| Partitioning, sorting, rolling and statistics of a flush | `FileWriter` |
| Bounds and partition values through footer, manifest and path | `FileMetadata` |
| Pruning, delete files and limits of a scan | `ScanPlan` |
| Choice and rewriting of files by compaction | `CompactionPlan` |
| Compaction lock, replace commit, orphan sweep | `Maintenance` |
| Keys, URIs, listings and deletes of objects | `ObjectPaths` |
| Whole-object cache | `ObjectCache` |
| Query engine: metadata cache, pins, execution, stream | `Query`, `SnapshotPins` |
| Cached table names | `TableNames` |
| JSON answers | `JsonRows` |
| Flight SQL sessions | `FlightSession` |
| REST calls and the client library's retries | `RestCalls` |
| Rate limits, permits, ceilings | `Admission` |
| Connections, idle deadlines, bodies | `Connections` |
| Start, roles, tasks, drain | `Server` |

`PROJECT.json` gives the source lines of each definition.

## Modules

**The write path.** `AppendProtocol` has intents, exact identity and the guard's
verdict (`Validate`) as operators. `WritePath` is the state machine for one table on
one writer. Each action is the code between two await points; `task.pc` is the await
point the task holding the flush lock has reached, and `task.ctx` tells who called
`commit_flush` (a flush, its `resolve_unknown` loop, `recheck_blocked`, or recovery),
because the same answer leads to different steps. `ExactlyOnce` says what the path
promises: batches are accepted one at a time and published in groups, each group
taking every accepted batch up to its end. `WritePathProofs` holds its theorems.

What makes it hard: a request may be applied after its sender gave up, crashed or
restarted; a client may disconnect at any `await`, and file operations on blocking
threads outlive the future that awaited them; completing a commit takes four steps,
any of which can be the last; appends finish out of order while the checkpoint is one
number; recovery runs against a catalog that still moves.

**Beside it.**

* `KeyedIngest`: requests that carry an idempotency key. `WritePath` has no keys;
  here the flush and the catalog are short and the claims, their expiry, drops of
  the table, and the order in which replay sees keys are in full. `orphans` are
  prepared intents that a drop left behind.
* `WalSegments`: the log as files. A frame is an append or a tombstone; the writer
  task, up to two garbage collection passes and the clients interleave between
  their awaits, and a pass works on what it read earlier (`gc[g]`). Publication is
  only a frontier per table incarnation. `exposed` records segments that became
  current after a pass read `current_seq` and before it listed the directory; it
  never shrinks.
* `HotBuffer`: the buffer in bytes: reservations, decoded batches that may count more
  than the originals (`Overheads`), entries kept for readers of an older snapshot,
  and a recovery that must fit what it replays.
* `WalRoot`: processes on one root. The lease is a lock on the inode that `.lease`
  names; `locks` is the sequence of inodes; a *life* (`boot`) starts when the lock is
  taken. `identity` is what a process reads and `durable` what a power loss leaves.
* `WriterRegistry`: nodes that append to one table, two of which may be deployed under
  one slot. A step of a node is one round trip to the catalog; `wire` holds requests
  that may still be applied. `sent` numbers a node's requests, which tells one that
  was given up for lost from a successor that carries the same intent.
* `TableLifecycle`: a name lives through incarnations. Buffer, WAL records and sidecar
  carry the incarnation; the registry, the tombstone and the storage prefix go by name.
* `Maintenance`: snapshots are numbers; a commit reloads the table before it applies, so
  a check and its effect are two steps. `now` counts ticks; nothing bounds how long an
  intent, a compaction or a sweep takes, and `slowest` records the longest sweep.
* `ObjectCache`, `TableNames`, `Query`, `FlightSession`, `RestCalls`, `Admission`,
  `Connections`, `Server`: each action is the code between two awaits of one caller,
  task, request or connection. What a step met when it read shared state is kept
  beside its answer (`met`, `from`, `final`), so that a property can compare the answer
  with the state and not with itself. `FlightSession` takes a statement apart: locate,
  drop, purge, end, with a deadline or a lost reply after each. `RestCalls` has
  attempts that run on after the client gave them up, auto-creation of the table, and a
  flush with its intent; the last flush of `Server` meets the same intents and
  reservations. `Query` has versions of a table's snapshot, the cached
  provider, pins and a stream of batches; a node is standalone or distributed, which
  decides where its pins live.

**Pure code** (`FileWriter`, `FileMetadata`, `ScanPlan`, `CompactionPlan`, `WalFrames`,
`TableDefinition`, `ObjectPaths`, `JsonRows`, `SnapshotPins`) is written as operators.
`MCAlgorithms` compares each with a reference definition on every input of a small
set, chosen in the initial state.

The `MC*` modules hold the instances. Where one hosts two machines that share no
state, a variable chosen in the initial state (`side`, `listener`, `input.kind`) says
which of them the behaviour is of; both are checked in full.

**Abstractions.** Rows and files are sets of generations or small values. In
`WritePath` a buffer's capacity counts batches, and the WAL is the set of its
replayable records: `Collect` deletes any set of records at or below the cutoff,
which contains what deleting whole segments can do. Commit IDs are consecutive
numbers, as the code relies only on their being new. Delays, backoff and deadlines
are nondeterministic choices, except where a property is about time (`Maintenance`,
`Admission`, `Connections`, `KeyedIngest`, `Query`, `TableNames`, `HotBuffer`), where
a clock counts ticks. Numbers, bytes, checksums and alignment are scaled down
(`FileMetadata`, `WalFrames`) and keep their overflow and order. Faults are explicit
actions with a common budget (`MaxFaults`, `MaxFailures`, `Crashes`), and `Faults`
selects the kinds.

Smaller simplifications, each with a comment at its definition. `TransformLiteral` has
three of Iceberg's transforms, without those of time and void.
`PrimitiveLiteralToTeoScalar` leaves out the errors for literals of another type, which no
caller passes. `OverStatistics` knows the null count of a file. `Commit` of `WalRoot` is
answered at once; late answers are in `WritePath` and `WriterRegistry`. A Flight request of
`Admission` is one that streams. In `HotBuffer`, an intent is prepared in memory and in its
sidecar in one step, and a recovery flush succeeds; `WritePath` has the failures.

**External code**, modelled from how `src/` uses it and marked so in `PROJECT.json`:

* The Iceberg catalog applies an update atomically, and only if the table's identity
  and the snapshot it was built on are still current. `Transaction::commit` reloads
  the table before it applies its actions. A replace is a fast append whose summary
  names the superseded files.
* The object store encodes a path again when it holds a `%`, drops empty segments, and
  reports the deletion of a missing object as a success.
* DataFusion prunes a file when `contained` or min/max evaluation says that no row can
  match: for `contained`, true means that the column holds only values of the set.
* The HTTP client retries on transport errors, 408, 429 and 5xx.
* A file system: a rename is atomic but durable only after the directory is synced; a
  lock belongs to an inode.

## Runs

Bounds are `CONSTANTS` that guard the actions. `MaxGen` is the code's
`Generation::MAX`, made small.

| Run | Bounds | States |
| --- | --- | --- |
| `write_path` | 3 generations, room for 2, 3 commit IDs, 1 peer, 1 status retry, 3 faults of all ten kinds, registry of 1 | 953,421 |
| `liveness` | 3 generations, 7 commit IDs, 1 peer, 2 faults (append, write, load, connect, lost, crash), registry of 2 | 132,602 |
| `keyed` | 3 requests for 2 keys, expiry after a tick, 1 drop, or 4 requests for 3 keys in one instant; room for 2 keys in the index, 2 faults of five kinds; Flight: 2 clients, 2 definitions of the table, 2 prepared statements, 3 messages | 1,693,699 |
| `segments` | 1 table with 2 incarnations of 2 generations, 3 segments of 1 frame (a first group may hold 2), 2 passes that may overlap, 2 faults of seven kinds (1 once there is a third segment) | 906,018 |
| `lifecycle` | 1 table with 2 incarnations, 2 sessions, 1 writer, 2 rows, 2 statements, 1 fault; REST: scripts of up to 3 calls, up to 1 retry each | 1,158,315 |
| `maintenance` | 2 nodes, lock TTL 1, minimum age 2, 3 files, 3 snapshots, 2 cycles, 3 ticks, 1 fault; symmetric in the nodes | 2,577,908 |
| `cache` | 2 objects with 2 contents, 2 callers, 3 calls, a cancellation or a crash; names: TTL 0 and 2, 5 ticks, listings of up to 2 | 1,205,609 |
| `admission` | 3 requests of 2 principals, one stripe, 1 key, 1 permit, ceilings of 2, windows of 2 ticks; 3 connections on two listeners | 645,421 |
| `server` | 2 requests, 1 failure, scheduler on; buffer: batches of 1 or 2 bytes, 3 bytes, 5 generations, overhead 0 or 2, 1 crash | 883,701 |
| `query` | 2 queries on 2 tables, 1 load lock, lease TTL 0, 2 batches, 1 commit in all, 1 tick, 1 fault of nine kinds | 1,094,255 |
| `algorithms` | inputs listed in `MCAlgorithms`; 2 processes with 3 lives on a WAL root; 3 nodes in 2 slots, 1 retry, 2 events | 1,310,867 |
| `pruning` | filters that are a lone inequality | violated |

Why these are enough. *write_path*: three generations and a buffer of two allow a batch
in flight, one pending behind it and one still being appended, a replay that fills the
buffer, and exhaustion of the generations. Three commit IDs allow an abandoned intent,
its successor and one more. Three faults allow a lost answer or a delay, then a crash,
then another fault during the recovery from it. *segments*: three segments are one
before, one during and one after a pass; one frame each makes every group rotate.
*maintenance*: two nodes that compact and sweep can both believe that they hold the
lock, three files are two to merge and one flushed meanwhile, and three ticks let an
intent or a sweep outlast the minimum age of two. *admission*: a registry of one key
sends the second principal to the overflow stripe. *query*: one load lock for two tables
makes the registry overflow. *WalRoot*: three lives on two processes are a release, a
waiter and a newcomer.

### What they check

A property of a run is a conjunction where several statements are about one piece of
state; the names of its parts follow in parentheses. Each part has a comment of its
own in its module. Where a state machine has a type invariant, it is one of the parts
(in `WritePath`, a part of `Inductive`).

* `write_path`. `NoAckedLoss`: an acknowledged batch is in the WAL or in the table.
  `PublishedOnce`: no batch is published by two commits. `AckedBuffered`: a serving
  node holds every acknowledged, unpublished batch. `CompletionAccepted`: whenever a
  task can learn that its intent is committed, `mark_committed` would accept the
  completion. `Inductive` is the invariant of the proofs; it implies that neither the
  buffer's high water nor the WAL cutoff passes the catalog's checkpoint
  (`CutoffsProved`), and that below the checkpoint, which recovery and GC take as a
  cutoff, no acknowledged batch is missing from the table (`FrontierComplete`).
  `ExactlyOncePublication` is the refinement of `ExactlyOnce`.
* `liveness`. `AckedIsPublished`: an acknowledged batch eventually reaches the table.
* `keyed`. `KeyLandsOnce`: of two batches of a key in the buffer or the table within its
  time-to-live, one was published before the process last started, or is a failed append
  that replay brought back and no flush can publish. `ReceiptHonoured`: replay drops an
  acknowledged batch as a duplicate only when a batch of its key is kept, unless a
  failed append of the key is still in the log (`AckedKeyServed`), and a completed key
  stands for a durable batch (`ReceiptDurable`). `FlightAnswersTrue`: a ticket is
  answered with the schema it announced, or the table was defined anew, and refused only
  for a reason that exists (`TicketsServe`); acknowledged batches are the first ones of
  the stream, durable and in the buffer the stream was opened on (`PutsAccounted`); a
  reservation has an owner (`ReservationsOwned`); a statement that was answered was
  applied or found things as it wants them, and one told that the table exists or does
  not was not applied, either of which was so at some moment of the call
  (`UpdatesTold`).
* `segments`. `LiveKept`: an acknowledged append that is neither published nor voided
  is in the replay plan of a restart. `NoResurrection`: no pass deletes a tombstone
  while a record it voids is there. `CutoffsBehind`: no cutoff, in memory, on disk or
  in a pass, is ahead of the catalog. The first two exempt exposed segments.
* `lifecycle`. `IncarnationsApart` and `AckedServed` (`NoStaleRecords`, `NoForeignRows`;
  `AckedKept`, `AckedBuffered`): DROP, CREATE and PURGE act by name and hit only what
  is gone, and what was acknowledged is served, with the exemptions their comments
  name. `AnswersTrue` of REST: accepted rows are there, with a key once, without one
  twice only after an attempt of unknown outcome (`AcceptedLanded`); a refusal left
  nothing behind (`RefusalsTrue`); whoever is told it created the namespace did
  (`CreateTold`); a flush published what it found in flight or, finding nothing, every
  batch accepted before it that no older reservation held back (`FlushedBefore`); and
  REST and Flight agree on an error (`SameVerdict`).
* `maintenance`. `FilesExist`: a sweep deletes a file of a snapshot only if the file was
  committed late, its age then and the longest sweep together reaching the minimum age
  (`CommittedLate`); superseded files that an older snapshot needs, and files committed
  in time while a sweep runs, are kept. `RowsSound`: no
  compaction loses a committed row, however many nodes believe they hold the lock
  (`RowsKept`), and rows are doubled only when two nodes compact at once, after a lock
  outlived its TTL or two property updates raced (`RowsOnce`, `LockHeld`).
* `cache`. `IndexSound`: byte count, LRU order, limit and persisted index agree with the
  entries (`Accounting`, `Bounded`, `IndexFresh`). `CleanReads`: a read returns
  something the object held. `WaitersHaveLeader`: no caller waits on a fetch that is
  over. `NamesServed` of the table names: `FreshLists` and `OneRefresh`.
* `admission`. `PrincipalLimits` (`PrincipalBound`, `RateBound`, `KeysBounded`) and
  `CeilingsSound` (`CeilingConserved`, `FlightStreamsCounted`): permits, ceilings and
  rate windows hold through overflow stripes, refusals and dropped bodies.
  `ConnectionsSound`: permits are conserved, only a connection silent in both
  directions is cut, no body passes its limit and none below it is refused
  (`PermitsConserved`, `CutOnlyWhenSilent`, `BodiesBounded`).
* `server`. `StopsClean`: no traffic before the node is ready (`NoTrafficBeforeReady`);
  a clean exit means that tasks and handlers ended and the WAL is free (`CleanStop`);
  what it leaves unflushed came after the final flush or is what one pass of it leaves:
  everything when it fails or the table is blocked, all but the intent when it met one,
  and what is not older than a reservation (`NothingForgotten`). `Exits`: a signalled
  node exits. `BufferExact`: the byte counts are those of the batches
  (`BytesAccounted`), and snapshot and buffer together hold each answered row once, for
  any snapshot within the grace (`OverlayExact`). `RecoverySucceeds`: what was in the
  buffer fits when it is replayed.
* `query`. `PinsSound`: a running query has its pin, an ended one has none, and a
  snapshot's files outlive its pins (`PinHeld`, `PinsFreed`, `FilesCoverPin`).
  `WholeResult`: batches come from one engine, all of them or none counted complete.
  `CacheAdvances`: a cached provider is replaced only by a newer one.
* `algorithms`. Code against reference definitions: `FilesExact` (`FlushWritesAll`,
  `StatisticsTrue`, `BoundsSurvive`, `FiledWhereItBelongs`), `AnswersExact`
  (`ScanExact`, `ShippedWhole`, `RowsWhole`), `CompactionExact`
  (`CompactionKeepsAnswers`, `ConservationCheck`), `LogReadsExact`
  (`SegmentReadersAgree`, `TornTailsBenign`), `TablesExact` (`TablesAsDefined`: columns,
  nullability, types and partitioning are those of the raw request;
  `AdmittedBatchesFit`: a batch `validate_batch` lets in is of the request's columns and
  of the types the Parquet writer takes), `CleanupExact` (`NamesAgree`, `SweepExact`,
  `PurgeExact`, `PinsAgree`). `RootOwned` of `WalRoot`: lease, epochs, commits and
  segments have one owner (`OneHolder`, `EpochsOwned`, `CommitsOwned`, `SegmentsOwned`).
  `WritersInOrder` of `WriterRegistry`: the registry is bounded, a writer's appends land
  once and in order, a verdict on an intent is final, and a registry that does not
  decode lets one more append through at most (`RegistryBounded`, `RangesInOrder`,
  `VerdictsFinal`, `DamageContained`).

No run checks for deadlock: the bounds stop every behaviour, and an exited process
stays down until it is started again.

### Fairness

`FairSpec` of `WritePath`: weak fairness of the WAL writer and of admitted requests, of
the flush loop with the blocked-table resolver, of recovery, of the catalog for a
request it has received, and of detached file operations. The Tokio runtime
schedules each of these, the flush loop and the resolver tick for ever, and none of
the actions waits for a client or an operator. Faults are not fair. The liveness run
leaves out faults after which the property fails or is not promised: a dropped
ingest request keeps its reservation until restart and so holds back later batches; a
failed or cancelled sidecar removal can leave a sidecar that refuses every later
intent; a delayed request that lands during recovery can make a later startup fail.

`ProcessSpec` of `MCServer`: weak fairness of `NodeStep`, the steps the process takes by
itself (stages, draining, tasks that end, the drain timeout). Neither the signal nor a
client's next request is among them: `Exits` holds because the drain has a timeout, not
because clients behave.

### Assumptions

Most assumptions are types of the constants. Three say more: `Retries` of at least 1
(`RegistryAssumption`), rate limits of at least 1 (`AdmissionConstants`) and a lock name
that is no table (`QueryAssumption`); the proofs below say where each is used.

## Where the code and its documents differ

`pruning` is kept as a run: `contained` answers true when a literal lies within the
bounds, or when there are none, and the statement "only if the predicate proves the
result is empty (Invariant I4)" (`pruning/statistics.rs:5`) fails for `x <> v`: a file
whose bounds include `v`, or that has no bounds, is dropped with its other rows.

The modules state what other documents and comments say, under the names below. TLC
refutes each of them, with the faults in parentheses; they are not kept as runs.

*Write path and recovery*

* `NoNewIdentity` (`MULTI_WRITER_OPERATIONS.md:36`). After two NotCommitted answers the
  same intent is resumed; if that attempt fails before it sends anything,
  `commit_flush` retires the intent and a new one is made, although the first request
  may still be applied. No row is published twice. (a delay, a failed load)
* `SidecarIsOwners` (`flush/mod.rs:227`). A flush cancelled between `mark_committed` and
  the sidecar's removal leaves a sidecar that refuses the next intent until restart.
  No row is lost. (a cancellation)
* `SidecarBeforeRequest` (`WRITE_PATH.md:110`). A removal started by a cancelled flush
  runs after the next flush persisted the same intent. (a failed load, a cancellation)
* `StartupContained` (`replay.rs:324`). A late commit lands between planning the replay
  and loading the buffer. (a delay, a crash)
* `DurableAdmitted` (`buffer/table.rs:93`). A request is dropped while it waits for the
  WAL; its reservation is kept until restart. (a cancellation)
* Recovery's room (`replay.rs`, "the original range necessarily fits"): holds while
  decoded batches count no more than the originals did. With an overhead, recovery can
  give up while a prepared flush owns the table, or on a batch that no longer fits
  alone. A failed append whose truncation fails too (`writer.rs:177`) leaves a record
  that takes room in a prepared range.

*Keys*

* `ReceiptOfThisTable` (`idempotency.rs:173`). `complete` by a request of a dropped
  incarnation stores its receipt under the claim of a request to the new table.
* `OneOwner` (`idempotency.rs:113`). `abort` by a request whose claim expired releases
  its successor's claim.
* `PositionsDiffer` (`CONSISTENCY.md:11`) and `RangeReclaimed` (`replay.rs:324`). A key
  used again after expiry is a duplicate to replay, which skips the record and its
  generation. (a crash)
* `writer.rs:166`, "never replay-visible". A failed append whose truncation fails too is
  replayed before the acknowledged retry of its key, which is then skipped as its
  duplicate. If its generation lies in the range of a prepared flush, it counts as part
  of that flush, whose files do not hold it, and neither is served. (a failed append, a
  crash)

*WAL files and identity*

* `OpenSegmentKept` (`manager.rs:68`). A pass unlinks a segment that became current
  after the pass read `current_seq`; what is acknowledged into it afterwards reaches no
  file.
* `TombstoneKept` (`manager.rs:294`). The segment that was current is not in a pass's
  `retained_tables`, so a tombstone written after it is deleted too early.
* `DropScoped` (`service/ingest.rs:6`). A tombstone still queued when its table is
  created again voids acknowledged appends of the new incarnation.
* `SelfHeals` (`ddl_effects.rs:61`), `Restartable`. After a missing tombstone and a
  recreation every startup fails. (a crash)
* `PrefixKept` (`config/sections/storage.rs:37`). Salvaged records are lost by another
  crash before they are flushed. `PlanStable` (`manager.rs:281`). A pass after a
  recovery flush deletes a segment the replay plan still needs. (a crash)
* The lease (`LOCKING.md:10`, `manager.rs:74`): `release_lease` unlocks, then removes
  `.lease`; a process that had the file open takes the lock of a file that is then
  removed, and a newcomer takes another. `OneHolder` exempts this (`unlinked`).
* A damaged length field that stays below 1 GiB but beyond the file decodes as an
  incomplete frame, so later acknowledged frames are dropped without an error even in
  fail mode. `TornTailsBenign` is about files that a crash cut off, not damaged ones.
* Two live nodes of one slot, an expired snapshot and a lost reply let a stale-epoch
  rejection retire an intent that landed; with no retries, a conflict can retire one
  whose delayed request then lands (`VerdictsFinal` exempts the first; the second is
  excluded by `Retries` of at least 1, the configuration's default being 4).

*Statements, maintenance, queries, cache, server*

* `AckedKeptAlways`. An ingest that overlaps a DROP and a CREATE can be acknowledged
  into the dropped incarnation.
* `OneCompactionCommits` and `Disjoint` (`coordination.rs:24`). Two property updates that
  race both leave a node believing it holds the lock; both replace commits succeed.
* `WritersNeverRaced` (`sweeper.rs:17`, "in-progress writers that have not yet committed
  are never raced"). A flush or a compaction whose intent stays uncommitted for the
  minimum age, because its answer is lost or its table blocked, loses its files to a
  sweep; committed afterwards, the snapshot lists files that are gone. Neither the code
  nor the check of the configuration excludes it.
* `PinIsRead` (`CONSISTENCY.md:15`). The files a query reads may be of a later snapshot
  than the one it pins. `LeaseOutlivesQuery`. No code renews a lease, so a long query
  outlives its pin. A metadata-cache entry is not invalidated by a flush, so rows
  flushed out of the grace may be missing until it expires (`CONSISTENCY.md:14`).
* `NoStaleEntry`, `ReadsSucceed`, `DiskBounded` (`CACHE.md`). A fill that overlaps a write
  caches the older content; a read can fail when its file was evicted under it; a
  crash leaves `.tmp` files that nothing counts.
* `WriteBudget` (`CONFIGURATION.md:120`). Principals that share an overflow stripe share
  one budget, so the first write of one can be refused. `FlushAfterRequests`
  (`ARCHITECTURE.md:169`). The drain's final flush may run before the last request is
  acknowledged.
* `SweepExact` and `PurgeExact` are stated with their exemption: an object whose path
  holds an escape is listed under a doubly escaped name. The sweep takes a live one for
  an orphan and only the second escaping in `delete` saves it; real orphans and purged
  objects of this kind stay, counted as deleted (`docs/TESTING.md:52`).

* Column types (`TypeHolds`): `uint64` and the 128-bit integers become a 64-bit `long`,
  and a decimal's precision is taken modulo 256, without an error. `TablesExact` exempts
  these and holds every other type to what its name promises.

Seen while modelling, not checked by a run: the client library retries a POST ingest
without a key and does not retry the 409 the server calls retryable
(`TRANSACTION_MODEL.md:57`); a retried create can be told that its own namespace exists;
`flush` answers `no_pending_data` while accepted batches wait behind an older
reservation; `query_prepared` of the client sends a command that `get_flight_info` does
not implement (`API.md:118`); the deadline of `CommandStatementUpdate` can cancel DDL
between its catalog change and its effects; a failed first listing of table names is
cached as an empty list; the admin view of tables counts compacted rows again; bounds
are lost or wrong for some decimals and binary values (`BoundLost`); a position deleted
twice makes every compaction of its group abort; `shutdown.flush_on_shutdown` is never
read; a first flush between `load_table` and `load_live_files` is reported as corrupt
metadata.

## Proofs

`WritePath`. All theorems hold for any `MaxGen`, `Capacity`, `NumRetries`, `MaxPeers`,
`MaxCommits`, `MaxFaults`, `MaxWriters` and set of faults (`ConstantsAssumption`,
`MaxWritersAssumption`).

`WritePathProofs` begins with `TypeCorrect` (`Spec => []TypeOK`), one lemma for each
group of variables, and lemmas on which actions change each variable (`WalFrame`,
`IntentFrame`, ...); the rest reasons from these instead of from the forty actions. Then
come the initial state, the step lemmas of each part of the invariant,
`InductiveInvariant`, and from it `NoLoss`, `Once`, `Proved`, `Frontier`, `Buffered`,
`Completed`, `CheckpointMonotone` and `Refinement`.

The safety properties are not inductive, because a crash, a cancelled call or a delay
can leave an intent in six places (the sidecar, recovery's copy of it, the buffer, a
task, the network, a detached file operation), and any of them may send it to the
catalog much later. `IntentsSound` says of every one of them that its rows span its
range, that every acknowledged batch at or below its end is among its rows or already
in the table, and that the end of its range is committed or will be replayed, so that
no later run assigns a generation inside it. `ReservedAbove` says that a generation
whose append is in progress is above all of them, which is what the drain rule is
for. `CatalogSound` says that a request on its way still satisfies the guard that let it
pass; it depends on the snapshot requirement. `BufferSound` gives every acknowledged
batch an owner and orders published, in-flight, pending and unreplayed batches;
`ControlSound` ties the task's position to its intent. `Completable` says that whoever
holds an unresolved intent, the buffer or a task, could complete it at once: as long as
one is held nothing else is put in flight and nothing of it is taken back, and a buffer
that is not loaded, or a task still writing files, holds none. Each part has a step lemma;
`InductiveStep` combines them. `Refinement` maps `acked`, the union of the published rows
and the checkpoint to the abstract variables: `Admit` is `Accept`, `CatalogApply` is
`Publish`, and every other action stutters.

`WalRootProofs`, for any number of processes, clusters, lives, segments and epochs:
`WalRootOwned` (`RootSpec => []RootOwned`) and its parts `LeaseExclusive`,
`EpochExclusive`, `CommitsExclusive` and `SegmentsExclusive`, all from `RootInv`.
`LeaseInv` says that a holder's lock is its own and, while no lease file was removed
under a process, that all processes have the same file open and the holder is the last
life; `IdentityInv` that what is durable is not ahead of what is there; `EpochInv` that
the epoch on disk is the holder's and no served epoch is above the durable one;
`CommitInv` that a process which loaded the table has an epoch no other life committed
under; `SegmentInv` that the next segment's number is above all there are. A release
that removes the lease file under a waiter breaks all of these, so all but the
durability of the identity are conditional on `~unlinked`.

`WriterRegistry`, for any number of nodes, slots, appends, retries, outside events and
any room in the registry: `RegistryCorrect` (`RegistrySpec => []WritersInOrder`). The
invariant and the steps of a node are in `WriterRegistryInvariant`, the catalog's, the
others' and the theorem in `WriterRegistryProofs`. It follows *tickets*: a request on the
wire, and the one a node has checked and is going to send. `TicketInv` says that what
the guard found when it accepted a ticket still holds as long as the ticket can be
applied, because every change of the registry moves the current snapshot; that is why
a new writer cannot overflow the registry and an old request cannot land out of order.
`TableInv` relates summaries and checkpoints to the appends that landed, `IdInv` gives
each commit ID one intent of one node, and `VerdictInv` is what makes verdicts final:
from the second attempt of a transaction on, every older request of the intent is behind
the snapshot the node has seen, so nothing that is given up can still be applied. The
proof needs `Retries` of at least 1 (`RegistryAssumption`): without it an intent whose
first request was taken for lost can be given up although that request landed.

`QueryProofs`, for any number of queries, tables, commits, faults and load locks, and any
TTLs and leases: `SnapshotPinsSound` (`Spec => []PinsSound`), `ResultsAreWhole`
(`Spec => []WholeResult`) and the action property `CacheNeverGoesBack`
(`Spec => CacheAdvances`). The invariant is a predicate of each query's record by its
place. `LoadOf` says which load lock a resolving query has, and that what it has read of
the catalog is not newer than the table and not older than what is cached; with
`OneLoader`, one holder for each lock, no insert goes back. `PinOf` gives every pin an
owner that will remove it (`Owned`: the query, the call that is about to record it, a
release task, or the lease once it is stray, as after a property update that was applied
and answered with an error) and says of every pin a query counts on that
it stands or that its lease or its table is over (`Kept`); `ResultOf` says which engine
the batches so far came from. A step of one query is seen by the others only through
`LoadFrame`, `PinFrame` and `StatusFrame`; a step of the world (clock, commits, drops,
expiry, crash) changes pins only as `PinsOver` says. The proof needs the name of the
shared lock to differ from the names of tables, as the code's separate field for it does
(`QueryAssumption`).

`MaintenanceProofs`, for any number of nodes, files, snapshots and ticks:
`SweepsSpareListed` (`Spec => []FilesExist`) and `CompactionKeepsRows` (`Spec =>
[]RowsSound`). `TableInv` says that what is listed exists and that every row is in a
file that stands (listed and not superseded). `SweepInv` says that a file a sweep does
not protect was committed after the sweep began, and that the clock reading its
deletions go by came at most `slowest` later: a file deleted that way is one that was
committed late. `Awaited` says the same of a file still to be committed. No assumption
on delays is needed; the exemption of late commits is in the statement. `OutputInv` says
that a rewrite's file has the rows of its inputs and no others, and is nobody else's;
`OnceInv` that with one node at a time at work its inputs stand; `LockOf` that the lock
is that of the node at work unless a property update raced or its time is over.

`AdmissionProofs`, for any finite sets of requests and principals: `PrincipalsLimited`
(`Spec => []PrincipalLimits`) and `CeilingsKept` (`Spec => []CeilingsSound`). The free
permits of a ceiling and the requests that count against it are as many as the ceiling
(`Conserved`). A principal's permits are those of one semaphore of its own, because an
entry in use is never swept, and of one stripe (`PermitInv`). `Paced` relates a
principal's window to its admissions, and elapsed, new and counted windows keep it. Rate
limits are at least 1, which the configuration's validation enforces
(`AdmissionConstants`).

`ServerProofs` has a node's life, its connections and its cached names. For any number of
requests and failures, with a scheduler or without: `DrainLeavesNothing`
(`Spec => []StopsClean`). `Served` ties a request in a handler to a listener that runs,
`Drained` the drain's place to the tasks it has seen end, and `Flushed` says from the end of
the final flush on that whatever is in the buffer came later (`late`) or was passed over
for what the flush met (`PassedOver`).

For any set of connections, any number of permits, any timeout and any body limit:
`ConnectionsCorrect` (`ConnectionsSpec => []ConnectionsSound`). `IoSound` says that
neither idle deadline is ahead of the silence on the connection, and `BodySound` that a
handler has seen exactly what arrived until a body is refused.

For any set of callers and any TTL: `TableNamesCorrect` (`NamesSpec => []NamesServed`)
and its parts `ListsFresh` and `RefreshExclusive`, from `NamesInv`, which bounds the age
of every listing in progress.

The inductive invariants were checked by TLC on the runs' instances before they were
proved.

Only model-checked: `KeyedIngest`, `FlightSession`, `WalSegments`, `TableLifecycle` and
`RestCalls`; `ObjectCache` and `HotBuffer`, which sum bytes over a sequence or a set of any
size, which takes an induction; and liveness (`AckedIsPublished`, `Exits`), which the
prover does not handle. The pure algorithms are recursive or fold over their input, where
the prover has no induction; TLC compares them with their references on bounded inputs.

## Not modelled

* Authentication, authorization and allow-lists: stateless decisions on credentials.
* Configuration: parsing, defaults and range checks of independent settings; the
  settings the models depend on are their constants and assumptions.
* Scheduler API, topology and cluster addresses, admin read-only endpoints, metrics,
  logging, the banner and the UI: they report state and change none of it.
* Construction of services from settings (builders, `app_state`, `main`).
* SQL parsing, planning and execution (DataFusion, Ballista), Arrow and Parquet encoding,
  object-store backends, TLS and the Flight codec: external libraries and pure I/O.
* Parts of modelled components: flattening of nested JSON values, compression choices,
  the WAL's disk-usage limit, sort orders in the catalog (no caller sets one),
  pagination, the control-plane role (no ingest), session settings.
* The benchmark suite and test support, which are not part of the server.

Not composed: the state machines meet in `WritePath` (buffer, WAL, flush, catalog and
recovery) and `TableLifecycle` (statements, ingest, flush and restart). That
`WalSegments` implements the set of records `WritePath` assumes, and that the epoch of
`WalRoot` is the one `WritePath` raises, are argued here and not checked.
