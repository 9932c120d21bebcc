# focal-vector in TLA+

Specifications of focal-vector, a vector database in Rust: what its components do, checked with TLC
on small instances and, for the durable collection, both sharded collections, the Raft log, the
catalog and the admission of requests, proved with TLAPS for every instance. `PROJECT.json` maps each
definition to the source lines it translates and lists the hazards the properties are about.

## 1. The system

| Component | Source | State | Modelled by |
|---|---|---|---|
| In-memory collection | `collection.rs` | points by ID, commit sequence | `PersistentCollection`, `MetadataIndex` |
| Persistent collection | `persistence.rs` | WAL, segments, MANIFEST, indexes, dirty IDs | `PersistentCollection`, `DurableMap`, `Database` (metadata file, backup copy) |
| Shared collection | `concurrent.rs` | the above behind a read-write lock | `SharedCollection`, `Database` (`backup_to`) |
| Background flusher | `concurrent.rs` | a thread, a stop channel, an error slot | `BackgroundFlush` |
| Database | `database.rs` | collections by name, backups | `Database` |
| Embedded sharding | `sharding.rs` | shards | `ShardRouting`, `ShardedCollection` |
| Raft log storage | `raft_storage.rs` | journal, checkpoint, vote, entries | `DurableRaftLog`, `RaftLogStore` |
| Shard state machine | `raft_state_machine.rs` | collection, dedup table, journal, snapshot, indexes | `DurableShardStateMachine` |
| Raft node | `raft_node.rs` | a Raft instance, permits | `DistributedCollection` (client side) |
| Distributed client | `distributed.rs` | addresses of each shard | `ShardRouting`, `DistributedCollection` |
| HNSW index | `hnsw.rs` | layered graph, pooled workspaces | `Hnsw` |
| Metadata index, filters | `metadata_index.rs`, `filter.rs` | posting sets, ordered values | `MetadataIndex`, `Filters` |
| HTTP server, local IPC | `server.rs`, `local.rs` | admission semaphore, counters | `Admission`, `Filters` (API filters) |
| Metrics, CUDA, TLS, binaries | `metric.rs`, `cuda.rs`, `tls.rs`, `bin/` | none, or a cache | - |

How they interact: server, IPC and database call shared collections; a shared collection wraps one
persistent collection, which wraps one in-memory collection; sharding is over shared collections. The
distributed client talks to Raft nodes, each with a log storage and a shard state machine, which has
an in-memory collection of its own and no persistent one. Where a module uses another component it
takes over what that component's own module establishes: a shard of `ShardedCollection` is atomic
because `SharedCollection` implements `DurableMap`; a replica of `DistributedCollection` applies each
request once because the state machine matches its log; `BackgroundFlush` sees of its collection the
dirty IDs and the published sequence.

## 2. Modules, state and actions

### Persistent and shared collection

`PersistentCollection` (files, memory, flush, crashes, recovery; `OwnedSpec` for use through `&mut
self`), `SharedCollection` (`SharedSpec`: concurrent writers and flushing threads, the refinement
mapping), `DurableMap` (the abstract specification), `CollectionInvariant` (the inductive invariant),
`MCSharedCollection`.

A version of a point is identified with the sequence that wrote it, so a collection state is a
function from IDs to sequences (0: absent). A segment file is named by its sequence and holds its
kind, the IDs it covers and their versions; covered IDs without a version are its tombstones. Each
file has two values: what the operating system shows and what is on stable storage. `Crash` keeps the
first. `PowerLoss` keeps, for each file and directory entry separately, either the last synced value
or a newer one, a prefix of the log being at least what was synced, with a torn frame possible.
`committed`, `begun` and `acked` are history variables.

`BeginAppend`, `CompleteAppend` and `FailAppend` are `upsert`/`delete` through `append_frame`.
`FlushSnapshot` is `flush_snapshot` and `build_flush`, which read one snapshot and write a temporary
file no one else sees. `publish_flush` is one action per durable step: `PublishSegment`,
`SyncSegment`, `WriteManifest`, `RenameManifest`, `SyncManifest`, `TruncateWal`, `FinishPublish`, with
`PublishNothing` and `FailPublish` for the early returns. They run under the write lock, so they
interleave only with crashes. `Open`, `LoadSegment`, `BeginReplay`, `ReplayFrame`, `ReplayTorn` and
`OpenDone` are `open_with_cuda`.

Assumptions: a frame removed from the log after a failed append does not reappear after a power loss;
`recover` does not sync, so a recovered frame that was never acknowledged may be lost at a later power
loss and `acked` is not raised by recovery; the directory entry of `write.wal` is durable and
`collection.meta` exists; files are damaged by crashes only.

`RepeatedFlush`, `EmptyDeltas`, `PidReuse` and `IoFaults` say what an instance's callers and
environment may do; the code tests neither of the first two. With `RepeatedFlush = FALSE` every flush
has a sequence no published or pending segment has (`FreshSequence`). With `EmptyDeltas = FALSE` no
delta consists of tombstones only.

### Raft log storage

`DurableRaftLog` is the journal of one node. `BeginWrite` is `save_vote`, `save_committed`, `append`,
`truncate` or `purge` up to the record in the journal; `SyncRecord` syncs and applies it; a purge goes
on with `RenameCheckpoint`, `SyncCheckpoint`, `CutJournal` and `SyncCut` (`write_checkpoint` and the
cut); `FailWrite` and `FailPurge` are their error paths. `Open` folds the journal over the checkpoint,
which may be newer than the journal's first records. An entry is its term; which calls OpenRaft makes
is `RaftCalls`. `RaftLogStore` is what OpenRaft is promised: a write happens entirely or not at all
and an acknowledged one is never lost. The directory entry of `raft.journal` is taken as durable.

### Shard state machine

`DurableShardStateMachine` is one replica. `BeginApply`/`FinishApply`/`FailApply` are `apply` with
`prepare_payload` and `replay_record`; `BeginInstall`, `InstallWrites`, `InstallCutsJournal` and
`FinishInstall` are `install_snapshot`; `BeginBuild`, `BuildWrites` and `FinishBuild` are
`build_snapshot`; both go through the steps of `write_snapshot` (temporary file, rename, directory
sync) and share its two file names. `BeginRefresh`/`FinishRefresh` are `refresh_index_if_needed`.
`Open` is the snapshot plus the journal's newer records. `ExactPlan` and `GraphPlan` are the two plans
of `search_with_ef`. `StateAt(n)` is the reference: what the first n committed entries mean, defined
without replaying them. `Overlap` says whether OpenRaft may build one snapshot while it installs
another.

### Sharding and the distributed collection

`ShardRouting` has `shard_index`, the split of a batch and the merge of hits. In `ShardedCollection`
writers commit a batch shard by shard (`BeginBatch`, `CommitShard`, `FailShard`, `Return`) beside a
search with one thread per shard (`SearchShard`, `FailSearch`, `JoinSearch`), which is an error if one
of them fails.

In `DistributedCollection` a request has one task per shard (`Begin`, `Retry`); a task tries the
shard's addresses in order (`Deliver`, `Lose`, `Truncated`, `Answer`, through `send_to_leader` and
`RaftNode::write` with its permits), and `write_commands` joins them (`JoinError` aborts the others,
`JoinOk`). A search asks each shard (`QueryNode`, `IndexThenSearch`, `LoseQuery`, `JoinQuery`).
OpenRaft is external: `Commit`, `Elect` and `Apply` are its promises, namely that a committed log only
grows, that an uncommitted entry may survive a change of leader or not, and that replicas apply the
log in order. A leader can lose touch with the other replicas and not with its clients (`CutOff`,
`Rejoin`): it goes on taking writes, which it cannot commit and does not answer, while a majority of the
shard's `Voters` elects another leader, whose log overwrites its entries when the cut heals.

### Database, flusher, admission

`Database` has one action per file system step of `create_collection` (with `ensure_metadata`),
`backup_collection` (with `SharedCollection::flush` and `copy_collection_directory`) and
`restore_collection`, for several callers, with process crashes and I/O errors between any two. A
collection directory is its configuration, its batches, its last flushed sequence and whether it is
whole, half made or damaged.

`BackgroundFlush` has the thread's wake-up, snapshot and publication, its first error, `stop`, drop
and join, beside writers and another caller of `flush`.

`Admission` follows a request through either server: checks, the semaphore's `try_acquire`, the
blocking job that owns the permit, the answer and the counters, with clients that give up and a
shutdown. The local server checks limits inside the job, the HTTP server before it. An operation may
take effect and still be answered with an error: a flush that fails late, or `latest_sequence` after a
collection was created or restored. A request is in the model once it was received whole; clients that
stall while they send are not.

### Indexes and filters

`Hnsw` builds a graph (`InsertSeed`, then `PlanBatch` in parallel chunks and `ApplyPlanned` in order,
`Finish` with compaction), writes and validates it (`Accepted` is the decoder) and searches it with
threads that share pooled visited-marks, whose generation counter wraps (`BeginSearch`, `SearchBase`,
`ReturnWorkspace`). A vector is a number on a line. Both callers pass points sorted by ID, so a node
stands for its ID. `MetadataIndex` is the index beside points that are written, deleted and flushed,
and the filtered search that uses it; `Filters` has the values with their comparisons (signed zeros,
infinities, NaN, integers beside floats) and the conversion of API filters with its limits.

The `MC` modules hold constants for TLC. `MCSharding`, `MCService` and `MCSearch` put components that
do not share state side by side, one per behaviour (`scenario`).

## 3. Runs

Deadlock checking is off in all runs: callers may stop calling, and the bounds end a behaviour.

| Run | Instance | Result |
|---|---|---|
| `shared` | 2 IDs, 2 flushers, 3 writes, 1 crash, 1 error in an append or after the manifest rename | seven properties hold |
| `owned` | `OwnedSpec`, 2 IDs, 3 writes, 1 crash, 2 errors in appends or before the rename | recovery and immutability hold, and it opens, no flush being of deletions only |
| `unchecked` | 1 ID, 2 flushers, 3 writes, all error classes, repeated and empty flushes | `SearchExact`, `ManifestAdvances` hold |
| `raft_log` | 3 indexes, 2 terms, 6 writes, 2 crashes or power losses, 1 error; 1.1 million states | holds |
| `state_machine` | 2 IDs, 3 requests (upsert, delete, invalid), log of 3, 2 snapshots, 1 refresh, 1 crash, 1 error; 0.7 million states | holds |
| `sharding` | embedded: 3 IDs, 2 shards, 2 writers, 1 error; distributed: 2 shards with 2 addresses of 3 voters and with 1, 2 requests, 2 disturbances; 0.5 million states | holds |
| `service` | 2 callers, 2 collections, 1 backup, 1 accident; flusher with 3 points and 3 batches; 3 calls for 2 permits; 1.1 million states | holds |
| `search` | up to 6 nodes, seed 2, batches of 3, 2 searchers; 2 points, 10 metadata values; 57 thousand states | holds |
| `repeated_flush` | 1 ID, no errors, repeated flushes | violates `OpenNeverFails` |
| `tombstone_flush` | `OwnedSpec`, 1 ID, 4 writes, no errors | violates `OpenNeverFails` |
| `snapshot_overlap` | as `state_machine`, with `Overlap` and no errors | violates `AppliedSurvives` |
| `interrupted_create` | 1 caller, 1 collection, 1 crash | violates `ReopenSucceeds` |

What the properties say:

- `AckedRecovered`, `OpenNeverFails`, `SearchExact`, `SegmentsImmutable`, `ManifestAdvances`,
  `IsDurableMap`: an open collection is a committed state with all acknowledged writes; open succeeds
  after crashes; graphs and dirty IDs cover exactly the live points; published files stay as they are;
  the durable manifest never goes back; `SharedSpec` implements `DurableMap`.
- `OpensUnlessOutgrown`: all that can stop open is a manifest with too many names. `shared` states
  this and not `OpenNeverFails`, which holds there only because three writes are too few: compaction
  is decided at the snapshot, so three deltas that overlap, or deltas repeated after late errors, can
  still take the manifest past `MAX_INDEX_SEGMENTS + 1` names. On larger instances than the runs TLC
  finds this with four writes, from three flushers without errors or from one with two late errors, and
  with two flushers, one late error and five writes.
- `LogReadable`, `IsRaftLogStore`: the log has no holes and what is committed can be read; journal and
  checkpoint implement the promised store.
- `ReplicaMatchesLog`, `AppliedSurvives`, `OneAnswer`, `ReplicaSearchExact`, `CatchesUp`: a replica is
  the state its log defines, also after recovery; applied entries survive; a repeated request gets the
  same answer; both search plans are exact; a replica that stays up catches up.
- `CommitsAreAPrefix`, `MergedTopK`: a batch that fails, of which the caller gets only the error, has
  reached exactly the shards before the one that failed, and none if it was invalid; hits are returned
  only if every shard answered, and they are the global top k.
- `AckedCommitted`, `RetriesKeepLaterWrites`, `SearchSeesAcked`, `IndexIsLowerBound`, `WritesReturn`:
  success means committed on every shard; a late repetition undoes nothing; a linearizable search sees
  what was acknowledged; the reported index is a lower bound; once every shard has a leader and no
  leader is cut off, every write returns. Nothing stronger holds: `send_to_leader` sets no timeout, and
  without the condition TLC finds the write that waits for a cut-off leader for ever.
- `BackupIsCommitted`, `BackupsImmutable`, `CatalogRecovered`: a backup is the state at the sequence
  it returned; backups are not overwritten; what was created is there after a restart.
- `DirtyFlushed`, `StopReturns`: dirty points are flushed while the thread lives; `stop` returns.
- `PermitsConserved`, `AnswersTrue`, `Drains`: permits are not lost; success means that the operation
  took effect and a refusal that it did not, counters claim nothing else, and an error leaves it open;
  overload passes and shutdown ends, for requests received whole: plain HTTP drains without a time limit
  and a client that stalls in the middle of its request could hold it up.
- `GraphReopens`, `SearchFindsReachable`: the decoder accepts every graph the builder writes, except
  that a non-zero vector so small that its quantization scale underflows to zero is refused; a search
  wide enough returns the best of what can be reached from the entry point, whichever workspace it got.
- `FilteredSearchExact`, `FilterLimitsExact`: filtered search equals a scan; an API filter is accepted
  exactly when it is within the limits.

Disagreements between the code and its documentation:

- `repeated_flush`: upsert, flush, flush again, crash, open fails, because `SharedCollection::flush`
  lacks the test for dirty IDs that `PersistentCollection::flush` has; the second flush puts an empty
  delta in place of the full segment and names it twice in the manifest.
- `tombstone_flush`: compaction is decided by the number of graphs; a delta with only tombstones adds
  a name to the manifest and no graph, so the manifest outgrows the limit its reader enforces. Both
  contradict the comment on `flush` that a crash at any boundary recovers.
- `snapshot_overlap`: `install_snapshot` writes `state.snapshot` without the lock that
  `build_snapshot` holds, under the same temporary name. A build that began earlier can replace the
  installed snapshot before the journal is cut, and a restarted replica lacks entries it had applied.
- `interrupted_create`: `ensure_metadata` makes `collection.meta.tmp` with `create_new`; after a crash
  before the rename, the same call fails until someone removes the file.

Bounds. `MAX_INDEX_SEGMENTS` is 2 where the code has 8, so that three writes reach a full segment, a
delta and a compaction. Two IDs tell a batch from its parts and a changed point from an unchanged one;
two flushers are what it takes for one to overtake another; one crash may come at every step, recovery
included. Six log writes reach an append, its commit, a purge past it, a truncation and a write after
recovery. A log of three entries has a request, its repetition and another request between them; two
snapshots meet. Two disturbances lose an answer and then its repetition, or cut off a leader and lose the
answer of the next. Equal scores in two shards make the merge break a tie.
Two callers race for one backup name. Two permits for three calls reach the limit and a release. A
seed of two and batches of three put parallel plans on a graph that later plans do not see, and
`GenerationMax = 2` makes the visited-marks wrap. Larger instances were run once without an error:
`shared` with two crashes (7.4 million states), with `Durability::Flush` (36.5 million) and with `Inv`,
`SearchInv` and `ReopenInv` as its invariants (1.6 million); one flusher with four writes and `LengthInv`
(9.7 million), `owned` with four writes, `LengthInv` and `OwnedInv` (6.5 million); `search` with seven
nodes and with three points; `sharding` with three disturbances (1.5 million). `shared` and `owned` leave out empty deltas because of the segment limit;
`unchecked`, `tombstone_flush` and the proofs under `CarefulCallers` alone include them. The
collection's sequence does not overflow in `state_machine`: its `LastSequence` is
what the valid requests can reach.

Fairness, where liveness is claimed:

- `DurableShardStateMachine!Fairness`: Tokio runs every task again and again (weak fairness of each
  step of apply, install and build) and its mutex is first in, first out (strong fairness of the two
  steps that wait for the lock). Nothing is assumed about commits, refreshes, crashes or errors.
- `DistributedFairness`: one weak fairness of all steps of clients and shards: as long as a task can go
  on, a shard with a leader can commit, apply or drop an overwritten entry, some such step is taken.
  Nothing is assumed about elections, cuts and their healing, losses or retries, and a leader that is
  cut off answers nobody; `WritesReturn` has its condition for that reason.
- `FlushFairness`: the thread and its owner are scheduled, and the write lock is granted. Writers that
  never pause defeat the flusher in the code as well, since it clears the dirty IDs only if nothing was
  written since its snapshot; the bound on batches makes them pause.
- `AdmissionFairness`: handlers and jobs are scheduled and storage operations return; the runtime waits
  for the blocking jobs it has started.

## 4. Proofs

For every value of the constants that satisfies their `ASSUME`s:

- `SharedTypeOK`: `SharedSpec => []TypeOK`, with no further assumption.
- Under `CarefulCallers`, that is, no repeated flush of a sequence and no failure of the clean-up after
  a failed append: `SharedInv`, `SharedAckedRecovered`, `SharedManifestAdvances`,
  `SharedSegmentsImmutable`, `SharedIsDurableMap`, `SharedSearchExact`, `SharedOpens`
  (`OpensUnlessOutgrown`), for any number of flushers, errors, crashes and power losses and both
  durability modes.
- `SharedOpenNeverFails`: if in addition one thread flushes (`SoleFlusher`), deltas have nodes and there
  is at most one late error (`ShortManifests`), open never fails. None of the three bounds can be left
  out: section 3 has the counterexamples for flushers and late errors, and TLC finds the one of
  `tombstone_flush` in `SharedSpec` too.
- For `OwnedSpec`, without late errors, clean-up failures and deltas of tombstones only (`OwnedCallers`,
  as in the run `owned`): `OwnedAckedRecovered`, `OwnedOpensUnlessFlushesOnlyDelete`,
  `OwnedSegmentsImmutable`, `OwnedIsDurableMap`, `OwnedSearchExact`. Here a flush may repeat a sequence.
  The code does not enforce these hypotheses: `tombstone_flush` is what happens without the third.
- `EmbeddedCommits`, `EmbeddedMerge`: for any finite set of IDs, any shards, writers, failures, hash and k.
- `DistributedAckedCommitted`, `DistributedRetries`, `DistributedSearchSeesAcked`,
  `DistributedIndexIsLowerBound`: for any number of shards, replicas, requests and disturbances, leaders
  that are cut off included; every shard has an address, which `DistributedCollection::new` checks.
- `RaftLogTypes`, `RaftLogReadable`, `RaftLogIsStore`: for any indexes, terms, writes, crashes, power
  losses and errors.
- `BackupCommitted`, `BackupsStay`, `CatalogComplete`: for any callers, collections, backups and crashes.
- `AdmissionPermits`, `AdmissionAnswers`: for any finite set of calls and any number of permits.

**The durable collection.** `AckedRecovered` is not inductive: whether open returns the right state
depends on the files, and whether those are right depends on the flushes being prepared. `Inv` adds: who
holds the lock (`ControlSound`); each manifest names a chain, a full segment and then deltas listing all
that changed in between, already on stable storage (`ManifestSound`); a prepared flush is the committed
state at its sequence, covers everything changed since the manifest, and never replaces a published file
by a different one (`PreparedSound`); how far a publication has come (`PublishSound`); memory, log and
acknowledgements agree with the history (`MemorySound`, `WalSound`, `AckedSound`). `Inv` is kept by every
step of `SafeNext`, where a flush has a name that is new or already has the contents it would write;
`SharedNext` (with careful callers) and, where
`OwnedInv` holds, `OwnedNext` imply it. `CollectionProofs` has the types and
a lemma per step of a write, `DurabilityProofs` one per step of a flush, a crash and recovery, and the
theorems about `Inv`.

`SearchProofs` derives the refinement of `DurableMap` from `Inv` alone: a write maps to `Begin`, then
`Acknowledge` or `Refuse`; the end of open to `Restart`, a crash to `Stop`; flushing and the rest of
recovery to stuttering. For `SearchExact` it adds `SearchInv`: a version is the sequence that wrote it
and stays until the next write of its ID (`VersionsSound`); a graph has versions current at its sequence
(`IndexSound`); live points outside `dirty` are in some graph (`CoverSound`), and so is what a delta
under construction leaves out, unless it will be found stale (`DeltaSound`). For open it adds
`ReopenInv`: of whichever log and manifest a crash leaves, each frame is at most one ahead of the
manifest or of an earlier frame (`NoGap`), which needs that every sequence in memory or in a prepared
flush is in the durable manifest or the log (`Known`).

`OpenProofs` bounds the manifest by `LengthInv`: it has no more names than there are graphs, but for one
more per late error (`Slack`) and an empty full segment (`NamesSound`); every file of a manifest of
several has a live point and so a graph when loaded (`GraphsOf`, `LoadedSound`); and a flush that is
alone still compacts exactly when its snapshot decided to (`AloneSound`). `OwnedInv` is why a
`PersistentCollection` never flushes under an unsafe name: a flush is of the latest state
(`LatestSound`); there are dirty IDs only if something was written since the manifest (`DirtySound`);
without any, flush runs only if there is no graph, so that the manifest has at most one segment, a full
one, which it writes again.

**Sharding.** `MergeExact` (`ShardedProofs`) is the argument for merging: a hit among the best k of the
union is among the best k of its shard, by counting the hits before it. `EmbeddedInv` says that the
shards that committed a batch come before those still to do (`CommitsInOrder`) and that a batch belongs
to one call (`BatchesOwned`). `DistributedInv` (`DistributedProofs`) relates client and cluster: a
finished task has its entry in the log (`TasksSound`), a replica is exactly what the first entries of
the log make of it, where each request counts at its first entry (`ReplicasSound`), and a part of a
search has read no less than was acknowledged and sees no less than it reports (`SearchSound`). Logs and
replicas only grow (`ClusterGrows`), which is what a search that waits relies on.

**Raft log.** `RaftLogInv` (`RaftLogProofs`): the journal, in memory of the file system or on stable
storage, replayed on the old or on the new checkpoint, gives the acknowledged log or the one being
written (`FilesSound`); which of the two depends on how far the write has got (`WriteSound`); neither has
holes. It rests on lemmas about replay (a recursive function), proved by induction over its length.

**Service** (`ServiceProofs`). `DatabaseInv`: one caller at a time changes the catalog, by a name that is
not in it, and what was reported has its metadata (`CatalogSound`); a caller that backs up copies a log
that does not grow under its read lock (`BackupSound`). `AdmissionInv` adds to `PermitsConserved` that a
job was authorized and that what was applied was authorized, within the limits and is no longer running.

TLC checked each of these inductive invariants as well.

Only model-checked: the properties of `DurableShardStateMachine`, whose recovery folds over a sequence
with a library operator; `SearchExact` and `ManifestAdvances` without `CarefulCallers` (`unchecked`); and
what is out of the prover's reach: liveness under fairness (`CatchesUp`, `WritesReturn`, `DirtyFlushed`,
`StopReturns`, `Drains`) and the modules with `RECURSIVE` operators (`Filters`, `MetadataIndex`,
`Hnsw`).

## 5. Not modelled

- Byte formats and checksums: a frame or record is whole or torn, a file is what was written. What the
  HNSW decoder tests of the decoded graph is modelled.
- Floating-point scores and SIMD kernels (`metric.rs`): scores are numbers. Device code (`cuda.rs`)
  computes the same scores behind a feature flag, from a cache of the collection.
- TLS, command lines, benchmarks, routing, JSON, set-up of sockets: input and output.
- Raft itself, with membership changes, status and peer messages of `raft_node.rs`, is OpenRaft's. The
  file with the node's ID is written once and compared.
- The database under power loss: the code makes a collection's directory without syncing its parent,
  so whether the new entry survives is up to the file system; `Database` models process crashes, and
  `PersistentCollection` takes the directory as durable.
- `ShardedCollection::flush` and the statistics of each component, which change nothing else.
- How much an approximate search misses. Pruning can leave a node without links that lead to it, so
  fewer than k hits may be returned, where `DESIGN.md` expects k; `SearchFindsReachable` is about what
  can be reached. Over-fetching from several graphs of one collection is left out for the same reason.
