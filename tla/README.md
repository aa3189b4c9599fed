# Verification of knowledge-crib

TLA+ models of the concurrent parts of this repository, the TLC configurations that check them, and
TLAPS proofs about them. Paths are relative to the repository (`packages/...`). To repeat a result,
in this directory: `tlc -config MCX_y.cfg MCX` for a run of `PROJECT.json`, `tlapm XProofs.tla` for
the proofs.

knowledge-crib extracts a graph of a code base (parsers, pipeline), keeps it as a committed *soul*
under `.crib`, serves it with agent memory over MCP (`crib serve`), and keeps both fresh in the
background (`crib freshness`). What can go wrong in ways a test hardly reaches is in the processes
and callbacks around the data, so that is what is modelled.

## Inventory

| Component | State it keeps | Operations | Interacts with | What makes it correct |
|---|---|---|---|---|
| Advisory lock, `core/src/lock.ts` | one lock file: existence, pid, mtime | acquire, staleness, steal, release | every writer of `.crib`, the memory stores, the freshness files | mutual exclusion; nothing stranded; self-healing after a crash |
| Freshness queue, lease, worker, `cli/src/freshness.ts` | `queue.json`, `worker-state.json`, generation files, cancel requests; per process: epoch, run, abort channel | post-commit enqueue, cancel, election, recovery, heartbeat, sweep, claim, run, activation, retry, stop | the lock (queue outer, lease inner), the forked child, the repository | fenced publication, at-least-once revalidation, coalescing, terminal cancellation, honest stamps |
| Revalidation child, `cli/src/freshness-child.ts` | a process, a staged result | update, stage, report, die | worker (IPC, signals), `crib update` | reports the head it processed |
| Refresh coordinator, `cli/src/refresh-coordinator.ts` | current and published bundle, pending trigger, last capture, pin count | initialize, requestRefresh, refresh, publish, swap, retain, release, freshness, close | watcher and timer (calls), pins of the MCP server (callbacks), slots of Verbs (adopter) | what serves is open, one bundle per request, nothing leaked, honest staleness, convergence |
| Watcher, `cli/src/watch.ts` | debounce and fallback timers | events, fallback scan, stop | coordinator | a change is eventually scanned |
| Memory store and ledger, `memory/src/store.ts`, `ledger.ts` | shard files per collection, `store.gen`; per process: memos of parsed shards | upsert, remove, job update, graph submission, shard and collection reads, pinned passes | lock, sync, capture, recall | no lost update, no stale memo served, acknowledged work kept |
| Sync engine, `memory/src/sync/` | outbox, acks, pulled batches, conflicts, quarantine, key epoch; the remote's objects, batches and manifest | init, stage, push, backfill, pull, skip, rotate, purge, compact | memory store, object store | replicas converge, redelivery is harmless, nothing unacked is dropped |
| Capture outbox, pending queue, auto-admit, distiller, `memory/src/outbox.ts`, `pending-queue.ts`, `auto-admit.ts`, `distill.ts` | outbox rows, dead captures, candidates, attempts, the stop marker | stage, drain, verify, apply, retry, bury, admit, recheck, dismiss | memory store, lock, provider, hooks | a capture is never lost, rewound or buried early; a poison capture does not wedge the drain |
| Promotion, policy, `memory/src/promotion.ts` | record lifecycle | propose, decide, retire | memory store | gates cannot be skipped |
| Graph extraction queue, `memory/src/graph-extraction-queue.ts` | jobs | enqueue, claim, settle | memory store | one claim per job |
| Backup and migrations, `memory/src/backup.ts`, `migrations.ts` | stage, previous and live directories | backup, restore, migrate | memory store | a failed restore restores |
| Enrichment, `mcp/src/enrichment.ts` | model-written summaries, staleness | save, merge, mark stale | soul, lock | a summary of old code is marked |
| Soul store, incremental update, `core/src/soul-store.ts`, `pipeline/src/update.ts` | node and edge shards, manifest (anchor, generation, stamp); the derived index | load, update (dirty, scoped), index, commit | lock, parsers, git, readers, index | a committed change is never skipped; incremental draws what full draws; a stale reader can tell; the index does not drift |
| MCP verbs, memory API, recall; parsers; index, embeddings, UI; CLI, installers | derived or none | reads, pure functions, formatting | all | sequential: conventional tests reach it |

Hard behaviours: interleavings of processes at single system calls (lock, store); several files
written in an order, with a crash between any two (freshness, capture, soul); a stalled owner that
wakes up (freshness); state read before an `await`, a callback or a lock and used after it
(coordinator, sync, capture, soul); memos of what another process rewrites (store); lossy, late and
repeated delivery (sync). `PROJECT.json` lists each at its line under "hazards".

How the models meet: every component takes its locks as given and CribLock is about the lock; the
coordinator's sources are what SoulUpdate's commit leaves on disk; the child of FreshnessWorker runs
SoulUpdate's update; the capture queue and the sync engine write through holds of MemoryStore.

## Modules

Each component has its specification, an MC module that only instantiates it (with `SYMMETRY` where
the run uses it), and a module of proofs.

**CribLock** models `CribLock` at the granularity of system calls. `file` is the lock file: whether
it exists, the pid in it (`NoPid` between the exclusive create and the pid write), its mtime as a
stamp and whether it is older than `staleMs`. `pc` is the position of each process between two
calls, `judged` what `staleness()` found, `ino` the descriptor through which the pid is written even
after the path was unlinked. `Create`/`WritePid` are `tryCreate`, `Stat`/`Judge` are `staleness`,
`Restat`/`Reread`/`Unlink`/`Recreate` are `steal`, `Release`/`ReadOwn`/`UnlinkOwn` are `release`;
`Retry` is the loop's `continue` and its end. `CallFails` is a system call that fails in a process
that goes on: the create throws (`OpenFails`), the write or the close after it throws and leaves the
file (`WriteFails`), `staleness` takes a failing stat for a vanished file (`StatFails`), an
unreadable pid is none (`ReadFails`), `steal` goes on to its create (`StealFails`), `release`
swallows what it cannot do (`ReleaseFails`). `failed` remembers who saw one. Stamps are reused when
nobody remembers them, which keeps the state finite without bounding acquisitions. An equal mtime of
two different files (a clock of coarse granularity) is not modelled. `Age` lets a file grow stale
only when its creator is dead or has left it behind: critical sections are assumed shorter than ten
minutes. `MutualExclusion` is stated for histories in which no failed call left a file that may age:
such a file is taken for a dead holder's while its creator lives.

**FreshnessWorker** has one variable per durable file and one per local of a worker process. A
critical section under a lock is one step (that the locks exclude each other is CribLock's subject),
but where it makes two durable writes a crash may fall between them: `ClaimCrash` (lease, then
queue), `ActivateCrash` (generation, then state), `RequeueCrash` (state, then queue). `start()` is
`Start` (election), `Recover`, `FinishStart`; `run()` is `Claim`, the child's `ChildUpdate`,
`ChildStage` or `ChildFail`, then one of `Discard`, `Activate`, `Requeue`, `Aborted`. `Heartbeat`
reads all cancel requests and `Sweep` handles them one at a time with nothing else of that process
in between, as the synchronous loop does. Pids of dead processes become `DeadPid`; a generation
records both the head it is stamped with and the head its content was built from. `accepted`,
`cancelled` and `voided` are history variables: a cancellation is carried out (`CarryOut`) when the
sweep, or the command with no live worker, acts on it, and it voids the id unless another entry of
the same commit is left. `CancelledNotPublished` is stated for histories in which no worker was lost
(`NoWorkerLost`: no crash, no expired lease). Wall-clock time is `BackoffElapses` and `LeaseExpires`.

**RefreshCoordinator** is one JavaScript thread: what happens between two awaits is one step. The
nested calls (`publish` calls `maybeSwap`, `release` calls `maybeSwap`, which calls
`requestRefresh`, ...) are operators from the coordinator's record to its next value, composed in
the order of the code, and `Parse`, `BuildGraph`, `Finish`, `Fail` are the segments of `refresh()`.
Sources are version numbers; a bundle records the capture it is labelled with and the content it was
really built from, so that a property can compare them. `Wire` is cmdServe building Verbs and
setting the adopter, `Begin`/`End` the pin router, `WriteMemory` a verb whose store listener asks
for a refresh, `ObserverThrows` a cycle whose observer throws once its candidate is published. An
`Edit` changes the working tree, or takes it back to an earlier content, which `reverts` counts:
`PublishedFaithful`, and the part of `HonestFreshness` that compares contents, speak of histories
without a return. Reading the dirty files is one step, so a parse of a mix of two versions is not
represented; an adopter that throws is left out (cmdServe's cannot).

**SyncEngine** is a set of devices and a dumb object store. A runner is one command of the CLI on
one device; it takes a step per `await` and per lock hold, and several may run on one device.
`store`, `outbox`, `acked`, `pulled`, `conflicts`, `quarantine` and `keyEpoch` are a device's files,
`key` its configuration, `blobs`, `batches` and `manifest` the remote. Ids are hashes of contents
and are their contents here. `Sweep`, `Put`, `Stamp`, `PutBatch`, `Ack` are the phases of
`pushSync`, and `SweepAborts` and `PutAborts` its two ways out at a secret; `StartPull`,
`OpenBatch`, `Pass`, `Halt`, `Quarantine`, `Apply`, `Upsert`, `SavePull` are `pullSync` and the apply
law: `Apply` looks for a local version without the store's lock, `Upsert` is the hold that inserts,
and other commands and writes of the device may come in between;
`StartRotate` to `WriteConfig` are `rotateSyncKey` and the command around it, the drain in the
middle being a push; `StartPurge`, `DeleteStale` are `purge-sync --stale-epoch`. A device may write,
rewrite, compact, install a scanner that knows more secrets, or lose its outbox. `Disciplined` says
whether operators follow the order that docs/memory-sync.md, "Key rotation", demands. Several of the
remote's replies are nondeterministic under the fault `late` (listed, but not returned yet).

**ReplicaSet** is what sync promises of the entries, without runners, keys or batches: a delivery is
decided (`Decide`) only where the device has no version of the entry, and what arrives, and what is
recorded as a conflict, was written by some device. A version the device writes between the decision
and the insertion (`Deliver`) may be replaced: the code gives no more ("Known divergences").
`SyncEngine!ImplementsReplicaSet` is the refinement, with `offered` the events of the objects that
are there and `written` a history.

**CaptureQueue** has the outbox row of each capture, what is staged, active and dead, the attempts,
the stop marker `distill-state.json`, and one record per drain. A hold of the store's lock is one
step, with a variant that dies between its writes (`ObserveDies`, `AdmitDies`, `DismissDies`,
`Die`). A cycle of `crib memory distill` is `Offer` (the queue is read without a lock), `Answer` (the
provider), `Take` or `Busy` (the crib lock), then for each item of the batch `Count`, `Append`,
`Bury`, `Remove` or `Write`, `Stamp`, `Mark`, and `Release`, `Close`. `Stamp` and `Mark` are the two
writes of one hold in `applyVerifiedDecision`: the first writes the entry as it was read before the
provider was asked, pending, over whatever the row has become. `finished` remembers who was done or
dead, `cut` who a death left between the two. What the provider may answer is what
`verifyDistillDecision` accepts in that state (`Verdicts`).

**MemoryStore** has the entries on disk, the files that exist and `store.gen`; of each process, the
memo of each shard with the generation it is filed under. A reader takes the generation (`StartPass`)
and then shards, without a lock; a writer takes the lock, finds entries through its own memo
(`Found`), and then replaces files one by one (`Write`) and bumps the generation (`Bump`), after each
file or once, by lane. `Die` and `Throw` are a death and a failing flush; `Torn` names the lanes in
which they may fall between a file and its bump.

**SoulUpdate** has HEAD, the working tree, the node and edge shards, the manifest, the index, and
per process what it loaded and what it will write. Files go through numbered contents, each with the
set of files it refers to, so that an edge is a pair of files. `Open` and `Load` are `openSoul`,
which precedes the lock as in `cmdUpdate`; `Look`, `Diff`, `Parse`, `Extract` are `updateRepo`;
`Reindex`, `Parse`, `ExtractAll`, `Stamp` are `cmdIndex`; the sources are read twice, to parse them
and, after the awaits of the parsers, to resolve their references, and may change in between;
`Commit`, `WriteNodes`, `WriteEdges`, `WriteManifest` are `soul.commit`, node shards before edge
shards before the manifest; `WriteIndex` is what `cmdUpdate` does to the index. A reader
(`ReadManifest`, `ReadNodes`, `ReadEdges`) loads as `captureSource` does. `torn` remembers that a
commit died in the middle: what the properties say of the graph then waits for the next complete
commit.

## Runs

| Run | Instance | What it shows |
|---|---|---|
| lock_selfheal | 2 processes, 1 crash, 1 failing call, 2 attempts, win32 errors, ageing | exclusion of two contenders, no stranded file, self-healing, with the crash and the failure at every system call, the pid-less file included |
| freshness_safety | 2 workers, 1 project, 2 commits, 1 each of enqueue, cancel, crash, stop, stall; crash windows all open | the fence, the claim, what a publication settles, that what was cancelled is not published, publication order |
| freshness_live | 2 workers, 2 enqueues, 1 crash, 1 stall, windows claim and activate | nothing accepted is lost; it settles |
| refresh | 2 requests, 3 bundles, 1 edit, 1 return to the content before it, 1 canonical update, 1 memory write, 1 failing build or observer | the safety of bundles, honest freshness, convergence |
| sync | 2 devices, 3 runners (two on one device), two versions of one record | the cursor means what it says, concurrent commands keep each other's rows, the refinement of ReplicaSet |
| sync_live | 2 devices, 2 runners, compaction, lost outboxes, one device whose scanner comes to refuse its version | every entry is settled on every device |
| sync_rotate | 2 devices, 2 runners, one mortal; push, backfill, capped push, pull, rotation, purge, late remote, disciplined operators | acked events stay on the remote through a rotation and a purge; the staged ones are under the new key |
| capture | 1 capture, 2 mortal drains, observers and operators that may die, up to 4 failing answers | nothing lost, what is finished stays finished, attempts numbered apart |
| capture_live | 2 captures in one batch, 1 drain, one capture that keeps failing | the other one leaves the queue |
| store | 2 mortal processes, 2 entries in one shard and 1 in a graph shard, 2 marks, all four lanes, 3 generations | honest memos, no lost update, acknowledged work kept |
| soul | 1 updater that may die between shards, 1 reader, 2 files in 2 shards; one file is deleted and comes back; scopes, dirty and full updates | no commit skipped, no phantom edge, an extraction keeps the edges it did not drop, stale readers notice |
| soul_drift | 1 updater that may die before its index write | *violation* of `NoDrift` |

Bounds. Two contenders, one of which dies or fails, are what exclusion holds for; a dead holder and
two more are the smallest instance in which it does not ("Known divergences"). Two workers are a
predecessor and its successor, two heads an old and a new result, one crash or stall of each kind
one takeover at every point; `MaxAttempts = 2` reaches both the retry and the dead letter. Three
bundles are the most that are open together (serving, waiting, candidate); two requests are needed
for pins to overlap. One edit and one return move the sources both during a build and after it, and
back. Two devices with one version each of one record are the smallest conflict, a third runner the
smallest concurrency on one device, two keys and three epochs a rotation on each device. Two drains
are the smallest race on one attempt number, four failures exceed the limit from two drains at once.
Two entries of one shard are the smallest lost update, three generations a write over a write over a
memo. Two files are a reference and its target; contents 0, 1, 2 of the target are there, gone and
back. Every bound is a named constant of its module, spent in a guard, and each run's instance was
grown until the mutants of `PROJECT.json`, plausible mistakes in the code, were caught.

`CHECK_DEADLOCK FALSE` stands where the system may stop: those runs end when their bounded
environment has nothing left to do.

Where a property holds only as long as something does not happen, either its definition says so (what
a failed call leaves behind ages, a worker is lost, sources return to an earlier content) or the
instance leaves it out: the window `requeue` in freshness_live, a third process in lock_selfheal,
`late` in sync, compaction and a second runner of a device in sync_rotate, `Torn` in store, a queue
longer than one batch in capture_live, `Races`, `Reverts` and a second updater in soul. In each case
the code then does what the property denies; "Known divergences" has the instance that shows it.

## Fairness

- Lock: each living process keeps running, and time passes (`Age`). `TryCreate` is strongly fair:
  win32's delete-pending error does not hit every single create. Crashes are not fair. Acquiring
  again stands for callers that retry: `withFreshnessLock` spins, a user runs the command again.
- Freshness: an operating-system service restarts the worker (`Start`), its loops and its child
  make progress (`Work`), the heartbeat timer fires, a sweep under way goes on, backoff elapses.
  `ChildFail`, faults, commits, enqueues and cancellations are not fair: a child may fail for ever,
  and then ends in the dead letters.
- Coordinator: builds resolve, the fallback interval fires (`Trigger`), requests are answered
  (`End`). Adoption needs a moment without requests, which nothing in the code guarantees, so
  `Converges` is conditional on the requests draining infinitely often. It has one exception: a
  cycle whose observer throws does not remember the capture it has just published (483-498), and
  sources that then return to the capture before it are taken for unchanged.
- Sync: a command that runs goes on (`Goes`), and on every device somebody keeps pushing all and
  keeps pulling with `--skip`; these are commands an operator or a timer repeats, strongly fair since
  a push may be kept from starting while another runs. Writes, upgrades, losses and compaction are not
  fair; crashes end some day.
- Capture: a drain goes on and is offered the queue again and again (`Offer`, `Take` are strongly
  fair since another drain may hold the crib lock in between), the provider answers, and deaths end
  some day. Observers and operators are not fair.

## Proofs

All theorems hold for every value of the constants that the named assumptions (`LockAssumption`,
`FreshnessAssumption`, `NoTaskAssumption`, `RefreshAssumption`, `SyncAssumption`,
`CaptureAssumption`, `StoreAssumption`, `SoulAssumption`) allow; TLC evaluates these assumptions in
each run.

- `CribLockProofs`: `TypeCorrect`; `ExclusionWithoutCrashes`, for any number of contenders and
  failing calls when no process dies. Exclusion is not inductive by itself. The invariant adds that a
  process between its create and its release owns the file on disk (through its stamp), that such a
  file is neither old nor of a dead pid, and hence that no contender ever gets past `Judge` to a file
  that is owned. With crashes and three contenders the theorem is false.
  `LivingHoldersStrandNothing` (`NoStrandedLock`), with any number of crashes and failing calls: the
  invariant (`StrandInv`) says that a descriptor is unique (`Descriptors`), that the file on disk is a
  real one, that a file naming a process without fault is that process' own, still to be released
  (`NamedFile`), and that an empty one is about to be written or somebody's failure (`EmptyFile`).
- `FreshnessWorkerProofs`: `TypeCorrect`; `FencedPublication` (`NeverRegresses`);
  `LastKnownGoodTrue`; `PublicationsSettleTheClaim`. The fence needs more than "only the owner writes": a
  run of the owner was claimed after everything published by its predecessors, so what the child
  processed and what it reports are at least what is published. The invariant (`FenceInv`) says that
  of the owner's finished run (`OwnerIsCurrent`), that a finished run processed at most the head
  it reports, and reports at most the newest (`RunKnown`), that nothing published is ahead of its project
  (`PublishedKnown`) and that the last known good head is backed by a publication.
  `ClaimsNeverLeak` (`ClaimMatchesRun`) needs, for each phase between a claim and its end, whether
  the state file still names the task (`Claimed`). `PublicationsSettleTheClaim` (`PublishesItsClaim`)
  combines the two, with what a finished run processed (`RunCovers`). `CancellationsHold`
  (`CancelledNotPublished`): as long as no worker is lost, whoever runs owns the lease and works on
  its task (`Undisputed`), and what was cancelled is in no queue and in no run but the one that was
  told to stop (`VoidedGone`). `NothingAcceptedIsLost` (`NoTaskLost`) assumes
  `"requeue" \notin CrashWindows`, one of the divergences below. That the newest head is somewhere is
  not inductive: the invariant adds that when it is in the lease and nowhere else, the owner has
  neither recovered nor cancelled it yet (`Kept`, `OnlyLeased`, `Held`), that no task names a head its
  project does not have and that a staged result processed at least its task's head (`TasksKnown`),
  on top of the fence and of `ClaimInv`.
- `RefreshCoordinatorProofs`: `TypeCorrect`, `ServedBundlesOpen`, `BundlesOwned`,
  `RequestsNotTorn`, for any finite set of requests and any bundles. Each method has a lemma on the
  record it returns, under `Good`: what serves or waits is open, the candidate is open and not
  visible, nothing else is open. `RequestsNotTorn` needs the pin count to be the number of requests
  in flight, which is the last conjunct of `IInv`, and cites the library's facts on cardinality.
  `NewestAlwaysReported` (`NewestReported`) needs that what the coordinator compares with is the
  capture of the last publication unless a cycle failed (`Latest`), whatever the sources do.
  It is part of `FreshnessHonest` (`HonestFreshness`), whose other part, like `PublicationsFaithful`,
  holds as long as no content has returned. The invariant (`Honest`) bounds what a build may have read
  from both sides (`Bracketed`): it is no older than the capture taken before it and no newer than the
  sources, so that a re-check that sees the capture again has seen nothing else in between; what is
  published is what it is labelled with (`Faithful`).
- `SyncEngineProofs`: `TypeCorrect`; `LedgersOnlyGrow`; `AcksAreDurable`, without a purge: a runner
  in the phases of a push has put what it is about to list, and has listed what it is about to ack
  (`Promise`), and what a device acked is backed by a batch. `CursorIsHonest`, without a purge and
  with a remote that returns what it lists: a pull in progress has settled what it has passed
  (`Fetched`), on top of the first invariant, and nothing settled becomes unsettled.
  `RosterFollowsTheKey` (`RosterCurrent`) and `AcksOutlivePurges` (`AckedIsDurable` with purges) share
  one invariant (`RosterInv`): what is acked and staged is on the remote, and listed, under the key
  its device uses now (`Covered`); a push works under that key and acks what it listed (`Pushing`);
  a rotation past its drain has put, or has still to put, all of the roster under the next key
  (`Rostering`); a purge deletes only objects older than every device's key (`Keyed`, `Spared`); and
  what is staged came from the device's own store, where a decision is written once (`Origin`), so
  that nothing acked is staged anew behind the rotation's back. `RosterAssumption` names what this
  takes: one command at a time on a device, purges by the docs' discipline, no backfill where events
  are compacted or lost; `AcksOutlivePurges` also assumes that the outbox keeps what is acked
  (`NothingDropped`). TLC refutes one of the two properties without any one of these ("Known
  divergences"), and checked `RosterInv` on the instance of sync_rotate, on one
  with compaction and lost outboxes and on one without the discipline, before it was proved.
  `EngineImplementsReplicaSet` maps each action to one of ReplicaSet or a stutter: `Apply` decides,
  `Upsert` delivers, a death forgets. It needs that what is on the remote, what a pull is about to
  insert, and the conflict rows it carries were written by somebody.
- `CaptureQueueProofs`: `TypeCorrect`; `NoCaptureLost` from `Landing` (a row is done, and a drain is
  about to mark it, only once something landed); `FinishedStaysFinished` (`TerminalStays`), from
  `Landing` and a row that is not pending unless a drain is in its mark, or died there (`Terminal`);
  `AttemptsNumberedApart` and `DeathsEarned` (`DeadEarned`: a capture is dead by an operator's word or
  by `MaxAttempts` recorded failures) from `Counting` (one drain at a time is past `Take`; the
  attempts of a capture are 1 to the number of failures; a drain that counted holds the next one).
- `MemoryStoreProofs`: `TypeCorrect`; `CacheIsHonest`, `AckedIsKept`, `NoLostUpdate`, all for
  `Torn = {}`. The invariant: nothing is filed under a generation to come (`Past`), memos under the
  current one are the disk but for files that await their bump (`CacheHonest`), the holder will write
  the disk's content for entries that are not its own (`Plans`), acknowledged work is there.
- `SoulUpdateProofs`: `TypeCorrect`; `ReferrersKeepEdges`; `CommittedNeverSkipped`, for one updater
  (`Solo`), when files do not return to old contents and HEAD rests while a full index extracts. The
  invariant (`Anchored`) says of each phase of each process what its graph, its anchor and what it has
  written so far reach: whatever is stored of a file is at least as new as any anchor that could be
  stamped, or the anchor still differs from HEAD in it.
  `StaleReadersAlwaysNotice` and `NoPhantomEdges` are for one updater (`Solo`), which may die at any
  shard, and any readers; with two updaters the second is false (below). The first rests on
  `SoloInv`, by which a commit that changes nothing writes nothing, and each phase of a commit has
  written what its run holds (`Clean`, `Synced`, `OnDisk`, `NoopWritesNothing`), and on `ReaderInv`: a
  reader under the manifest's fingerprint has what is on disk, unless a write is under way or was torn
  (`Current`). The second also assumes that contents do not return and HEAD rests while a full index
  extracts; its invariant says that every edge was drawn from a content of its source between the
  anchor and the working tree (`Grounded`) and that no stored file is ahead of the tree (`Behind`),
  so that with anchor, HEAD and tree equal, and `Anchored`, the edges are those of the tree.

Every invariant and action property that a run checks is the property of a theorem. Only
model-checked: the liveness properties (`SelfHeals`, `EventuallySettled`, both `Converges`,
`NoWedge`), since fairness and ENABLED are out of the prover's reach. No module
declares a RECURSIVE operator and nothing is proved by induction over data.

## Finding

`cli/src/cli.ts:2602` (run soul_drift): the index an update opens may be of any generation
(`allowStale`, line 2600); the update applies its own delta (2601) and stamps the soul's generation
(2602-2603). If an earlier update died between its soul and its index, its delta is nowhere: the next
one computes a delta against a soul that already has the change, and the index claims to be current
with the old nodes. docs/storage.md:55-56 promises "no soul↔index drift possible". `crib reindex`
repairs it; nothing asks for it, since the generations agree.

## Known divergences

Each of these was seen with TLC in the modules as they are; no run is kept for them. The constants
that are not given are those of the run named. What no run checks (`AtMostOnePending`,
`StampedHonestly`, `OneGraphPerRequest`, `LocalCopyRetained`, `DeadIsMissing`) stands in its module
with a comment that says what refutes it.

| Where | Instance | What fails |
|---|---|---|
| `core/src/lock.ts:225`, against lines 4-6 and 131 | lock_selfheal with 3 processes, `MaxFailures = 0`, `MayAge = FALSE`, `Windows = FALSE`, stamps 1..7 | `MutualExclusion`: steal() compares and then unlinks by path, so the second of two contenders that judged one dead holder removes the lock of the first |
| `core/src/lock.ts:171-175` and 210 | lock_selfheal, `MutualExclusion` without its premise | the file that a failed write or close leaves behind ages, and a contender that has compared it removes the one created after another contender reclaimed it |
| `cli/src/freshness.ts:977`, against 502-503 and 864-865 | freshness_live with 1 worker, `MaxEnqueues = 1`, `CrashWindows = {"requeue"}` | `NoTaskLost`: the failure path clears the lease durably before the queue has the task back |
| `cli/src/freshness.ts:984`, against 291-292 and 520 | freshness_live with 1 worker, no crash, no stall | `AtMostOnePending`: a retry does not look for a pending entry of its project |
| `cli/src/cli.ts:3932`, against 3931 and `freshness.ts:924-925` | the same, `MaxEnqueues = 1` | `StampedHonestly`: the head reported is read after the update, not the one it processed |
| `cli/src/freshness.ts:818`, against 958-960 and 502-503 | freshness_safety, `CancelledNotPublished` without `NoWorkerLost` | the sweep consumes the request when it aborts the child; a worker that dies before the run has ended leaves the claim, and its successor runs and publishes the task |
| `cli/src/refresh-coordinator.ts:476`, against 99-101 | refresh with 1 request, `PublishedFaithful` without `reverts = 0` | sources that change and change back during a build are not seen by the re-check |
| `cli/src/refresh-coordinator.ts:522`, against 520-521 and `mcp/src/server.ts:153-154` | refresh with 1 request | `OneGraphPerRequest`: a cycle reloads the store Verbs reads as `soul` ahead of its bundle |
| `memory/src/sync/engine.ts:915`, against 882-883 | sync | `LocalCopyRetained`: a pull that found no local version (884) inserts in a later hold and replaces the version written in between, without a conflict |
| `memory/src/sync/engine.ts:734` and 811, against `docs/memory-sync.md:294-296` | sync with `Faults = {"late"}` | `CursorHonest`: an object that is listed in a batch and not returned yet is reported, its batch is recorded as pulled all the same, and it is never fetched again |
| `memory/src/sync/engine.ts:1164`, against 1157-1158 ("the outbox retains the staged lines") | sync_rotate with `compact` in `Ops` | `AckedIsDurable`: compaction takes acked lines off the outbox, the next rotation's roster lacks them, and the purge after it deletes their last object. `RosterCurrent`: a backfill stages them again, acked as they are, and has put nothing yet when it dies |
| the same | sync_rotate with a third runner on d1 | `RosterCurrent`: a push that loaded the old key acks after the rotation of the same device took its roster |
| `memory/src/distill.ts:711`, against `outbox.ts:257-258` | capture without deaths | `DeadIsMissing`: a capture is admitted while drains hold failing answers for it, and is buried although the ledger has it |
| `cli/src/cli.ts:7277` (the marker: 7275, 7371-7374), against 7217-7219 | capture_live with `BatchSize = 1` | `NoWedge`: a head of the queue that fails leaves the marker, and every later cycle stops at it until another capture changes the queue: what is behind the head is not offered, and the head gets no second attempt |
| `memory/src/store.ts:1478`, against 1377-1380 | store with `Torn = {"submit"}`, `Lanes = {"submit"}`, both shards graph shards | `AckedKept`: a file in place without its bump is invisible to memos, and the next submission rewrites the shard without it |
| `pipeline/src/pipeline.ts:188` | soul with `Races = TRUE` | `NothingSkipped`: a full index reads HEAD after it has extracted; a commit in between is anchored and not extracted |
| `pipeline/src/update.ts:275-276` | soul with `Reverts = TRUE` | `NoPhantoms`: an uncommitted edit that a dirty update or a full index extracted and that is then undone is in no later diff |
| `cli/src/cli.ts:2538` and 2549 | soul with two updaters, `Ops = {"update", "index"}`, no reader and no death | `NoPhantoms`: the soul is loaded before the lock is taken, so an update writes back what it loaded before another command committed |

Also met: `core/src/lock.ts:156` says that a failed unlink in `release` "leaves a stale lock the next
acquire recovers from", but the file names a process that may live on, and is recovered from only when
that process ends or the file is older than `staleMs`. Left out of the model:
`core/src/working-overlay.ts:145-149` reads its fingerprint after its shards, the order in which
`StaleReadersNotice` fails (mutant `ReadEdges_ThenManifest`); a full index starts its generation again
at 1 (`cli.ts:1307-1325`), so that an old index of generation 1 looks current if it dies before its
own index; a commit that only prunes dangling edges does not move the generation
(`soul-store.ts:373-388`).

## Plan

Done: the components above. Next:

1. Abstract specifications of the others as ReplicaSet is for sync: `Mutex` implemented by CribLock
   without crashes, `Publication` (a monotone register per project) by FreshnessWorker, an atomic map
   by MemoryStore. Lock and freshness composed, to see the first divergence reach the queue.
2. Components: the leases of `graph-extraction-queue.ts`, `Restore` (the rename chain of backup.ts),
   `Enrichment`, promotion.

## Not modelled

Parsers, resolvers, ranking, embeddings and UI: pure or derived data out of TLC's reach, and most of
the repository's lines. CLI, installers, hooks: input and output. The rest of the inventory is in the
plan. Within the modelled components: contents of files beyond what decisions read; age pruning of
cancel requests and staged results (a day); the staged file, which nothing reads back; a corrupt
queue file, which atomic renames exclude; pid reuse by the operating system; purge marks, dry runs
and foreign payloads in sync; compaction of shards to nothing and store migration; the text of
captures and decisions; `--since`, clusters, links, owners and artifacts of the soul, which are
functions of its graph.
