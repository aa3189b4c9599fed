----------------------------- MODULE SyncEngine -----------------------------
(***************************************************************************)
(* Cross-device sync of memory entries (packages/memory/src/sync): each    *)
(* device derives events from its store, pushes them encrypted to a dumb   *)
(* object store and pulls the batches it has not seen.  A command of the   *)
(* CLI (a runner) takes a step per await and per lock hold; several may    *)
(* run on one device.                                                      *)
(*                                                                         *)
(* Ids are content hashes, so they are their content here: an event is the *)
(* entry it wraps (deriveEventId), an object under ev/ is the event and    *)
(* the key that routes and encrypts it (routeKeyFor), a batch is the set   *)
(* of the route keys it names (batchIdFor).  Lists are sorted by hash: Hash *)
(* is that order for events and objects; the order of batches is left open.*)
(* purgeAcks, which no decision reads, is left out.                        *)
(***************************************************************************)
EXTENDS Integers, FiniteSets

CONSTANTS
    Device,
    Runner,         \* commands in progress: processes of the CLI
    Home,           \* the device a runner runs on
    Entry,          \* versions of entries: records with an id and bytes
    Hash,           \* the order of their events' ids
    Decisions,      \* entries whose write stages its event at once (stage.ts)
    Restricted,     \* entries admissionForSync refuses
    Baseline,       \* what each device held when init-sync seeded it
    MaxKey,         \* keys: 1, then the key of each rotation
    MaxEpoch,       \* a device starts rotations below this epoch only
    NoManifest,
    Ops,            \* the commands the operators use
    Mortal,         \* runners that may die
    Faults,         \* lose: an outbox is lost; late: the remote may list an
                    \* object before it returns it
    Disciplined,    \* do operators follow docs/memory-sync.md, "Key rotation"?
    Authors,        \* the entries each device may write
    Flags           \* the entries a later scanner of a device may refuse

Key == 1 .. MaxKey
Route == [evt : Entry, key : Key]
Batch == SUBSET Route
Commands == {"push", "backfill", "pull", "skip", "rotate", "purge", "compact", "cap"}

ASSUME SyncAssumption ==
    /\ Home \in [Runner -> Device]
    /\ Hash \in [Entry -> Nat]
    /\ Decisions \subseteq Entry
    /\ Restricted \subseteq Entry
    /\ Baseline \in [Device -> SUBSET Entry]
    /\ \A d \in Device : \A e, f \in Baseline[d] : e.id = f.id => e = f
    /\ {MaxKey, MaxEpoch} \subseteq Nat \ {0}
    /\ NoManifest \notin [key : Key, epoch : Nat]
    /\ Ops \subseteq Commands
    /\ Mortal \subseteq Runner
    /\ Faults \subseteq {"lose", "late"}
    /\ Disciplined \in BOOLEAN
    /\ {Authors, Flags} \subseteq [Device -> SUBSET Entry]

VARIABLES
    store,      \* the entries a device holds, at most one version of each id
    outbox,     \* sync-outbox.jsonl: staged events
    acked, pulled, conflicts, quarantine, keyEpoch,     \* sync-state.json
    key,        \* the key the sync config refers to
    flagged,    \* what the secret scanner of the device's release refuses
    replaced,   \* history: versions written over on the device
    blobs, batches, manifest,                           \* the remote
    run         \* what each runner has in memory, and where it is

device == <<store, outbox, acked, pulled, conflicts, quarantine, keyEpoch,
            key, flagged, replaced>>
remote == <<blobs, batches, manifest>>
vars == <<device, remote, run>>

Phases == {"idle", "sweep", "put", "batch", "ack",
           "roster", "reput", "manifest", "save", "config",
           "fetch", "upsert", "delete"}

Idle == [at |-> "idle", op |-> "idle", key |-> 1, epoch |-> 1, known |-> {},
         todo |-> {}, done |-> {}, unseen |-> {}, opened |-> {}, routes |-> {},
         rows |-> {}, held |-> {}]

Run == [at : Phases, op : Commands \cup {"idle"}, key : Key, epoch : Nat,
        known : SUBSET Entry,       \* ackedEvents as loaded before the lock
        todo : SUBSET Entry,        \* events still to put, or found absent here
        done : SUBSET Entry,        \* events put, or already seen in this pull
        unseen : SUBSET Batch,      \* batches listed and not yet read
        opened : SUBSET Batch,      \* batches whose manifest was read
        routes : SUBSET Route,      \* objects still to fetch, or to delete
        rows : SUBSET Entry,        \* conflicts found by this pull
        held : SUBSET Entry]        \* events this pull quarantines

TypeOK ==
    /\ {store, outbox, acked, conflicts, quarantine, flagged, replaced}
           \subseteq [Device -> SUBSET Entry]
    /\ pulled \in [Device -> SUBSET Batch]
    /\ keyEpoch \in [Device -> Nat]
    /\ key \in [Device -> Key]
    /\ blobs \subseteq Route
    /\ batches \subseteq Batch
    /\ manifest \in [key : Key, epoch : Nat] \cup {NoManifest}
    /\ run \in [Runner -> Run]

(***************************************************************************)
(* init-sync (seedSyncBaseline): every current entry acked, or none of     *)
(* them with --backfill.                                                   *)
(***************************************************************************)
Init ==
    /\ store = Baseline
    /\ acked \in {a \in [Device -> SUBSET Entry] :
                     \A d \in Device : a[d] \in {Baseline[d], {}}}
    /\ outbox = [d \in Device |-> {}]
    /\ pulled = [d \in Device |-> {}]
    /\ conflicts = [d \in Device |-> {}]
    /\ quarantine = [d \in Device |-> {}]
    /\ keyEpoch = [d \in Device |-> 1]
    /\ key = [d \in Device |-> 1]
    /\ flagged = [d \in Device |-> {}]
    /\ replaced = [d \in Device |-> {}]
    /\ blobs = {}
    /\ batches = {}
    /\ manifest = NoManifest
    /\ run = [r \in Runner |-> Idle]

RouteOf(e, k) == [evt |-> e, key |-> k]
Routes(events, k) == {RouteOf(e, k) : e \in events}
First(e, events) == \A f \in events : Hash[e] <= Hash[f]
FirstRoute(k, routes) == \A l \in routes : Hash[k.evt] <= Hash[l.evt]
Versions(d, id) == {e \in store[d] : e.id = id}

Loaded(r, op, at) ==
    [Idle EXCEPT !.at = at, !.op = op, !.key = key[Home[r]],
                 !.epoch = keyEpoch[Home[r]]]

Become(r, next) == run' = [run EXCEPT ![r] = next]
Finish(r) == Become(r, Idle)

-----------------------------------------------------------------------------
(* The device's own life. *)

\* A write through the store; a decision or feedback stages its event in the
\* same lock hold, and the store's own gate refuses what the scanner flags.
Write(d, e) ==
    /\ e \in Authors[d] \ flagged[d]
    /\ Versions(d, e.id) = {}
    /\ store' = [store EXCEPT ![d] = @ \cup {e}]
    /\ outbox' = IF e \in Decisions THEN [outbox EXCEPT ![d] = @ \cup {e}] ELSE outbox
    /\ UNCHANGED <<acked, pulled, conflicts, quarantine, keyEpoch, key, flagged,
                   replaced, remote, run>>

\* A record updated in place keeps its id and is another event.
Rewrite(d, e) ==
    /\ Versions(d, e.id) \cup {e} \subseteq Entry \ Decisions
    /\ e \in Authors[d] \ (flagged[d] \cup store[d])
    /\ Versions(d, e.id) # {}
    /\ store' = [store EXCEPT ![d] = (@ \ Versions(d, e.id)) \cup {e}]
    /\ replaced' = [replaced EXCEPT ![d] = @ \cup Versions(d, e.id)]
    /\ UNCHANGED <<outbox, acked, pulled, conflicts, quarantine, keyEpoch, key, flagged,
                   remote, run>>

\* A release whose scanner knows more secrets is installed on the device.
Upgrade(d, e) ==
    /\ e \in Flags[d] \ flagged[d]
    /\ flagged' = [flagged EXCEPT ![d] = @ \cup {e}]
    /\ UNCHANGED <<store, outbox, acked, pulled, conflicts, quarantine, keyEpoch, key,
                   replaced, remote, run>>

\* sync compact: the outbox keeps what is not acked.  One lock hold.
Compact(d) ==
    /\ "compact" \in Ops
    /\ outbox[d] \cap acked[d] # {}
    /\ outbox' = [outbox EXCEPT ![d] = @ \ acked[d]]
    /\ UNCHANGED <<store, acked, pulled, conflicts, quarantine, keyEpoch, key, flagged,
                   replaced, remote, run>>

\* "a lost outbox, or a corrupt log" (docs/memory-sync.md)
LoseOutbox(d) ==
    /\ "lose" \in Faults
    /\ outbox[d] # {}
    /\ outbox' = [outbox EXCEPT ![d] = {}]
    /\ UNCHANGED <<store, acked, pulled, conflicts, quarantine, keyEpoch, key, flagged,
                   replaced, remote, run>>

-----------------------------------------------------------------------------
(* Push. *)

Clean(d) == batches \subseteq pulled[d]

\* "Never pull mid-rotation"; nor push: it "would wedge the outbox".
OneKey == \A d, x \in Device : key[d] = key[x]
Steady == OneKey /\ \A r \in Runner : run[r].op # "rotate"

\* State and key are loaded and the backend is probed before the lock is taken.
StartPush(r, op) ==
    /\ run[r].at = "idle"
    /\ op \in {"push", "backfill"} \cap Ops
    /\ Disciplined => Steady
    /\ Become(r, [Loaded(r, op, "sweep") EXCEPT !.known = acked[Home[r]]])
    /\ UNCHANGED <<device, remote>>

\* Mutant: events are told apart by the record they are about.
ToStage_ByRecord(d, op) ==
    {e \in store[d] \ (outbox[d] \cup Restricted) : \A f \in acked[d] : f.id # e.id}

\* walkSyncableEntries, then the admission filter of the sweep.
ToStage(d, op) ==
    store[d] \ (outbox[d] \cup Restricted \cup (IF op = "backfill" THEN {} ELSE acked[d]))

\* What the drain plan takes: staged and not acked when the run began.
Pending(r) ==
    LET d == Home[r]
    IN  (outbox[d] \cup ToStage(d, run[r].op))
            \ (IF run[r].op = "backfill" THEN {} ELSE run[r].known)

\* Phase 1, one lock hold: stage what is neither pending nor acked, plan the
\* drain, up to --max-events of it.
Sweep(r, plan) ==
    LET d == Home[r]
    IN  /\ run[r].at = "sweep"
        /\ ToStage(d, run[r].op) \cap flagged[d] = {}
        /\ plan \subseteq Pending(r)
        /\ \A e \in plan, f \in Pending(r) \ plan : Hash[e] < Hash[f]
        /\ run[r].op = "rotate" \/ "cap" \notin Ops => plan = Pending(r)
        /\ outbox' = [outbox EXCEPT ![d] = @ \cup ToStage(d, run[r].op)]
        /\ Become(r, [run[r] EXCEPT !.at = "put", !.todo = plan, !.known = {}])
        /\ UNCHANGED <<store, acked, pulled, conflicts, quarantine, keyEpoch, key, flagged,
                       replaced, remote>>

\* A secret among what is to be staged ends the run; what the walk met before
\* it stays staged.
SweepAborts(r, before) ==
    LET d == Home[r]
    IN  /\ run[r].at = "sweep"
        /\ ToStage(d, run[r].op) \cap flagged[d] # {}
        /\ before \subseteq ToStage(d, run[r].op) \ flagged[d]
        /\ outbox' = [outbox EXCEPT ![d] = @ \cup before]
        /\ Finish(r)
        /\ UNCHANGED <<store, acked, pulled, conflicts, quarantine, keyEpoch, key, flagged,
                       replaced, remote>>

\* Phase 2, no lock: scan again, encrypt, put.
Put(r, e) ==
    /\ run[r].at = "put"
    /\ e \in run[r].todo \ flagged[Home[r]]
    /\ First(e, run[r].todo)
    /\ blobs' = blobs \cup {RouteOf(e, run[r].key)}
    /\ Become(r, [run[r] EXCEPT !.todo = @ \ {e}, !.done = @ \cup {e}])
    /\ UNCHANGED <<device, batches, manifest>>

\* The first push that put something names the key; an existing one stays.
Stamped(r) ==
    IF manifest = NoManifest /\ run[r].done # {}
    THEN [key |-> run[r].key, epoch |-> run[r].epoch]
    ELSE manifest

\* A secret met now ends the run with no batch and no ack.
PutAborts(r, e) ==
    /\ run[r].at = "put"
    /\ e \in run[r].todo \cap flagged[Home[r]]
    /\ First(e, run[r].todo)
    /\ manifest' = Stamped(r)
    /\ Finish(r)
    /\ UNCHANGED <<device, blobs, batches>>

Stamp(r) ==
    /\ run[r].at = "put"
    /\ run[r].todo = {}
    /\ manifest' = Stamped(r)
    /\ Become(r, [run[r] EXCEPT !.at = IF run[r].done = {} THEN "ack" ELSE "batch"])
    /\ UNCHANGED <<device, blobs, batches>>

\* Phase 3: one batch over the route keys of this run.
PutBatch(r) ==
    /\ run[r].at = "batch"
    /\ batches' = batches \cup {Routes(run[r].done, run[r].key)}
    /\ Become(r, [run[r] EXCEPT !.at = "ack"])
    /\ UNCHANGED <<device, blobs, manifest>>

\* Mutant: the route keys are acked, not the events.
Ack_Routes(r) ==
    /\ run[r].at = "ack"
    /\ acked' = [acked EXCEPT ![Home[r]] = @ \cup Routes(run[r].done, run[r].key)]
    /\ Finish(r)
    /\ UNCHANGED <<store, outbox, pulled, conflicts, quarantine, keyEpoch, key, flagged,
                   replaced, remote>>

\* Phase 4, one lock hold: the acks, last.
Ack(r) ==
    LET d == Home[r]
    IN  /\ run[r].at = "ack"
        /\ acked' = [acked EXCEPT ![d] = @ \cup run[r].done]
        /\ IF run[r].op = "rotate" THEN Become(r, [run[r] EXCEPT !.at = "roster"])
                                   ELSE Finish(r)
        /\ UNCHANGED <<store, outbox, pulled, conflicts, quarantine, keyEpoch, key, flagged,
                       replaced, remote>>

-----------------------------------------------------------------------------
(* Pull. *)

\* Loads the cursor, lists b/.
StartPull(r, op) ==
    LET d == Home[r]
    IN  /\ run[r].at = "idle"
        /\ op \in {"pull", "skip"} \cap Ops
        /\ ~Clean(d)
        /\ Disciplined => Steady
        /\ Become(r, [Loaded(r, op, "fetch") EXCEPT !.unseen = batches \ pulled[d]])
        /\ UNCHANGED <<device, remote>>

OpenBatch(r, b) ==
    /\ run[r].at = "fetch"
    /\ run[r].routes = {}
    /\ b \in run[r].unseen
    /\ Become(r, [run[r] EXCEPT !.unseen = @ \ {b}, !.opened = @ \cup {b}, !.routes = b])
    /\ UNCHANGED <<device, remote>>

\* A batch that is listed and not there is reported; it stays unseen on disk.
MissingBatch(r, b) ==
    /\ "late" \in Faults
    /\ run[r].at = "fetch"
    /\ run[r].routes = {}
    /\ b \in run[r].unseen
    /\ Become(r, [run[r] EXCEPT !.unseen = @ \ {b}])
    /\ UNCHANGED <<device, remote>>

Fetching(r, k) ==
    run[r].at = "fetch" /\ k \in run[r].routes /\ FirstRoute(k, run[r].routes)

\* An object that is not there, or not yet, or was seen before in this run.
Pass(r, k) ==
    /\ Fetching(r, k)
    /\ \/ k \notin blobs
       \/ "late" \in Faults
       \/ k.key = run[r].key /\ k.evt \in run[r].done
    /\ Become(r, [run[r] EXCEPT !.routes = @ \ {k}])
    /\ UNCHANGED <<device, remote>>

\* Decryption fails, or the gate refuses the payload: halt, cursor unmoved.
Halt(r, k) ==
    /\ Fetching(r, k)
    /\ k \in blobs
    /\ \/ k.key # run[r].key
       \/ k.evt \in flagged[Home[r]] \ run[r].done /\ run[r].op # "skip"
    /\ Finish(r)
    /\ UNCHANGED <<device, remote>>

Readable(r, k) ==
    Fetching(r, k) /\ k \in blobs /\ k.key = run[r].key /\ k.evt \notin run[r].done

\* --skip: the refused payload is quarantined, never applied.
Quarantine(r, k) ==
    /\ Readable(r, k)
    /\ k.evt \in flagged[Home[r]]
    /\ run[r].op = "skip"
    /\ Become(r, [run[r] EXCEPT !.routes = @ \ {k}, !.done = @ \cup {k.evt},
                                !.held = @ \cup {k.evt}])
    /\ UNCHANGED <<device, remote>>

Applicable(r, k) == Readable(r, k) /\ k.evt \notin flagged[Home[r]]
Inserts(r, k) ==
    [run[r] EXCEPT !.at = "upsert", !.routes = @ \ {k}, !.done = @ \cup {k.evt},
                   !.todo = {k.evt}]

\* Mutant: the last writer wins.
Apply_LastWriter(r, k) ==
    /\ Applicable(r, k)
    /\ Become(r, Inserts(r, k))
    /\ UNCHANGED <<device, remote>>

\* The apply law, by a look at the store without its lock: an absent id is to
\* be inserted, the same bytes are a no-op, other bytes leave the local copy
\* and make a row for the conflict ledger.
Apply(r, k) ==
    LET local == Versions(Home[r], k.evt.id)
    IN  /\ Applicable(r, k)
        /\ Become(r, IF local = {} THEN Inserts(r, k)
                     ELSE [run[r] EXCEPT !.routes = @ \ {k}, !.done = @ \cup {k.evt},
                              !.rows = IF local = {k.evt} THEN @ ELSE @ \cup {k.evt}])
        /\ UNCHANGED <<device, remote>>

\* upsertEntries, one lock hold: what has the id by now is replaced.
Upsert(r, e) ==
    LET d == Home[r]
    IN  /\ run[r].at = "upsert"
        /\ e \in run[r].todo
        /\ store' = [store EXCEPT ![d] = (@ \ Versions(d, e.id)) \cup {e}]
        /\ replaced' = [replaced EXCEPT ![d] = @ \cup (Versions(d, e.id) \ {e})]
        /\ Become(r, [run[r] EXCEPT !.at = "fetch", !.todo = {}])
        /\ UNCHANGED <<outbox, acked, pulled, conflicts, quarantine, keyEpoch, key, flagged,
                       remote>>

\* Mutant: the cursor is what is listed at the end of the run.
SavePull_Relisted(r) ==
    LET d == Home[r]
    IN  /\ run[r].at = "fetch"
        /\ run[r].unseen = {}
        /\ run[r].routes = {}
        /\ pulled' = [pulled EXCEPT ![d] = @ \cup batches]
        /\ conflicts' = [conflicts EXCEPT ![d] = @ \cup run[r].rows]
        /\ quarantine' = [quarantine EXCEPT ![d] = @ \cup run[r].held]
        /\ Finish(r)
        /\ UNCHANGED <<store, outbox, acked, keyEpoch, key, flagged, replaced, remote>>

\* Mutant: the state saved is the run's own, merged over nothing.
SavePull_Unmerged(r) ==
    LET d == Home[r]
    IN  /\ run[r].at = "fetch"
        /\ run[r].unseen = {}
        /\ run[r].routes = {}
        /\ pulled' = [pulled EXCEPT ![d] = @ \cup run[r].opened]
        /\ conflicts' = [conflicts EXCEPT ![d] = run[r].rows]
        /\ quarantine' = [quarantine EXCEPT ![d] = run[r].held]
        /\ Finish(r)
        /\ UNCHANGED <<store, outbox, acked, keyEpoch, key, flagged, replaced, remote>>

\* Cursor and ledgers, merged over the latest state on disk, last.  (The acks
\* that are merged too were loaded from it, and acks are never removed.)
SavePull(r) ==
    LET d == Home[r]
    IN  /\ run[r].at = "fetch"
        /\ run[r].unseen = {}
        /\ run[r].routes = {}
        /\ pulled' = [pulled EXCEPT ![d] = @ \cup run[r].opened]
        /\ conflicts' = [conflicts EXCEPT ![d] = @ \cup run[r].rows]
        /\ quarantine' = [quarantine EXCEPT ![d] = @ \cup run[r].held]
        /\ Finish(r)
        /\ UNCHANGED <<store, outbox, acked, keyEpoch, key, flagged, replaced, remote>>

-----------------------------------------------------------------------------
(* Key rotation: a drain under the old key (a push), then the roster.      *)

\* Refused while something staged is not acked.  "Every device pulls clean
\* BEFORE any device rotates."
StartRotate(r) ==
    LET d == Home[r]
    IN  /\ run[r].at = "idle"
        /\ "rotate" \in Ops
        /\ key[d] < MaxKey
        /\ keyEpoch[d] < MaxEpoch
        /\ outbox[d] \subseteq acked[d]
        /\ Disciplined /\ OneKey => \A x \in Device : Clean(x)
        /\ Become(r, [Loaded(r, "rotate", "sweep") EXCEPT !.known = acked[d]])
        /\ UNCHANGED <<device, remote>>

\* Mutant: only what the drain has just put is re-encrypted.
Roster_Drained(r) ==
    LET d == Home[r]
    IN  /\ run[r].at = "roster"
        /\ Become(r, [run[r] EXCEPT !.at = "reput", !.key = @ + 1, !.epoch = keyEpoch[d],
                                    !.todo = run[r].done, !.done = {}])
        /\ UNCHANGED <<device, remote>>

\* The roster: the staged lines that are acked.
Roster(r) ==
    LET d == Home[r]
    IN  /\ run[r].at = "roster"
        /\ Become(r, [run[r] EXCEPT !.at = "reput", !.key = @ + 1, !.epoch = keyEpoch[d],
                                    !.todo = outbox[d] \cap acked[d],
                                    !.done = {}])
        /\ UNCHANGED <<device, remote>>

Reput(r, e) ==
    /\ run[r].at = "reput"
    /\ e \in run[r].todo
    /\ First(e, run[r].todo)
    /\ blobs' = blobs \cup {RouteOf(e, run[r].key)}
    /\ Become(r, [run[r] EXCEPT !.todo = @ \ {e}, !.done = @ \cup {e}])
    /\ UNCHANGED <<device, batches, manifest>>

\* Mutant: the batch of the new key is forgotten.
Rebatch_Forgotten(r) ==
    /\ run[r].at = "reput"
    /\ run[r].todo = {}
    /\ Become(r, [run[r] EXCEPT !.at = "manifest"])
    /\ UNCHANGED <<device, remote>>

Rebatch(r) ==
    /\ run[r].at = "reput"
    /\ run[r].todo = {}
    /\ batches' = IF run[r].done = {} THEN batches
                  ELSE batches \cup {Routes(run[r].done, run[r].key)}
    /\ Become(r, [run[r] EXCEPT !.at = "manifest"])
    /\ UNCHANGED <<device, blobs, manifest>>

PutManifest(r) ==
    /\ run[r].at = "manifest"
    /\ manifest' = [key |-> run[r].key, epoch |-> run[r].epoch + 1]
    /\ Become(r, [run[r] EXCEPT !.at = "save"])
    /\ UNCHANGED <<device, blobs, batches>>

SaveEpoch(r) ==
    LET d == Home[r]
    IN  /\ run[r].at = "save"
        /\ keyEpoch' = [keyEpoch EXCEPT ![d] = run[r].epoch + 1]
        /\ Become(r, [run[r] EXCEPT !.at = "config"])
        /\ UNCHANGED <<store, outbox, acked, pulled, conflicts, quarantine, key, flagged, replaced,
                       remote>>

\* The CLI points the config to the new key.
WriteConfig(r) ==
    LET d == Home[r]
    IN  /\ run[r].at = "config"
        /\ key' = [key EXCEPT ![d] = run[r].key]
        /\ Finish(r)
        /\ UNCHANGED <<store, outbox, acked, pulled, conflicts, quarantine, keyEpoch, flagged,
                       replaced, remote>>

\* purge-sync --stale-epoch: refused unless the remote names this epoch; "do
\* not run purge-sync until every device has rotated and pulled clean".
StartPurge(r) ==
    LET d == Home[r]
    IN  /\ run[r].at = "idle"
        /\ "purge" \in Ops
        /\ manifest # NoManifest
        /\ manifest.epoch = keyEpoch[d]
        /\ Disciplined => Steady /\ \A x \in Device : Clean(x)
        /\ Disciplined => \A k \in blobs : k.key <= key[d]
        /\ \E k \in blobs : k.key # key[d]
        /\ Become(r, [Loaded(r, "purge", "delete") EXCEPT !.routes = blobs])
        /\ UNCHANGED <<device, remote>>

\* What does not decrypt under the current key is deleted.
DeleteStale(r, k) ==
    /\ run[r].at = "delete"
    /\ k \in run[r].routes
    /\ k.key # run[r].key
    /\ FirstRoute(k, {l \in run[r].routes : l.key # run[r].key})
    /\ blobs' = blobs \ {k}
    /\ Become(r, [run[r] EXCEPT !.routes = @ \ {k}])
    /\ UNCHANGED <<device, batches, manifest>>

EndPurge(r) ==
    /\ run[r].at = "delete"
    /\ \A k \in run[r].routes : k.key = run[r].key
    /\ Finish(r)
    /\ UNCHANGED <<device, remote>>

-----------------------------------------------------------------------------
\* A process dies, or an await throws; in the ack loop some acks are saved.
Crash(r, some) ==
    LET d == Home[r]
    IN  /\ r \in Mortal
        /\ run[r].at # "idle"
        /\ some \subseteq (IF run[r].at = "ack" THEN run[r].done ELSE {})
        /\ acked' = [acked EXCEPT ![d] = @ \cup some]
        /\ Finish(r)
        /\ UNCHANGED <<store, outbox, pulled, conflicts, quarantine, keyEpoch, key, flagged,
                       replaced, remote>>

Push(r) ==
    \/ \E op \in {"push", "backfill"} : StartPush(r, op)
    \/ \E plan \in SUBSET Pending(r) : Sweep(r, plan)
    \/ \E before \in SUBSET ToStage(Home[r], run[r].op) : SweepAborts(r, before)
    \/ \E e \in run[r].todo : Put(r, e) \/ PutAborts(r, e)
    \/ Stamp(r) \/ PutBatch(r) \/ Ack(r)

Pull(r) ==
    \/ \E op \in {"pull", "skip"} : StartPull(r, op)
    \/ \E b \in run[r].unseen : OpenBatch(r, b) \/ MissingBatch(r, b)
    \/ \E k \in run[r].routes : Pass(r, k) \/ Halt(r, k) \/ Quarantine(r, k) \/ Apply(r, k)
    \/ \E e \in run[r].todo : Upsert(r, e)
    \/ SavePull(r)

Rotate(r) ==
    \/ StartRotate(r) \/ Roster(r)
    \/ \E e \in run[r].todo : Reput(r, e)
    \/ Rebatch(r) \/ PutManifest(r) \/ SaveEpoch(r) \/ WriteConfig(r)

Purge(r) ==
    \/ StartPurge(r)
    \/ \E k \in run[r].routes : DeleteStale(r, k)
    \/ EndPurge(r)

Live(d) ==
    \/ \E e \in Entry : Write(d, e) \/ Rewrite(d, e) \/ Upgrade(d, e)
    \/ Compact(d) \/ LoseOutbox(d)

Next ==
    \/ \E d \in Device : Live(d)
    \/ \E r \in Runner : Push(r) \/ Pull(r) \/ Rotate(r) \/ Purge(r)
    \/ \E r \in Runner, some \in SUBSET Entry : Crash(r, some)

Spec == Init /\ [][Next]_vars

-----------------------------------------------------------------------------
(* Properties. *)

\* What a device knows of a version: it holds it, holds another one and says
\* so, quarantined it, or held it until it was written over.
Settled(d, e) == e \in store[d] \cup conflicts[d] \cup quarantine[d] \cup replaced[d]

(***************************************************************************)
(* An ack is written after what it promises (D4): whatever a device acked  *)
(* since its baseline is on the remote, in a batch that peers list.        *)
(***************************************************************************)
Durable(e) == \E b \in batches : \E k \in b : k.evt = e /\ k \in blobs
AckedIsDurable == \A d \in Device : \A e \in acked[d] \ Baseline[d] : Durable(e)

(***************************************************************************)
(* The cursor is advanced after what it stands for (D6): of every event in *)
(* a batch a device recorded as pulled, the device holds the entry, or has *)
(* it on its ledgers, unless the object was deleted from the remote.       *)
(***************************************************************************)
CursorHonest ==
    \A d \in Device : \A b \in pulled[d] : \A k \in b \cap blobs : Settled(d, k.evt)

(***************************************************************************)
(* Two commands on one device do not undo each other's bookkeeping         *)
(* (mergeSyncState): no step loses an ack, a pulled batch or a ledger row. *)
(***************************************************************************)
LedgersGrow ==
    [][\A d \in Device :
          /\ acked[d] \subseteq acked'[d]
          /\ pulled[d] \subseteq pulled'[d]
          /\ conflicts[d] \subseteq conflicts'[d]
          /\ quarantine[d] \subseteq quarantine'[d]]_vars

(***************************************************************************)
(* Rotation re-encrypts the roster before the config changes keys: what a  *)
(* device staged and acked can be fetched under the key it uses now.       *)
(***************************************************************************)
RosterCurrent ==
    \A d \in Device : \A e \in (acked[d] \cap outbox[d]) \ Baseline[d] :
        RouteOf(e, key[d]) \in blobs

(***************************************************************************)
(* The engine implements ReplicaSet (D8): a pull inserts only an event     *)
(* whose id it found absent on the device, so it replaces a version only   *)
(* when that was written since, and it delivers only what some device      *)
(* wrote and pushed.                                                       *)
(***************************************************************************)
Written == UNION {store[d] \cup replaced[d] : d \in Device}
Aim(x) == IF x.at = "upsert" THEN x.todo ELSE {}
Inserting(d) == UNION {Aim(run[r]) : r \in {x \in Runner : Home[x] = d}}
Replicas == INSTANCE ReplicaSet WITH
                written <- Written, offered <- {k.evt : k \in blobs},
                inserting <- [d \in Device |-> Inserting(d)]
ImplementsReplicaSet == Replicas!Spec

(***************************************************************************)
(* "the local copy is retained + a conflict record. NEVER LWW"             *)
(* (engine.ts:882-883): no command of the sync replaces what a device      *)
(* holds.  A version written between a pull's look and its upsert refutes  *)
(* it: README.md, Known divergences.                                       *)
(***************************************************************************)
LocalCopyRetained == [][run' # run => \A d \in Device : store[d] \subseteq store'[d]]_vars

(***************************************************************************)
(* Fairness: a command that runs goes on, and on every device somebody     *)
(* keeps pushing everything and keeps pulling, with --skip when needed.    *)
(* Writes, upgrades and crashes are not fair, and crashes end some day.    *)
(***************************************************************************)
Goes(r) ==
    \/ Sweep(r, Pending(r)) \/ SweepAborts(r, {})
    \/ \E e \in run[r].todo : Put(r, e) \/ PutAborts(r, e) \/ Upsert(r, e)
    \/ Stamp(r) \/ PutBatch(r) \/ Ack(r)
    \/ \E b \in run[r].unseen : OpenBatch(r, b)
    \/ \E k \in run[r].routes :
           Pass(r, k) \/ Halt(r, k) \/ Quarantine(r, k) \/ Apply(r, k)
    \/ SavePull(r)

Stops(r) == \E some \in SUBSET Entry : Crash(r, some)

Fairness ==
    \A r \in Runner : /\ WF_vars(Goes(r))
                      /\ SF_vars(StartPush(r, "push"))
                      /\ SF_vars(StartPull(r, "skip"))

LiveSpec == Spec /\ Fairness /\ <>[][\A r \in Runner : ~Stops(r)]_vars

(***************************************************************************)
(* Replicas converge: an entry that came to a device after its baseline    *)
(* reaches every other device, or its ledgers, unless the device writes    *)
(* over it first or its own scanner refuses something it must push.        *)
(***************************************************************************)
Blocked(d) == flagged[d] \cap (store[d] \cup outbox[d]) # {}

Converges ==
    \A d \in Device : \A x \in Device \ {d}, e \in Entry \ Restricted :
        e \in store[d] \ Baseline[d]
            ~> Settled(x, e) \/ e \notin store[d] \/ Blocked(d)

=============================================================================
