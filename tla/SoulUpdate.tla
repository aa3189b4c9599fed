----------------------------- MODULE SoulUpdate -----------------------------
(***************************************************************************)
(* The code graph ("soul") of a repository: `crib update`                  *)
(* (pipeline/src/update.ts, cli.ts cmdUpdate) and `crib index`             *)
(* (pipeline/src/pipeline.ts, cli.ts cmdIndex) against a work tree and a   *)
(* HEAD that move, the shards and the manifest they commit                 *)
(* (core/src/soul-store.ts), the derived index that follows, and a reader  *)
(* that loads the shards without a lock.                                   *)
(*                                                                         *)
(* A file goes through numbered contents.  Its nodes are the content they  *)
(* were extracted from; an edge is a pair of files, drawn by a reference   *)
(* from the first to the second.  A commit is the tree it records, so      *)
(* `git diff` compares trees.  Clusters, links, artifacts and owners are   *)
(* functions of the graph and are left out.                                *)
(***************************************************************************)
EXTENDS Integers, FiniteSets

CONSTANTS
    Proc,           \* processes that run `crib update` or `crib index`
    Reader,         \* processes that serve a graph they loaded
    File,
    MaxContent,     \* bound on the contents of a file
    Last,           \* the last content of each file
    Text,           \* Text[f][v]: the files content v of f refers to
    Gone,           \* Gone[f]: the content that is the absence of f, if any
    Shard,
    ShardOf,        \* the shard of a file's nodes and of the edges from it
    Packages,       \* the sets of files an update may be scoped to
    Ops,            \* subset of {"update", "dirty", "index"}
    MaxStamp,       \* bound on the commits that change the graph
    Deaths,         \* where a process may die: subset of {"shards", "index"}
    Reverts,        \* may a file return to an earlier content?
    Races,          \* may HEAD move while a full index extracts?
    Nobody

ASSUME SoulAssumption ==
    /\ MaxContent \in Nat /\ MaxStamp \in Nat
    /\ Last \in [File -> 0 .. MaxContent]
    /\ Text \in [File -> [0 .. MaxContent -> SUBSET File]]
    /\ Gone \in [File -> SUBSET (0 .. MaxContent)]
    /\ \A f \in File : \A v, w \in Gone[f] : v = w
    /\ ShardOf \in [File -> Shard]
    /\ File \in Packages /\ Packages \subseteq SUBSET File
    /\ Ops \subseteq {"update", "dirty", "index"}
    /\ Deaths \subseteq {"shards", "index"}
    /\ Reverts \in BOOLEAN /\ Races \in BOOLEAN
    /\ Nobody \notin Proc

Tree == [File -> 0 .. MaxContent]
Edge == File \X File

VARIABLES
    head,       \* the tree HEAD records
    work,       \* the working tree
    nodes,      \* the node shards on disk
    edges,      \* the edge shards on disk
    manifest,   \* anchor, extracted generation, lastUpdated
    index,      \* the derived index: generation and nodes
    lock,
    run,        \* what each process is doing
    view,       \* what each reader loaded
    torn        \* history: a commit died between its first shard and its manifest

git == <<head, work>>
soul == <<nodes, edges, manifest>>
vars == <<git, soul, index, lock, run, view, torn>>

Manifest == [since : Tree, gen : Nat, stamp : Nat]

Run ==
    [at : {"idle", "load", "lock", "look", "diff", "extract", "resolve", "write", "index"},
     op : {"update", "dirty", "index"},
     scope : SUBSET File,           \* packageRoots
     seen : Tree,                   \* the HEAD it read
     mine : Manifest,               \* its manifest
     nodes : Tree, edges : SUBSET Edge,             \* its graph
     changed : SUBSET File,         \* the files to extract
     skipped : BOOLEAN,             \* changes out of scope are left out
     parsed : Tree,                 \* the sources it parsed
     delta : SUBSET File,           \* the files its IndexDelta is about
     todo : SUBSET Shard, todoEdges : SUBSET Shard] \* dirty shards still to write

View == [at : {"unread", "nodes", "edges", "serving"}, stamp : Nat,
         nodes : Tree, edges : SUBSET Edge]

Nowhere == [f \in File |-> 0]
Rest ==
    [at |-> "idle", op |-> "update", scope |-> {}, seen |-> Nowhere,
     mine |-> [since |-> Nowhere, gen |-> 0, stamp |-> 0],
     nodes |-> Nowhere, edges |-> {}, changed |-> {}, skipped |-> FALSE, parsed |-> Nowhere,
     delta |-> {}, todo |-> {}, todoEdges |-> {}]
Unread == [at |-> "unread", stamp |-> 0, nodes |-> Nowhere, edges |-> {}]

TypeOK ==
    /\ head \in Tree /\ work \in Tree
    /\ nodes \in Tree /\ edges \subseteq Edge
    /\ manifest \in Manifest
    /\ index \in [gen : Nat, nodes : Tree]
    /\ lock \in Proc \cup {Nobody}
    /\ run \in [Proc -> Run]
    /\ view \in [Reader -> View]
    /\ torn \in BOOLEAN
    /\ \A p \in Proc : (run[p].at \notin {"idle", "load", "lock"}) <=> lock = p

-----------------------------------------------------------------------------
(* Graphs. *)

Present(tree, f) == tree[f] \notin Gone[f]
Differ(t, u) == {f \in File : t[f] # u[f]}
Refers(tree, s, d) == Present(tree, s) /\ d \in Text[s][tree[s]] /\ d # s

\* What resolving the files of a set against a graph's nodes draws: the references are
\* read from the sources, one that reaches no node is dropped.
Resolved(files, sources, tree) ==
    {e \in files \X File : /\ Refers(sources, e[1], e[2])
                           /\ Present(tree, e[1]) /\ Present(tree, e[2])}

\* Mutant: what a removed file refers to stays.
Touching_Incoming(files) == {e \in Edge : e[2] \in files}

\* removeByFile drops every edge that touches the file.
Touching(files) == {e \in Edge : e[1] \in files \/ e[2] \in files}
\* pruneDangling
Attached(es, tree) == {e \in es : Present(tree, e[1]) /\ Present(tree, e[2])}
Shards(files) == {ShardOf[f] : f \in files}
Sources(es) == {e[1] : e \in es}

Init ==
    /\ head = Nowhere /\ work = Nowhere
    /\ nodes = Nowhere
    /\ edges = Resolved(File, Nowhere, Nowhere)
    /\ manifest = [since |-> Nowhere, gen |-> 1, stamp |-> 1]
    /\ index = [gen |-> 1, nodes |-> Nowhere]
    /\ lock = Nobody
    /\ run = [p \in Proc |-> Rest]
    /\ view = [r \in Reader |-> Unread]
    /\ torn = FALSE

-----------------------------------------------------------------------------
(* The repository. *)

Edit(f) ==
    \E v \in 0 .. Last[f] :
        /\ v > work[f] \/ (Reverts /\ v # work[f])
        /\ work' = [work EXCEPT ![f] = v]
        /\ UNCHANGED <<head, soul, index, lock, run, view, torn>>

\* git commit of the changes of some files.
Record ==
    /\ \A p \in Proc : Races \/ ~(run[p].op = "index" /\ run[p].at \in {"resolve", "look"})
    /\ \E files \in SUBSET Differ(head, work) :
          /\ files # {}
          /\ head' = [f \in File |-> IF f \in files THEN work[f] ELSE head[f]]
    /\ UNCHANGED <<work, soul, index, lock, run, view, torn>>

-----------------------------------------------------------------------------
(* `crib update` and `crib index`. *)

Become(p, next) == run' = [run EXCEPT ![p] = next]

\* openSoul: the manifest, then the shards; all of it before the lock is taken.
Open(p) ==
    \E op \in Ops \cap {"update", "dirty"}, scope \in Packages :
        /\ run[p].at = "idle"
        /\ Become(p, [Rest EXCEPT !.at = "load", !.op = op, !.scope = scope,
                                  !.mine = manifest])
        /\ UNCHANGED <<git, soul, index, lock, view, torn>>

Load(p) ==
    /\ run[p].at = "load"
    /\ Become(p, [run[p] EXCEPT !.at = "lock", !.nodes = nodes, !.edges = edges])
    /\ UNCHANGED <<git, soul, index, lock, view, torn>>

\* freshSoulForRebuild: a full index starts from a new manifest, and from no graph.
Reindex(p) ==
    /\ "index" \in Ops
    /\ run[p].at = "idle"
    /\ Become(p, [Rest EXCEPT !.at = "lock", !.op = "index", !.scope = File])
    /\ UNCHANGED <<git, soul, index, lock, view, torn>>

Lock(p) ==
    /\ run[p].at = "lock" /\ manifest.stamp < MaxStamp
    /\ IF lock = Nobody
       THEN /\ lock' = p
            /\ Become(p, [run[p] EXCEPT !.at = IF run[p].op = "index" THEN "extract" ELSE "look"])
       ELSE UNCHANGED lock /\ Become(p, Rest)
    /\ UNCHANGED <<git, soul, index, view, torn>>

\* Mutant: the lock is not released.
Release_Leaking(p) == lock' = lock /\ Become(p, Rest)

Release(p) == lock' = Nobody /\ Become(p, Rest)

\* An update reads HEAD before it reads any source.
Look(p) ==
    /\ run[p].at = "look" /\ run[p].op # "index"
    /\ Become(p, [run[p] EXCEPT !.at = "diff", !.seen = head])
    /\ UNCHANGED <<git, soul, index, lock, view, torn>>

Changes(p, extra) ==
    Differ(run[p].mine.since, head) \cup
    (IF run[p].op = "dirty" THEN {f \in Differ(head, work) : Present(head, f)} \cup extra
     ELSE {})

\* Mutant: only the changed files are resolved again.
Closure_Changed(changed, es) == changed

\* The changed files and every file whose references reach into them.
Closure(changed, es) == changed \cup {e[1] : e \in {d \in es : d[2] \in changed}}

\* soul.commit: the dirty shards of the pruned graph are to be written, the manifest last.
\* The generation moves if a shard was dirty before the graph was pruned.
Commit(r, since, dirty, dirtyEdges) ==
    LET kept == Attached(r.edges, r.nodes) IN
    [Rest EXCEPT !.at = "write", !.op = r.op, !.nodes = r.nodes, !.edges = kept,
                 !.changed = r.changed, !.delta = r.delta,
                 !.todo = dirty,
                 !.todoEdges = dirtyEdges \cup Shards(Sources(r.edges \ kept)),
                 !.mine = [r.mine EXCEPT !.since = since,
                             !.gen = IF dirty \cup dirtyEdges = {} THEN @ ELSE @ + 1]]

\* Dirty mode takes staged and explicitly included new files too.
Diff(p) ==
    \E extra \in SUBSET {f \in Differ(head, work) : ~Present(head, f)} :
        LET all == Changes(p, extra)
            changed == all \cap run[p].scope
        IN  /\ run[p].at = "diff"
            /\ run[p].op = "dirty" \/ extra = {}
            /\ \/ /\ changed # {}
                  /\ Become(p, [run[p] EXCEPT !.at = "extract", !.changed = changed,
                                              !.skipped = all # changed])
                  /\ UNCHANGED lock
               \/ /\ changed = {} /\ all # {}
                  /\ Release(p)
               \/ /\ all = {}
                  /\ Become(p, Commit(run[p], run[p].seen, {}, {}))
                  /\ UNCHANGED lock
            /\ UNCHANGED <<git, soul, index, view, torn>>

\* Mutant: a scoped update anchors the whole repository.
Anchor_Scoped(r) == r.seen

\* The anchor moves to the HEAD that was read first, unless changes were left out.
Anchor(r) == IF r.skipped THEN r.mine.since ELSE r.seen

\* runParse reads the sources, and is awaited before their references are resolved.
Parse(p) ==
    /\ run[p].at = "extract"
    /\ Become(p, [run[p] EXCEPT !.at = "resolve", !.parsed = work])
    /\ UNCHANGED <<git, soul, index, lock, view, torn>>

\* The changed files have the records that were parsed, and the references of every file
\* of the closure, as its source is now, are resolved against them.  A shard is dirty if
\* it lost or got a record.  The index delta is about what the files of the closure have
\* now, less what they had.
Extract(p) ==
    LET r == run[p]
        now == [f \in File |-> IF f \in r.changed THEN r.parsed[f] ELSE r.nodes[f]]
        closure == Closure(r.changed, r.edges)
        drawn == Resolved(closure, work, now)
        dropped == r.edges \cap Touching(r.changed)
        Held(f) == Present(r.nodes, f) \/ Present(now, f)
    IN  /\ r.at = "resolve" /\ r.op # "index"
        /\ Become(p, Commit([r EXCEPT !.nodes = now, !.edges = (r.edges \ dropped) \cup drawn,
                                      !.delta = {f \in closure : Held(f)}],
                            Anchor(r),
                            Shards({f \in r.changed : Held(f)}),
                            Shards(Sources(dropped \cup drawn))))
        /\ UNCHANGED <<git, soul, index, lock, view, torn>>

ExtractAll(p) ==
    /\ run[p].at = "resolve" /\ run[p].op = "index"
    /\ Become(p, [run[p] EXCEPT !.at = "look", !.nodes = run[p].parsed, !.changed = File,
                                !.delta = File,
                                !.edges = Resolved(File, work, run[p].parsed)])
    /\ UNCHANGED <<git, soul, index, lock, view, torn>>

\* A full index stamps the HEAD it finds once it has extracted.
Stamp(p) ==
    /\ run[p].at = "look" /\ run[p].op = "index"
    /\ Become(p, Commit(run[p], head, Shard, Shard))
    /\ UNCHANGED <<git, soul, index, lock, view, torn>>

WriteNodes(p) ==
    \E s \in run[p].todo :
        /\ run[p].at = "write"
        /\ nodes' = [f \in File |-> IF ShardOf[f] = s THEN run[p].nodes[f] ELSE nodes[f]]
        /\ Become(p, [run[p] EXCEPT !.todo = @ \ {s}])
        /\ UNCHANGED <<git, edges, manifest, index, lock, view, torn>>

WriteEdges(p) ==
    \E s \in run[p].todoEdges :
        LET there == {e \in Edge : ShardOf[e[1]] = s} IN
        /\ run[p].at = "write" /\ run[p].todo = {}
        /\ edges' = (edges \ there) \cup (run[p].edges \cap there)
        /\ Become(p, [run[p] EXCEPT !.todoEdges = @ \ {s}])
        /\ UNCHANGED <<git, nodes, manifest, index, lock, view, torn>>

\* An update that found nothing to do ends here and keeps lastUpdated.
WriteManifest(p) ==
    LET r == run[p]
        noop == r.changed = {} IN
    /\ r.at = "write" /\ r.todo = {} /\ r.todoEdges = {}
    /\ manifest' = [r.mine EXCEPT !.stamp = IF noop THEN @ ELSE manifest.stamp + 1]
    /\ torn' = (torn /\ noop)
    /\ IF noop THEN Release(p)
       ELSE Become(p, [r EXCEPT !.at = "index", !.edges = {}]) /\ UNCHANGED lock
    /\ UNCHANGED <<git, nodes, edges, index, view>>

\* applyDelta and recordCodeGeneration, on an index of any generation; or buildFromSoul.
WriteIndex(p) ==
    /\ run[p].at = "index"
    /\ index' = [gen |-> run[p].mine.gen,
                 nodes |-> [f \in File |-> IF f \in run[p].delta THEN run[p].nodes[f]
                                           ELSE index.nodes[f]]]
    /\ Release(p)
    /\ UNCHANGED <<git, soul, view, torn>>

\* The process dies; a lock whose holder is dead is taken over.
Die(p) ==
    /\ run[p].at # "idle"
    /\ run[p].at = "write" => "shards" \in Deaths
    /\ run[p].at = "index" => "index" \in Deaths
    /\ torn' = (torn \/ run[p].at = "write")
    /\ lock' = IF lock = p THEN Nobody ELSE lock
    /\ Become(p, Rest)
    /\ UNCHANGED <<git, soul, index, view>>

-----------------------------------------------------------------------------
(* A reader: the fingerprint of the manifest, then the shards. *)

See(r, next) ==
    /\ view' = [view EXCEPT ![r] = next]
    /\ UNCHANGED <<git, soul, index, lock, run, torn>>

\* A refresh begins at first, and when the fingerprint is another one.
ReadManifest(r) ==
    /\ \/ view[r].at = "unread"
       \/ view[r].at = "serving" /\ view[r].stamp # manifest.stamp
    /\ See(r, [Unread EXCEPT !.at = "nodes", !.stamp = manifest.stamp])

ReadNodes(r) ==
    /\ view[r].at = "nodes"
    /\ See(r, [view[r] EXCEPT !.at = "edges", !.nodes = nodes])

\* Mutant: the fingerprint is read once the shards are, as WorkingOverlay does.
ReadEdges_ThenManifest(r) ==
    /\ view[r].at = "edges"
    /\ See(r, [view[r] EXCEPT !.at = "serving", !.edges = edges, !.stamp = manifest.stamp])

ReadEdges(r) ==
    /\ view[r].at = "edges"
    /\ See(r, [view[r] EXCEPT !.at = "serving", !.edges = edges])

Next ==
    \/ Record
    \/ \E f \in File : Edit(f)
    \/ \E p \in Proc :
          \/ Open(p) \/ Load(p) \/ Reindex(p) \/ Lock(p) \/ Look(p) \/ Diff(p)
          \/ Parse(p) \/ Extract(p) \/ ExtractAll(p) \/ Stamp(p)
          \/ WriteNodes(p) \/ WriteEdges(p) \/ WriteManifest(p) \/ WriteIndex(p) \/ Die(p)
    \/ \E r \in Reader : ReadManifest(r) \/ ReadNodes(r) \/ ReadEdges(r)

Spec == Init /\ [][Next]_vars

-----------------------------------------------------------------------------
Writing == \E p \in Proc : run[p].at = "write"

(* A committed change is never lost track of: a file whose stored records   *)
(* are older than the committed content is in the next update's diff, after *)
(* scoped and dirty updates, updates that died half-way, and commits made   *)
(* while one runs (the order in which update.ts reads HEAD and the sources, *)
(* and the anchor it stamps).                                               *)
NothingSkipped == \A f \in File : nodes[f] < head[f] => manifest.since[f] # head[f]

(* A clean, anchored graph has no phantom edge: once the working tree is    *)
(* HEAD and the anchor is HEAD, every edge on disk is one a full index of   *)
(* the tree would draw.                                                     *)
NoPhantoms ==
    ~Writing /\ ~torn /\ head = work /\ manifest.since = head
        => edges \subseteq Resolved(File, work, work)

(* Re-extracting a file keeps the edges into it: of the graph an update     *)
(* loaded, an edge goes only if its source, as stored or as it is in the    *)
(* working tree, no longer refers to its target, or an end of it is gone    *)
(* (the closure of update.ts).  An edge the loaded graph lacks is not       *)
(* promised: that of an unchanged file to one that was deleted and came     *)
(* back is drawn when its source changes, or by a full index.               *)
EdgesKept ==
    [][\A p \in Proc : run[p].at = "resolve" /\ run'[p].at = "write" =>
          run[p].edges \cap Resolved(File, work, run'[p].nodes)
                      \cap Resolved(File, run'[p].nodes, run'[p].nodes)
              \subseteq run'[p].edges]_vars

(* A reader that missed an update can tell, once that update is whole: one  *)
(* that serves under the fingerprint of the manifest, while no commit is    *)
(* under way and none has died in its shards, serves the graph on disk,     *)
(* whatever was written while it was loading (shards before the manifest in *)
(* soul-store.ts commit, fingerprint before the shards in the reader).      *)
StaleReadersNotice ==
    \A r \in Reader :
        view[r].at = "serving" /\ view[r].stamp = manifest.stamp /\ ~Writing /\ ~torn
            => view[r].nodes = nodes /\ view[r].edges = edges

(* docs/storage.md: "no soul<->index drift possible".  An index that claims *)
(* the soul's generation, while nobody writes, indexes the soul's files.    *)
NoDrift ==
    lock = Nobody /\ ~torn /\ index.gen = manifest.gen
        => \A f \in File : index.nodes[f] = nodes[f]
=============================================================================
