--------------------------- MODULE SoulUpdateProofs ---------------------------
(***************************************************************************)
(* What SoulUpdate promises for every number of files, shards, contents,   *)
(* readers and, unless an assumption says otherwise, of processes.         *)
(***************************************************************************)
EXTENDS SoulUpdate, TLAPS

-----------------------------------------------------------------------------
(* Types. *)

\* Every file may be at its first content.
LEMMA NowhereType == Nowhere \in Tree
BY SoulAssumption DEF Nowhere, Tree

\* A process that does nothing is in a legal run.
LEMMA RestType ==
    /\ Rest \in Run
    /\ Rest.at = "idle" /\ Rest.skipped = FALSE
<1>1. [since |-> Nowhere, gen |-> 0, stamp |-> 0] \in Manifest BY NowhereType DEF Manifest
<1>2. {} \in SUBSET File /\ {} \in SUBSET Edge /\ {} \in SUBSET Shard OBVIOUS
<1> QED BY <1>1, <1>2, NowhereType DEF Rest, Run

\* What the resolver draws between the files of a repository is edges.
LEMMA ResolvedType ==
    ASSUME NEW files \in SUBSET File, NEW sources, NEW tree
    PROVE  Resolved(files, sources, tree) \subseteq Edge
BY DEF Resolved, Edge

\* The shards of files are shards, and so are those of the sources of edges.
LEMMA ShardsType ==
    /\ \A files \in SUBSET File : Shards(files) \in SUBSET Shard
    /\ \A es \in SUBSET Edge : Sources(es) \in SUBSET File
BY SoulAssumption DEF Shards, Sources, Edge

\* A commit is a legal run that writes, of the same graph less what dangles.
Committed(c, r, since, dirty, dirtyEdges) ==
    /\ c \in Run
    /\ c.at = "write" /\ c.op = r.op /\ c.skipped = FALSE
    /\ c.nodes = r.nodes /\ c.edges = Attached(r.edges, r.nodes)
    /\ c.changed = r.changed /\ c.delta = r.delta
    /\ c.todo = dirty
    /\ c.todoEdges = dirtyEdges \cup Shards(Sources(r.edges \ Attached(r.edges, r.nodes)))
    /\ c.mine.since = since /\ c.mine.stamp = r.mine.stamp

\* Every commit is.
LEMMA CommitType ==
    ASSUME NEW r \in Run, NEW since \in Tree,
           NEW dirty \in SUBSET Shard, NEW dirtyEdges \in SUBSET Shard
    PROVE  Committed(Commit(r, since, dirty, dirtyEdges), r, since, dirty, dirtyEdges)
<1> DEFINE kept == Attached(r.edges, r.nodes)
           more == dirtyEdges \cup Shards(Sources(r.edges \ kept))
           g == IF dirty \cup dirtyEdges = {} THEN r.mine.gen ELSE r.mine.gen + 1
           m == [r.mine EXCEPT !.since = since, !.gen = g]
<1>1. r.nodes \in Tree /\ r.edges \in SUBSET Edge /\ r.mine \in Manifest BY DEF Run
<1>2. kept \in SUBSET Edge BY <1>1 DEF Attached
<1>3. Sources(r.edges \ kept) \in SUBSET File BY <1>1, ShardsType
<1>4. more \in SUBSET Shard BY <1>3, ShardsType
<1>5. m \in Manifest /\ m.since = since /\ m.stamp = r.mine.stamp
  <2>1. g \in Nat BY <1>1 DEF Manifest
  <2> HIDE DEF g
  <2> QED BY <1>1, <2>1 DEF Manifest
<1>6. Commit(r, since, dirty, dirtyEdges) =
        [Rest EXCEPT !.at = "write", !.op = r.op, !.nodes = r.nodes, !.edges = kept,
                     !.changed = r.changed, !.delta = r.delta, !.todo = dirty,
                     !.todoEdges = more, !.mine = m]
  BY DEF Commit
<1> HIDE DEF kept, more, m
<1>7. r.op \in {"update", "dirty", "index"} /\ r.changed \in SUBSET File /\ r.delta \in SUBSET File
  BY DEF Run
<1>8. Commit(r, since, dirty, dirtyEdges) =
        [at |-> "write", op |-> r.op, scope |-> {}, seen |-> Nowhere, mine |-> m,
         nodes |-> r.nodes, edges |-> kept, changed |-> r.changed, skipped |-> FALSE,
         parsed |-> Nowhere, delta |-> r.delta, todo |-> dirty, todoEdges |-> more]
  BY <1>6 DEF Rest
<1> QED BY <1>1, <1>2, <1>4, <1>5, <1>7, <1>8, NowhereType DEF Run, kept, more, Committed

\* Where a process is decides whether it holds the lock.
Outside == {"idle", "load", "lock"}

\* A step of one process leaves the others where they are, and the lock with its holder.
LEMMA MoveType ==
    ASSUME TypeOK, NEW p \in Proc, NEW next \in Run, Become(p, next),
           \/ lock' = lock /\ (next.at \in Outside <=> run[p].at \in Outside)
           \/ lock = Nobody /\ lock' = p /\ next.at \notin Outside
           \/ lock = p /\ lock' = Nobody /\ next.at \in Outside
    PROVE  /\ run' \in [Proc -> Run]
           /\ run'[p] = next
           /\ \A q \in Proc : q # p => run'[q] = run[q]
           /\ lock' \in Proc \cup {Nobody}
           /\ \A q \in Proc : (run'[q].at \notin {"idle", "load", "lock"}) <=> lock' = q
<1>1. run \in [Proc -> Run] BY DEF TypeOK
<1>2. run' = [run EXCEPT ![p] = next] BY DEF Become
<1>3. run' \in [Proc -> Run] /\ run'[p] = next /\ \A q \in Proc : q # p => run'[q] = run[q]
  BY <1>1, <1>2
<1>4. lock' \in Proc \cup {Nobody} BY DEF TypeOK
<1>5. ASSUME NEW q \in Proc
      PROVE  (run'[q].at \notin {"idle", "load", "lock"}) <=> lock' = q
  <2>1. (run[q].at \notin {"idle", "load", "lock"}) <=> lock = q BY DEF TypeOK
  <2>2. (run[p].at \notin {"idle", "load", "lock"}) <=> lock = p BY DEF TypeOK
  <2>3. q # Nobody /\ p # Nobody BY SoulAssumption
  <2>4. CASE q = p BY <1>3, <2>1, <2>3, <2>4 DEF Outside
  <2>5. CASE q # p BY <1>3, <2>1, <2>2, <2>3, <2>5 DEF Outside
  <2> QED BY <2>4, <2>5
<1> QED BY <1>3, <1>4, <1>5

\* The fields of a run have the types of a run.
LEMMA RunFields ==
    ASSUME NEW r \in Run
    PROVE  /\ r.at \in {"idle", "load", "lock", "look", "diff", "extract", "resolve", "write",
                        "index"}
           /\ r.op \in {"update", "dirty", "index"}
           /\ r.scope \in SUBSET File /\ r.seen \in Tree /\ r.parsed \in Tree
           /\ r.mine \in Manifest /\ r.mine.since \in Tree
           /\ r.mine.stamp \in Nat /\ r.mine.gen \in Nat
           /\ r.nodes \in Tree /\ r.edges \in SUBSET Edge
           /\ r.changed \in SUBSET File /\ r.skipped \in BOOLEAN /\ r.delta \in SUBSET File
           /\ r.todo \in SUBSET Shard /\ r.todoEdges \in SUBSET Shard
BY DEF Run, Manifest

-----------------------------------------------------------------------------
(* What each step makes of a process. *)

\* openSoul starts from the manifest on disk.
LEMMA OpenStep ==
    ASSUME TypeOK, NEW p \in Proc, Open(p)
    PROVE  \E op \in {"update", "dirty"}, scope \in Packages :
             LET next == [Rest EXCEPT !.at = "load", !.op = op, !.scope = scope,
                                      !.mine = manifest] IN
             /\ run[p].at = "idle" /\ next \in Run /\ Become(p, next)
             /\ next.at = "load" /\ next.op = op /\ next.scope = scope
             /\ next.mine = manifest /\ next.skipped = FALSE
<1>1. PICK op \in {"update", "dirty"}, scope \in Packages :
        /\ run[p].at = "idle"
        /\ Become(p, [Rest EXCEPT !.at = "load", !.op = op, !.scope = scope, !.mine = manifest])
  BY DEF Open
<1>2. scope \in SUBSET File BY SoulAssumption
<1>3. manifest \in Manifest BY DEF TypeOK
<1> DEFINE next == [Rest EXCEPT !.at = "load", !.op = op, !.scope = scope, !.mine = manifest]
<1>4. /\ next \in Run /\ next.at = "load" /\ next.op = op /\ next.scope = scope
      /\ next.mine = manifest /\ next.skipped = FALSE
  BY <1>2, <1>3, RestType DEF Run
<1> QED BY <1>1, <1>4

\* The shards are loaded after the manifest.
LEMMA LoadStep ==
    ASSUME TypeOK, NEW p \in Proc, Load(p)
    PROVE  LET next == [run[p] EXCEPT !.at = "lock", !.nodes = nodes, !.edges = edges] IN
           /\ run[p].at = "load" /\ next \in Run /\ Become(p, next)
           /\ next.at = "lock" /\ next.op = run[p].op /\ next.scope = run[p].scope
           /\ next.mine = run[p].mine /\ next.skipped = run[p].skipped
           /\ next.nodes = nodes /\ next.edges = edges
<1>1. run[p] \in Run /\ nodes \in Tree /\ edges \in SUBSET Edge BY DEF TypeOK
<1> QED BY <1>1 DEF Load, Run

\* A full index starts from an empty graph.
LEMMA ReindexStep ==
    ASSUME TypeOK, NEW p \in Proc, Reindex(p)
    PROVE  LET next == [Rest EXCEPT !.at = "lock", !.op = "index", !.scope = File] IN
           /\ run[p].at = "idle" /\ next \in Run /\ Become(p, next)
           /\ next.at = "lock" /\ next.op = "index"
BY RestType DEF Reindex, Run

\* Whoever finds the lock free has it; the others give up.
LEMMA LockStep ==
    ASSUME TypeOK, NEW p \in Proc, Lock(p)
    PROVE  /\ run[p].at = "lock"
           /\ \/ /\ lock # Nobody /\ UNCHANGED lock /\ Become(p, Rest)
              \/ \E next \in Run :
                 /\ lock = Nobody /\ lock' = p /\ Become(p, next)
                 /\ next.at = (IF run[p].op = "index" THEN "extract" ELSE "look")
                 /\ next.op = run[p].op /\ next.scope = run[p].scope
                 /\ next.mine = run[p].mine /\ next.skipped = run[p].skipped
                 /\ next.nodes = run[p].nodes /\ next.edges = run[p].edges
<1>1. run[p] \in Run BY DEF TypeOK
<1>2. CASE lock # Nobody BY <1>2 DEF Lock
<1>3. CASE lock = Nobody
  <2> DEFINE at == IF run[p].op = "index" THEN "extract" ELSE "look"
             next == [run[p] EXCEPT !.at = at]
  <2>1. at \in {"extract", "look"} OBVIOUS
  <2>2. Become(p, next) /\ lock' = p /\ run[p].at = "lock" BY <1>3 DEF Lock
  <2>3. /\ next \in Run /\ next.at = at /\ next.op = run[p].op /\ next.scope = run[p].scope
        /\ next.mine = run[p].mine /\ next.skipped = run[p].skipped
        /\ next.nodes = run[p].nodes /\ next.edges = run[p].edges
    <3> HIDE DEF at
    <3> QED BY <1>1, <2>1 DEF Run
  <2> QED BY <1>3, <2>2, <2>3
<1> QED BY <1>2, <1>3

\* HEAD is read first.
LEMMA LookStep ==
    ASSUME TypeOK, NEW p \in Proc, Look(p)
    PROVE  LET next == [run[p] EXCEPT !.at = "diff", !.seen = head] IN
           /\ run[p].at = "look" /\ run[p].op # "index" /\ next \in Run /\ Become(p, next)
           /\ next.at = "diff" /\ next.op = run[p].op /\ next.scope = run[p].scope
           /\ next.mine = run[p].mine /\ next.skipped = run[p].skipped
           /\ next.nodes = run[p].nodes /\ next.edges = run[p].edges /\ next.seen = head
<1>1. run[p] \in Run /\ head \in Tree BY DEF TypeOK
<1> QED BY <1>1 DEF Look, Run

\* An update has changes in its scope, or changes out of it only, or none.
LEMMA DiffStep ==
    ASSUME TypeOK, NEW p \in Proc, Diff(p)
    PROVE  /\ run[p].at = "diff"
           /\ \/ /\ lock' = Nobody /\ Become(p, Rest)
              \/ \E changed \in SUBSET File, all \in SUBSET File, next \in Run :
                    /\ UNCHANGED lock /\ Become(p, next)
                    /\ Differ(run[p].mine.since, head) \subseteq all
                    /\ changed = all \cap run[p].scope /\ changed # {}
                    /\ next.at = "extract" /\ next.op = run[p].op
                    /\ next.scope = run[p].scope /\ next.mine = run[p].mine
                    /\ next.nodes = run[p].nodes /\ next.edges = run[p].edges
                    /\ next.seen = run[p].seen /\ next.changed = changed
                    /\ next.skipped = (all # changed)
              \/ /\ UNCHANGED lock /\ Differ(run[p].mine.since, head) = {}
                 /\ Become(p, Commit(run[p], run[p].seen, {}, {}))
<1>1. PICK extra \in SUBSET {f \in Differ(head, work) : ~Present(head, f)} :
        LET all == Changes(p, extra)
            changed == all \cap run[p].scope
        IN  /\ run[p].at = "diff"
            /\ run[p].op = "dirty" \/ extra = {}
            /\ \/ /\ changed # {}
                  /\ Become(p, [run[p] EXCEPT !.at = "extract", !.changed = changed,
                                              !.skipped = all # changed])
                  /\ UNCHANGED lock
               \/ /\ changed = {} /\ all # {}
                  /\ Release(p)
               \/ /\ all = {}
                  /\ Become(p, Commit(run[p], run[p].seen, {}, {}))
                  /\ UNCHANGED lock
            /\ UNCHANGED <<git, soul, index, view, torn>>
  BY DEF Diff
<1> DEFINE all == Changes(p, extra)
           changed == all \cap run[p].scope
<1>2. all \in SUBSET File BY DEF Changes, Differ
<1>3. Differ(run[p].mine.since, head) \subseteq all BY DEF Changes
<1>4. CASE changed = {} /\ all # {} /\ Release(p) BY <1>1, <1>4 DEF Release
<1>5. CASE all = {} /\ Become(p, Commit(run[p], run[p].seen, {}, {})) /\ UNCHANGED lock
  BY <1>1, <1>3, <1>5
<1>6. CASE /\ changed # {} /\ UNCHANGED lock
           /\ Become(p, [run[p] EXCEPT !.at = "extract", !.changed = changed,
                                       !.skipped = all # changed])
  <2> DEFINE next == [run[p] EXCEPT !.at = "extract", !.changed = changed,
                                    !.skipped = all # changed]
  <2>1. changed \in SUBSET File BY <1>2
  <2>2. run[p] \in Run BY DEF TypeOK
  <2>3. /\ next \in Run /\ next.at = "extract" /\ next.op = run[p].op
        /\ next.scope = run[p].scope /\ next.mine = run[p].mine
        /\ next.nodes = run[p].nodes /\ next.edges = run[p].edges
        /\ next.seen = run[p].seen /\ next.changed = changed
        /\ next.skipped = (all # changed)
    <3> HIDE DEF all, changed
    <3> QED BY <2>1, <2>2 DEF Run
  <2>4. Become(p, next) /\ UNCHANGED lock /\ changed # {} BY <1>6
  <2>5. changed = all \cap run[p].scope OBVIOUS
  <2>6. run[p].at = "diff" BY <1>1
  <2> HIDE DEF next, all, changed
  <2>7. \E n \in Run :
          /\ UNCHANGED lock /\ Become(p, n)
          /\ n.at = "extract" /\ n.op = run[p].op
          /\ n.scope = run[p].scope /\ n.mine = run[p].mine
          /\ n.nodes = run[p].nodes /\ n.edges = run[p].edges
          /\ n.seen = run[p].seen /\ n.changed = changed
          /\ n.skipped = (all # changed)
    BY <2>3, <2>4
  <2> QED BY <1>2, <1>3, <2>1, <2>4, <2>5, <2>6, <2>7
<1> QED BY <1>1, <1>4, <1>5, <1>6

\* The sources are parsed before any reference is resolved.
LEMMA ParseStep ==
    ASSUME TypeOK, NEW p \in Proc, Parse(p)
    PROVE  LET next == [run[p] EXCEPT !.at = "resolve", !.parsed = work] IN
           /\ run[p].at = "extract" /\ next \in Run /\ Become(p, next)
           /\ next.at = "resolve" /\ next.op = run[p].op /\ next.mine = run[p].mine
           /\ next.nodes = run[p].nodes /\ next.edges = run[p].edges
           /\ next.seen = run[p].seen /\ next.changed = run[p].changed
           /\ next.skipped = run[p].skipped /\ next.parsed = work
<1>1. run[p] \in Run /\ work \in Tree BY DEF TypeOK
<1> QED BY <1>1 DEF Parse, Run

\* What an update extracts.
Now(p) == [f \in File |-> IF f \in run[p].changed THEN run[p].parsed[f] ELSE run[p].nodes[f]]
Held(p, f) == Present(run[p].nodes, f) \/ Present(Now(p), f)
Dirty(p) == Shards({f \in run[p].changed : Held(p, f)})
Drawn(p) == Resolved(Closure(run[p].changed, run[p].edges), work, Now(p))
Dropped(p) == run[p].edges \cap Touching(run[p].changed)
Extracted(p) ==
    [run[p] EXCEPT !.nodes = Now(p), !.edges = (run[p].edges \ Dropped(p)) \cup Drawn(p),
                   !.delta = {f \in Closure(run[p].changed, run[p].edges) : Held(p, f)}]

\* An update has the changed files as it parsed them, and commits the shards of those
\* that it had or has.
LEMMA ExtractStep ==
    ASSUME TypeOK, NEW p \in Proc, Extract(p)
    PROVE  LET next == Commit(Extracted(p), Anchor(run[p]), Dirty(p),
                              Shards(Sources(Dropped(p) \cup Drawn(p)))) IN
           /\ run[p].at = "resolve" /\ run[p].op # "index"
           /\ next \in Run /\ Become(p, next)
           /\ next.at = "write" /\ next.op = run[p].op /\ next.changed = run[p].changed
           /\ next.nodes = Now(p)
           /\ next.edges = Attached((run[p].edges \ Dropped(p)) \cup Drawn(p), Now(p))
           /\ next.todo = Dirty(p)
           /\ next.todoEdges = Shards(Sources(Dropped(p) \cup Drawn(p)))
                 \cup Shards(Sources(((run[p].edges \ Dropped(p)) \cup Drawn(p)) \ next.edges))
           /\ next.mine.since = Anchor(run[p]) /\ next.mine.stamp = run[p].mine.stamp
<1>1. run[p] \in Run /\ work \in Tree BY DEF TypeOK
<1>2. Now(p) \in Tree BY <1>1, RunFields DEF Now, Tree
<1>3. Closure(run[p].changed, run[p].edges) \in SUBSET File BY <1>1, RunFields DEF Closure, Edge
<1>4. Drawn(p) \in SUBSET Edge BY <1>3, ResolvedType DEF Drawn
<1>5. Dropped(p) \in SUBSET Edge BY <1>1, RunFields DEF Dropped
<1> DEFINE es == (run[p].edges \ Dropped(p)) \cup Drawn(p)
           dl == {f \in Closure(run[p].changed, run[p].edges) : Held(p, f)}
<1>6. es \in SUBSET Edge /\ dl \in SUBSET File BY <1>1, <1>3, <1>4, RunFields
<1>7. /\ Extracted(p) \in Run
      /\ Extracted(p).op = run[p].op /\ Extracted(p).changed = run[p].changed
      /\ Extracted(p).nodes = Now(p) /\ Extracted(p).edges = es
      /\ Extracted(p).mine = run[p].mine
  <2>1. Extracted(p) = [run[p] EXCEPT !.nodes = Now(p), !.edges = es, !.delta = dl] BY DEF Extracted
  <2> HIDE DEF es, dl
  <2> QED BY <1>1, <1>2, <1>6, <2>1 DEF Run
<1>8. Anchor(run[p]) \in Tree BY <1>1, RunFields DEF Anchor
<1>9. Dirty(p) \in SUBSET Shard
  <2>1. {f \in run[p].changed : Held(p, f)} \in SUBSET File BY <1>1, RunFields
  <2> QED BY <2>1, ShardsType DEF Dirty
<1>10. Shards(Sources(Dropped(p) \cup Drawn(p))) \in SUBSET Shard
  <2>1. Dropped(p) \cup Drawn(p) \in SUBSET Edge BY <1>4, <1>5
  <2> QED BY <2>1, ShardsType
<1>11. /\ run[p].at = "resolve" /\ run[p].op # "index"
       /\ Become(p, Commit(Extracted(p), Anchor(run[p]), Dirty(p),
                           Shards(Sources(Dropped(p) \cup Drawn(p)))))
  BY DEF Extract, Extracted, Now, Held, Dirty, Drawn, Dropped
<1> DEFINE dirtyEdges == Shards(Sources(Dropped(p) \cup Drawn(p)))
           next == Commit(Extracted(p), Anchor(run[p]), Dirty(p), dirtyEdges)
<1>12. Committed(next, Extracted(p), Anchor(run[p]), Dirty(p), dirtyEdges)
  <2>1. dirtyEdges \in SUBSET Shard BY <1>10
  <2> HIDE DEF dirtyEdges
  <2> QED BY <1>7, <1>8, <1>9, <2>1, CommitType
<1>13. Become(p, next) BY <1>11
<1> HIDE DEF next
<1> QED BY <1>7, <1>11, <1>12, <1>13 DEF next, Committed

\* A full index has every file as it parsed it.
LEMMA ExtractAllStep ==
    ASSUME TypeOK, NEW p \in Proc, ExtractAll(p)
    PROVE  LET next == [run[p] EXCEPT !.at = "look", !.nodes = run[p].parsed, !.changed = File,
                                !.delta = File, !.edges = Resolved(File, work, run[p].parsed)] IN
           /\ run[p].at = "resolve" /\ run[p].op = "index" /\ next \in Run /\ Become(p, next)
           /\ next.at = "look" /\ next.op = "index" /\ next.nodes = run[p].parsed
           /\ next.edges = Resolved(File, work, run[p].parsed) /\ next.changed = File
<1>1. run[p] \in Run /\ run[p].parsed \in Tree BY RunFields DEF TypeOK
<1>2. Resolved(File, work, run[p].parsed) \in SUBSET Edge BY ResolvedType
<1> DEFINE es == Resolved(File, work, run[p].parsed)
<1> HIDE DEF es
<1>3. LET next == [run[p] EXCEPT !.at = "look", !.nodes = run[p].parsed, !.changed = File,
                                 !.delta = File, !.edges = es] IN
      /\ next \in Run /\ next.at = "look" /\ next.op = run[p].op /\ next.nodes = run[p].parsed
      /\ next.edges = es /\ next.changed = File
  BY <1>1, <1>2 DEF Run, es
<1> QED BY <1>3 DEF ExtractAll, es

\* A full index anchors at the HEAD it finds, and writes every shard.
LEMMA StampStep ==
    ASSUME TypeOK, NEW p \in Proc, Stamp(p)
    PROVE  LET next == Commit(run[p], head, Shard, Shard) IN
           /\ run[p].at = "look" /\ run[p].op = "index" /\ next \in Run /\ Become(p, next)
           /\ next.at = "write" /\ next.op = "index"
           /\ next.nodes = run[p].nodes /\ next.changed = run[p].changed
           /\ next.edges = Attached(run[p].edges, run[p].nodes)
           /\ next.todo = Shard /\ next.todoEdges = Shard /\ next.mine.since = head
<1>1. run[p] \in Run /\ head \in Tree BY DEF TypeOK
<1>2. Sources(run[p].edges \ Attached(run[p].edges, run[p].nodes)) \in SUBSET File
  <2>1. run[p].edges \ Attached(run[p].edges, run[p].nodes) \in SUBSET Edge BY <1>1, RunFields
  <2> QED BY <2>1, ShardsType
<1>3. Shards(Sources(run[p].edges \ Attached(run[p].edges, run[p].nodes))) \in SUBSET Shard
  BY <1>2, ShardsType
<1>4. Shard \in SUBSET Shard OBVIOUS
<1> DEFINE next == Commit(run[p], head, Shard, Shard)
           kept == Attached(run[p].edges, run[p].nodes)
<1>5. Committed(next, run[p], head, Shard, Shard) BY <1>1, <1>4, CommitType
<1>6. run[p].at = "look" /\ run[p].op = "index" /\ Become(p, next) BY DEF Stamp
<1> HIDE DEF next
<1> QED BY <1>3, <1>5, <1>6 DEF next, Committed

\* A write of the node shard s, of the edge shard s, and of the index leave the rest of a run.
LEMMA WriteStep ==
    ASSUME TypeOK, NEW p \in Proc
    PROVE  /\ \A s \in Shard : [run[p] EXCEPT !.todo = @ \ {s}] \in Run
           /\ \A s \in Shard : [run[p] EXCEPT !.todoEdges = @ \ {s}] \in Run
           /\ [run[p] EXCEPT !.at = "index", !.edges = {}] \in Run
<1>1. run[p] \in Run BY DEF TypeOK
<1>2. \A s \in Shard : run[p].todo \ {s} \in SUBSET Shard BY <1>1, RunFields
<1>3. \A s \in Shard : run[p].todoEdges \ {s} \in SUBSET Shard BY <1>1, RunFields
<1>4. ASSUME NEW s \in Shard PROVE [run[p] EXCEPT !.todo = @ \ {s}] \in Run
  BY <1>1, <1>2 DEF Run
<1>5. ASSUME NEW s \in Shard PROVE [run[p] EXCEPT !.todoEdges = @ \ {s}] \in Run
  BY <1>1, <1>3 DEF Run
<1> QED BY <1>1, <1>4, <1>5 DEF Run

\* A process whose position and the lock agree is in a legal place after its step.
LEMMA TypeOKMoves ==
    ASSUME TypeOK, NEW p \in Proc,
           \/ Open(p) \/ Load(p) \/ Reindex(p) \/ Lock(p) \/ Look(p) \/ Diff(p)
           \/ Parse(p) \/ Extract(p) \/ ExtractAll(p) \/ Stamp(p)
    PROVE  TypeOK'
<1>1. UNCHANGED <<git, soul, index, view, torn>>
  BY DEF Open, Load, Reindex, Lock, Look, Diff, Parse, Extract, ExtractAll,
     Stamp
<1> SUFFICES \E next \in Run :
               /\ Become(p, next)
               /\ \/ lock' = lock /\ (next.at \in Outside <=> run[p].at \in Outside)
                  \/ lock = Nobody /\ lock' = p /\ next.at \notin Outside
                  \/ lock = p /\ lock' = Nobody /\ next.at \in Outside
  BY <1>1, MoveType DEF TypeOK, git, soul
<1>2. CASE Open(p) BY <1>2, OpenStep DEF Open, Outside
<1>3. CASE Load(p) BY <1>3, LoadStep DEF Load, Outside
<1>4. CASE Reindex(p) BY <1>4, ReindexStep DEF Reindex, Outside
<1>5. CASE Lock(p)
  <2>1. CASE lock # Nobody /\ UNCHANGED lock /\ Become(p, Rest)
    BY <1>5, <2>1, LockStep, RestType DEF Outside
  <2>2. CASE lock = Nobody
    <3>1. PICK next \in Run :
            /\ lock' = p /\ Become(p, next)
            /\ next.at = (IF run[p].op = "index" THEN "extract" ELSE "look")
      BY <1>5, <2>2, LockStep
    <3>2. next.at \notin Outside BY <3>1 DEF Outside
    <3> QED BY <2>2, <3>1, <3>2
  <2> QED BY <1>5, <2>1, <2>2, LockStep
<1>6. CASE Look(p) BY <1>6, LookStep DEF Look, Outside
<1>7. CASE Diff(p)
  <2>1. run[p].at = "diff" /\ lock = p BY <1>7, DiffStep DEF TypeOK
  <2>2. CASE lock' = Nobody /\ Become(p, Rest) BY <2>1, <2>2, RestType DEF Outside
  <2>3. CASE UNCHANGED lock /\ Become(p, Commit(run[p], run[p].seen, {}, {}))
    <3>1. run[p] \in Run /\ {} \in SUBSET Shard BY DEF TypeOK
    <3>2. run[p].seen \in Tree BY <3>1, RunFields
    <3>3. Committed(Commit(run[p], run[p].seen, {}, {}), run[p], run[p].seen, {}, {})
      BY <3>1, <3>2, CommitType
    <3> QED BY <2>1, <2>3, <3>3 DEF Committed, Outside
  <2>4. CASE UNCHANGED lock /\ \E next \in Run : Become(p, next) /\ next.at = "extract"
    BY <2>1, <2>4 DEF Outside
  <2> QED BY <1>7, <2>2, <2>3, <2>4, DiffStep
<1>8. CASE Extract(p) BY <1>8, ExtractStep DEF Extract, Outside
<1>9. CASE ExtractAll(p) BY <1>9, ExtractAllStep DEF ExtractAll, Outside
<1>10. CASE Stamp(p) BY <1>10, StampStep DEF Stamp, Outside
<1>11. CASE Parse(p) BY <1>11, ParseStep DEF Parse, Outside
<1> QED BY <1>2, <1>3, <1>4, <1>5, <1>6, <1>7, <1>8, <1>9, <1>10, <1>11

\* A write of a shard, of the manifest or of the index, or a death, keeps the types.
LEMMA TypeOKWrites ==
    ASSUME TypeOK, NEW p \in Proc,
           WriteNodes(p) \/ WriteEdges(p) \/ WriteManifest(p) \/ WriteIndex(p) \/ Die(p)
    PROVE  TypeOK'
<1>0. run[p] \in Run BY DEF TypeOK
<1>1. CASE WriteNodes(p)
  <2>1. PICK s \in run[p].todo :
          /\ nodes' = [f \in File |-> IF ShardOf[f] = s THEN run[p].nodes[f] ELSE nodes[f]]
          /\ Become(p, [run[p] EXCEPT !.todo = @ \ {s}])
    BY <1>1 DEF WriteNodes
  <2>2. s \in Shard BY <1>0, RunFields
  <2>3. [run[p] EXCEPT !.todo = @ \ {s}] \in Run BY <2>2, WriteStep
  <2>4. [run[p] EXCEPT !.todo = @ \ {s}].at = run[p].at BY <1>0 DEF Run
  <2>5. nodes' \in Tree BY <1>0, <2>1, RunFields DEF TypeOK, Tree
  <2> QED BY <1>1, <2>1, <2>3, <2>4, <2>5, MoveType DEF TypeOK, WriteNodes, git
<1>2. CASE WriteEdges(p)
  <2>1. PICK s \in run[p].todoEdges :
          /\ edges' = (edges \ {e \in Edge : ShardOf[e[1]] = s})
                        \cup (run[p].edges \cap {e \in Edge : ShardOf[e[1]] = s})
          /\ Become(p, [run[p] EXCEPT !.todoEdges = @ \ {s}])
    BY <1>2 DEF WriteEdges
  <2>2. s \in Shard BY <1>0, RunFields
  <2>3. [run[p] EXCEPT !.todoEdges = @ \ {s}] \in Run BY <2>2, WriteStep
  <2>4. [run[p] EXCEPT !.todoEdges = @ \ {s}].at = run[p].at BY <1>0 DEF Run
  <2>5. edges' \subseteq Edge BY <2>1 DEF TypeOK
  <2> QED BY <1>2, <2>1, <2>3, <2>4, <2>5, MoveType DEF TypeOK, WriteEdges, git
<1>3. CASE WriteManifest(p)
  <2> DEFINE stamp == IF run[p].changed = {} THEN run[p].mine.stamp ELSE manifest.stamp + 1
  <2>1. run[p].mine \in Manifest /\ manifest.stamp + 1 \in Nat
    BY <1>0, RunFields DEF TypeOK, Manifest
  <2>2. stamp \in Nat BY <2>1 DEF Manifest
  <2>3. manifest' = [run[p].mine EXCEPT !.stamp = stamp] BY <1>3 DEF WriteManifest
  <2>4. manifest' \in Manifest
    <3> HIDE DEF stamp
    <3> QED BY <2>1, <2>2, <2>3 DEF Manifest
  <2>5. torn' \in BOOLEAN BY <1>3 DEF WriteManifest, TypeOK
  <2>6. run[p].at = "write" /\ lock = p BY <1>3 DEF WriteManifest, TypeOK
  <2>7. /\ UNCHANGED <<git, nodes, edges, index, view>>
        /\ \/ lock' = Nobody /\ Become(p, Rest)
           \/ UNCHANGED lock /\ Become(p, [run[p] EXCEPT !.at = "index", !.edges = {}])
    BY <1>3 DEF WriteManifest, Release
  <2>8. [run[p] EXCEPT !.at = "index", !.edges = {}].at = "index" BY <1>0 DEF Run
  <2>9. CASE lock' = Nobody /\ Become(p, Rest)
    BY <2>4, <2>5, <2>6, <2>7, <2>9, RestType, MoveType DEF TypeOK, Outside, git
  <2>10. CASE UNCHANGED lock /\ Become(p, [run[p] EXCEPT !.at = "index", !.edges = {}])
    BY <2>4, <2>5, <2>6, <2>7, <2>8, <2>10, WriteStep, MoveType DEF TypeOK, Outside, git
  <2> QED BY <2>7, <2>9, <2>10
<1>4. CASE WriteIndex(p)
  <2>1. lock = p /\ lock' = Nobody /\ Become(p, Rest) BY <1>4 DEF WriteIndex, Release, TypeOK
  <2>2. index' \in [gen : Nat, nodes : Tree]
    <3> DEFINE t == [f \in File |-> IF f \in run[p].delta THEN run[p].nodes[f] ELSE index.nodes[f]]
    <3>1. t \in Tree BY <1>0, RunFields DEF TypeOK, Tree
    <3>2. index' = [gen |-> run[p].mine.gen, nodes |-> t] BY <1>4 DEF WriteIndex
    <3> HIDE DEF t
    <3> QED BY <1>0, <3>1, <3>2, RunFields
  <2> QED BY <1>4, <2>1, <2>2, RestType, MoveType DEF WriteIndex, TypeOK, Outside, git, soul
<1>5. CASE Die(p)
  <2>1. lock = p \/ run[p].at \in Outside BY DEF TypeOK, Outside
  <2>2. torn' \in BOOLEAN BY <1>5 DEF Die, TypeOK
  <2>3. Become(p, Rest) /\ UNCHANGED <<git, soul, index, view>> BY <1>5 DEF Die
  <2>4. CASE lock = p
    BY <1>5, <2>2, <2>3, <2>4, RestType, MoveType DEF Die, TypeOK, Outside, git, soul
  <2>5. CASE lock # p
    BY <1>5, <2>1, <2>2, <2>3, <2>5, RestType, MoveType DEF Die, TypeOK, Outside, git, soul
  <2> QED BY <2>4, <2>5
<1> QED BY <1>1, <1>2, <1>3, <1>4, <1>5

\* An edit, a commit and a reader keep the types.
LEMMA TypeOKOthers ==
    ASSUME TypeOK,
           \/ Record \/ \E f \in File : Edit(f)
           \/ \E r \in Reader : ReadManifest(r) \/ ReadNodes(r) \/ ReadEdges(r)
    PROVE  TypeOK'
<1>1. CASE Record
  <2>1. head' \in Tree BY <1>1 DEF Record, TypeOK, Tree
  <2> QED BY <1>1, <2>1 DEF Record, TypeOK, soul
<1>2. ASSUME NEW f \in File, Edit(f) PROVE TypeOK'
  <2>1. PICK v \in 0 .. Last[f] : work' = [work EXCEPT ![f] = v] BY <1>2 DEF Edit
  <2>2. Last[f] \in 0 .. MaxContent /\ MaxContent \in Nat BY SoulAssumption
  <2>3. v \in 0 .. MaxContent BY <2>2
  <2>4. work \in [File -> 0 .. MaxContent] BY DEF TypeOK, Tree
  <2>5. work' \in Tree BY <2>1, <2>3, <2>4 DEF Tree
  <2> QED BY <1>2, <2>5 DEF Edit, TypeOK, soul
<1>3. ASSUME NEW r \in Reader, ReadManifest(r) \/ ReadNodes(r) \/ ReadEdges(r)
      PROVE  TypeOK'
  <2>1. Unread \in View BY NowhereType DEF Unread, View
  <2>2. view[r] \in View BY DEF TypeOK
  <2>3. manifest.stamp \in Nat BY DEF TypeOK, Manifest
  <2>4. [Unread EXCEPT !.at = "nodes", !.stamp = manifest.stamp] \in View
    BY <2>1, <2>3 DEF View
  <2>5. [view[r] EXCEPT !.at = "edges", !.nodes = nodes] \in View BY <2>2 DEF View, TypeOK
  <2>6. [view[r] EXCEPT !.at = "serving", !.edges = edges] \in View BY <2>2 DEF View, TypeOK
  <2>7. \E next \in View : See(r, next)
    BY <1>3, <2>4, <2>5, <2>6 DEF ReadManifest, ReadNodes, ReadEdges
  <2>8. PICK next \in View : See(r, next) BY <2>7
  <2>9. view' \in [Reader -> View] BY <2>8 DEF See, TypeOK
  <2> QED BY <2>8, <2>9 DEF See, TypeOK, git, soul
<1> QED BY <1>1, <1>2, <1>3

\* Every variable has its type at the start.
LEMMA TypeInit == Init => TypeOK
<1> SUFFICES ASSUME Init PROVE TypeOK OBVIOUS
<1>1. 1 \in Nat /\ [since |-> Nowhere, gen |-> 1, stamp |-> 1] \in Manifest
  BY NowhereType DEF Manifest
<1>2. Resolved(File, Nowhere, Nowhere) \subseteq Edge BY ResolvedType
<1>3. Unread \in View BY NowhereType DEF Unread, View
<1>4. Nobody \notin Proc BY SoulAssumption
<1> QED BY <1>1, <1>2, <1>3, <1>4, NowhereType, RestType DEF Init, TypeOK

\* Every variable keeps its type, and who is past the lock holds it.
THEOREM TypeCorrect == Spec => []TypeOK
<1>1. TypeOK /\ [Next]_vars => TypeOK'
  <2>1. CASE UNCHANGED vars BY <2>1 DEF vars, git, soul, TypeOK
  <2> QED BY <2>1, TypeOKMoves, TypeOKWrites, TypeOKOthers DEF Next
<1> QED BY TypeInit, <1>1, PTL DEF Spec

-----------------------------------------------------------------------------
(* An edge is dropped only with its reference. *)

\* Extracting again keeps the edges whose reference and whose ends are still there.
THEOREM ReferrersKeepEdges == Spec => EdgesKept
<1> DEFINE Kept(p) ==
      run[p].at = "resolve" /\ run'[p].at = "write" =>
          run[p].edges \cap Resolved(File, work, run'[p].nodes)
                      \cap Resolved(File, run'[p].nodes, run'[p].nodes)
              \subseteq run'[p].edges
<1>1. ASSUME TypeOK, [Next]_vars, NEW p \in Proc PROVE Kept(p)
  <2> SUFFICES ASSUME run[p].at = "resolve", run'[p].at = "write" PROVE Kept(p) OBVIOUS
  <2>1. run \in [Proc -> Run] BY <1>1 DEF TypeOK
  <2>2. Extract(p)
    <3>1. ASSUME NEW q \in Proc, NEW next, Become(q, next), q # p PROVE FALSE
      BY <2>1, <3>1 DEF Become
    <3>2. ASSUME NEW next, next.at # "write", Become(p, next) PROVE FALSE
      BY <2>1, <3>2 DEF Become
    <3>3. ~ UNCHANGED run OBVIOUS
    <3>4. ~ Record /\ ~ \E f \in File : Edit(f) BY <3>3 DEF Record, Edit
    <3>5. ~ \E r \in Reader : ReadManifest(r) \/ ReadNodes(r) \/ ReadEdges(r)
      BY <3>3 DEF ReadManifest, ReadNodes, ReadEdges, See
    <3>6. PICK q \in Proc :
            \/ Open(q) \/ Load(q) \/ Reindex(q) \/ Lock(q) \/ Look(q) \/ Diff(q)
            \/ Parse(q) \/ Extract(q) \/ ExtractAll(q) \/ Stamp(q)
            \/ WriteNodes(q) \/ WriteEdges(q) \/ WriteManifest(q) \/ WriteIndex(q) \/ Die(q)
      BY <1>1, <3>3, <3>4, <3>5 DEF Next, vars
    <3>7. q = p
      BY <3>1, <3>6 DEF Open, Load, Reindex, Lock, Look, Diff, Parse, Extract,
         ExtractAll, Stamp, WriteNodes, WriteEdges, WriteManifest, WriteIndex, Die, Release
    <3>8. ~Die(p) BY <3>2, RestType DEF Die
    <3>9. ~ExtractAll(p) BY <1>1, <3>2, ExtractAllStep
    <3> QED BY <3>6, <3>7, <3>8, <3>9
         DEF Open, Load, Reindex, Lock, Look, Diff, Parse, Stamp, WriteNodes, WriteEdges,
             WriteManifest, WriteIndex
  <2>3. /\ run'[p].nodes = Now(p)
        /\ run'[p].edges = Attached((run[p].edges \ Dropped(p)) \cup Drawn(p), Now(p))
    <3> DEFINE next == Commit(Extracted(p), Anchor(run[p]), Dirty(p),
                              Shards(Sources(Dropped(p) \cup Drawn(p))))
    <3>1. /\ Become(p, next) /\ next.nodes = Now(p)
          /\ next.edges = Attached((run[p].edges \ Dropped(p)) \cup Drawn(p), Now(p))
      BY <1>1, <2>2, ExtractStep
    <3> HIDE DEF next
    <3> QED BY <2>1, <3>1 DEF Become
  <2>4. ASSUME NEW e \in run[p].edges, e \in Resolved(File, work, Now(p))
        PROVE  e \in Attached((run[p].edges \ Dropped(p)) \cup Drawn(p), Now(p))
    <3>1. /\ e \in File \X File /\ Refers(work, e[1], e[2])
          /\ Present(Now(p), e[1]) /\ Present(Now(p), e[2])
      BY <2>4 DEF Resolved
    <3>2. CASE e \in Dropped(p)
      <4>1. e[1] \in Closure(run[p].changed, run[p].edges)
        BY <3>2 DEF Dropped, Touching, Closure
      <4>2. e \in Drawn(p) BY <3>1, <4>1 DEF Drawn, Resolved
      <4> QED BY <3>1, <4>2 DEF Attached
    <3>3. CASE e \notin Dropped(p) BY <3>1, <3>3 DEF Attached
    <3> QED BY <3>2, <3>3
  <2> QED BY <2>3, <2>4
<1>2. TypeOK /\ [Next]_vars =>
        [\A p \in Proc : run[p].at = "resolve" /\ run'[p].at = "write" =>
            run[p].edges \cap Resolved(File, work, run'[p].nodes)
                        \cap Resolved(File, run'[p].nodes, run'[p].nodes)
                \subseteq run'[p].edges]_vars
  BY <1>1
<1> QED BY <1>2, TypeCorrect, PTL DEF Spec, EdgesKept

-----------------------------------------------------------------------------
(* One updater: what it loaded is what is on disk until it writes. *)

Solo == \A p, q \in Proc : p = q

\* Every shard that is not to be written any more holds the graph of the commit.
OnDisk(r) ==
    /\ \A f \in File : ShardOf[f] \notin r.todo => nodes[f] = r.nodes[f]
    /\ \A e \in Edge : ShardOf[e[1]] \notin r.todoEdges => (e \in edges <=> e \in r.edges)

\* A commit of nothing finds nothing to write in a graph no death has torn.
NoopWritesNothing(r) ==
    r.changed = {} =>
        /\ r.mine.stamp = manifest.stamp
        /\ ~torn => r.todo = {} /\ r.todoEdges = {}

Updating(r) == r.op # "index" /\ r.at \in {"load", "lock", "look", "diff", "extract", "resolve"}

Synced(r) ==
    /\ Updating(r) => r.mine = manifest
    /\ Updating(r) /\ r.at # "load" => r.nodes = nodes /\ r.edges = edges
    /\ r.at \in {"extract", "resolve"} /\ r.op # "index" => r.changed # {}
    /\ r.at = "diff" => r.op # "index"
    /\ r.at = "look" /\ r.op = "index" => r.changed = File
    /\ r.at = "write" =>
          /\ r.edges \subseteq Attached(r.edges, r.nodes)
          /\ OnDisk(r) /\ NoopWritesNothing(r)

\* No edge on disk dangles, unless a commit is under way or has died.
Clean == ~torn /\ ~Writing => edges \subseteq Attached(edges, nodes)

Overwriting == \E p \in Proc : run[p].at = "write" /\ run[p].changed # {}

\* A reader under the stamp of the manifest has what is on disk.
Current(v) ==
    /\ v.stamp <= manifest.stamp
    /\ v.stamp = manifest.stamp /\ ~torn /\ ~Overwriting =>
          /\ v.at \in {"edges", "serving"} => v.nodes = nodes
          /\ v.at = "serving" => v.edges = edges

SoloInv == Clean /\ \A p \in Proc : Synced(run[p])
ReaderInv == \A r \in Reader : Current(view[r])

\* Contents are numbers.
LEMMA TreeNat == ASSUME NEW t \in Tree, NEW f \in File PROVE t[f] \in Nat
BY SoulAssumption DEF Tree

\* A step of one process changes its run only.
LEMMA Moved ==
    ASSUME TypeOK, NEW p \in Proc, NEW next, Become(p, next)
    PROVE  run'[p] = next /\ \A q \in Proc : q # p => run'[q] = run[q]
BY DEF TypeOK, Become

\* A process at rest promises nothing.
LEMMA RestSynced == Synced(Rest)
BY RestType DEF Synced, Updating

\* The one updater moves without touching the disk, from a place where it does not write.
LEMMA SyncedMove ==
    ASSUME Solo, TypeOK, SoloInv, ReaderInv, NEW p \in Proc, NEW next, Become(p, next),
           UNCHANGED <<nodes, edges, manifest, torn, view>>,
           run[p].at # "write", Synced(next)
    PROVE  SoloInv' /\ ReaderInv'
<1>1. run'[p] = next /\ \A q \in Proc : q = p BY Moved DEF Solo
<1>2. ~Writing /\ ~Overwriting BY <1>1 DEF Writing, Overwriting
<1>3. ASSUME NEW q \in Proc PROVE Synced(run[q])'
  <2>1. run'[q] = next BY <1>1
  <2> QED BY <2>1 DEF Synced, Updating, OnDisk, NoopWritesNothing
<1>4. Clean' BY <1>2 DEF SoloInv, Clean
<1>5. ReaderInv' BY <1>2 DEF ReaderInv, Current
<1> QED BY <1>3, <1>4, <1>5 DEF SoloInv

\* What is loaded stays what is on disk until the commit.
LEMMA SyncedBefore ==
    ASSUME Solo, TypeOK, SoloInv, ReaderInv, NEW p \in Proc,
           Open(p) \/ Load(p) \/ Reindex(p) \/ Lock(p) \/ Look(p)
    PROVE  SoloInv' /\ ReaderInv'
<1>1. UNCHANGED <<nodes, edges, manifest, torn, view>>
  BY DEF Open, Load, Reindex, Lock, Look, soul
<1>2. Synced(run[p]) BY DEF SoloInv
<1>3. run[p].at # "write" BY DEF Open, Load, Reindex, Lock, Look
<1>4. CASE Open(p)
  <2>1. PICK next : Become(p, next) /\ next.at = "load" /\ next.mine = manifest
    BY <1>4, OpenStep
  <2>2. Synced(next) BY <2>1 DEF Synced
  <2> QED BY <1>1, <1>3, <2>1, <2>2, SyncedMove
<1>5. CASE Load(p)
  <2>1. PICK next :
          /\ run[p].at = "load" /\ Become(p, next) /\ next.at = "lock" /\ next.op = run[p].op
          /\ next.mine = run[p].mine /\ next.nodes = nodes /\ next.edges = edges
    BY <1>5, LoadStep
  <2>2. Synced(next) BY <1>2, <2>1 DEF Synced, Updating
  <2> QED BY <1>1, <1>3, <2>1, <2>2, SyncedMove
<1>6. CASE Reindex(p)
  <2>1. PICK next : Become(p, next) /\ next.at = "lock" /\ next.op = "index"
    BY <1>6, ReindexStep
  <2>2. Synced(next) BY <2>1 DEF Synced, Updating
  <2> QED BY <1>1, <1>3, <2>1, <2>2, SyncedMove
<1>7. CASE Lock(p)
  <2>1. CASE Become(p, Rest) BY <1>1, <1>3, <2>1, RestSynced, SyncedMove
  <2>2. CASE \E next :
               /\ Become(p, next) /\ run[p].at = "lock"
               /\ next.at = (IF run[p].op = "index" THEN "extract" ELSE "look")
               /\ next.op = run[p].op /\ next.mine = run[p].mine
               /\ next.nodes = run[p].nodes /\ next.edges = run[p].edges
    <3>1. PICK next :
            /\ Become(p, next) /\ run[p].at = "lock"
            /\ next.at = (IF run[p].op = "index" THEN "extract" ELSE "look")
            /\ next.op = run[p].op /\ next.mine = run[p].mine
            /\ next.nodes = run[p].nodes /\ next.edges = run[p].edges
      BY <2>2
    <3>2. Synced(next) BY <1>2, <3>1 DEF Synced, Updating
    <3> QED BY <1>1, <1>3, <3>1, <3>2, SyncedMove
  <2> QED BY <1>7, <2>1, <2>2, LockStep
<1>8. CASE Look(p)
  <2>1. PICK next :
          /\ run[p].at = "look" /\ Become(p, next) /\ run[p].op # "index"
          /\ next.at = "diff" /\ next.op = run[p].op /\ next.mine = run[p].mine
          /\ next.nodes = run[p].nodes /\ next.edges = run[p].edges
    BY <1>8, LookStep
  <2>2. Synced(next) BY <1>2, <2>1 DEF Synced, Updating
  <2> QED BY <1>1, <1>3, <2>1, <2>2, SyncedMove
<1> QED BY <1>4, <1>5, <1>6, <1>7, <1>8

\* A commit of nothing writes what a death left dangling, and nothing else.
LEMMA SyncedDiff ==
    ASSUME Solo, TypeOK, SoloInv, ReaderInv, NEW p \in Proc, Diff(p)
    PROVE  SoloInv' /\ ReaderInv'
<1>1. UNCHANGED <<nodes, edges, manifest, torn, view>> BY DEF Diff, soul
<1>2. run[p].at = "diff" BY DiffStep
<1>3. /\ run[p].mine = manifest /\ run[p].nodes = nodes /\ run[p].edges = edges
      /\ run[p].op # "index"
  BY <1>2 DEF SoloInv, Synced, Updating
<1>4. run[p] \in Run BY DEF TypeOK
<1>5. CASE Become(p, Rest) BY <1>1, <1>2, <1>5, RestSynced, SyncedMove
<1>6. CASE \E next \in Run :
             /\ Become(p, next) /\ next.changed # {}
             /\ next.at = "extract" /\ next.op = run[p].op /\ next.mine = run[p].mine
             /\ next.nodes = run[p].nodes /\ next.edges = run[p].edges
  <2>1. PICK next \in Run :
             /\ Become(p, next) /\ next.changed # {}
             /\ next.at = "extract" /\ next.op = run[p].op /\ next.mine = run[p].mine
             /\ next.nodes = run[p].nodes /\ next.edges = run[p].edges
    BY <1>6
  <2>2. Synced(next) BY <1>3, <2>1 DEF Synced
  <2> QED BY <1>1, <1>2, <2>1, <2>2, SyncedMove
<1>7. CASE Become(p, Commit(run[p], run[p].seen, {}, {}))
  <2> DEFINE next == Commit(run[p], run[p].seen, {}, {})
             kept == Attached(edges, nodes)
  <2>1. run[p].seen \in Tree /\ {} \in SUBSET Shard BY <1>4, RunFields
  <2>2. Committed(next, run[p], run[p].seen, {}, {}) BY <1>4, <2>1, CommitType
  <2>3. /\ next.at = "write" /\ next.op = run[p].op /\ next.nodes = nodes
        /\ next.edges = kept /\ next.todo = {}
        /\ next.todoEdges = Shards(Sources(edges \ kept))
        /\ next.mine.stamp = manifest.stamp
    BY <1>3, <2>2 DEF Committed
  <2>4. Become(p, next) BY <1>7
  <2> HIDE DEF next
  <2>5. kept \subseteq Attached(kept, nodes) BY DEF Attached
  <2>6. OnDisk(next)
    <3>1. ASSUME NEW e \in Edge, ShardOf[e[1]] \notin next.todoEdges
          PROVE  e \in edges <=> e \in kept
      <4>1. e \notin edges \ kept BY <2>3, <3>1 DEF Shards, Sources
      <4> QED BY <4>1 DEF Attached
    <3> QED BY <2>3, <3>1 DEF OnDisk
  <2>7. NoopWritesNothing(next)
    <3>1. ~Writing BY <1>2 DEF Solo, Writing
    <3>2. ~torn => edges \ kept = {} BY <3>1 DEF SoloInv, Clean
    <3>3. ~torn => next.todoEdges = {} BY <2>3, <3>2 DEF Shards, Sources
    <3> QED BY <2>3, <3>3 DEF NoopWritesNothing
  <2>8. Synced(next) BY <2>3, <2>5, <2>6, <2>7 DEF Synced, Updating
  <2> QED BY <1>1, <1>2, <2>4, <2>8, SyncedMove
<1> QED BY <1>5, <1>6, <1>7, DiffStep

\* A parse leaves the graph that was loaded.
LEMMA SyncedParse ==
    ASSUME Solo, TypeOK, SoloInv, ReaderInv, NEW p \in Proc, Parse(p)
    PROVE  SoloInv' /\ ReaderInv'
<1>1. UNCHANGED <<nodes, edges, manifest, torn, view>> BY DEF Parse, soul
<1>2. PICK next :
        /\ run[p].at = "extract" /\ Become(p, next)
        /\ next.at = "resolve" /\ next.op = run[p].op /\ next.mine = run[p].mine
        /\ next.nodes = run[p].nodes /\ next.edges = run[p].edges
        /\ next.changed = run[p].changed
  BY ParseStep
<1>3. Synced(next) BY <1>2 DEF SoloInv, Synced, Updating
<1> QED BY <1>1, <1>2, <1>3, SyncedMove

\* A changed file that the update neither had nor has is as it was on disk.
LEMMA AbsentTwice ==
    ASSUME TypeOK, SoloInv, NEW p \in Proc, Updating(run[p]), run[p].at # "load",
           NEW f \in File, ~Held(p, f)
    PROVE  Now(p)[f] = nodes[f]
<1>1. run[p].nodes = nodes BY DEF SoloInv, Synced
<1>2. nodes[f] \in Gone[f] /\ Now(p)[f] \in Gone[f] BY <1>1 DEF Held, Present
<1> QED BY <1>2, SoulAssumption

\* The shards an update does not write hold its graph already.
LEMMA SyncedExtract ==
    ASSUME Solo, TypeOK, SoloInv, ReaderInv, NEW p \in Proc, Extract(p)
    PROVE  SoloInv' /\ ReaderInv'
<1> DEFINE es == (run[p].edges \ Dropped(p)) \cup Drawn(p)
<1>1. UNCHANGED <<nodes, edges, manifest, torn, view>> BY DEF Extract, soul
<1>2. PICK next :
        /\ run[p].at = "resolve" /\ run[p].op # "index" /\ Become(p, next)
        /\ next.at = "write" /\ next.op = run[p].op /\ next.changed = run[p].changed
        /\ next.nodes = Now(p) /\ next.edges = Attached(es, Now(p))
        /\ next.todo = Dirty(p)
        /\ next.todoEdges = Shards(Sources(Dropped(p) \cup Drawn(p)))
              \cup Shards(Sources(es \ next.edges))
  BY ExtractStep
<1>3. run[p].nodes = nodes /\ run[p].edges = edges /\ run[p].changed # {}
  BY <1>2 DEF SoloInv, Synced, Updating
<1>4. next.edges \subseteq Attached(next.edges, next.nodes) BY <1>2 DEF Attached
<1>5. ASSUME NEW f \in File, ShardOf[f] \notin next.todo PROVE nodes[f] = next.nodes[f]
  <2>1. CASE f \notin run[p].changed BY <1>2, <1>3, <2>1 DEF Now
  <2>2. CASE f \in run[p].changed
    <3>1. ~Held(p, f) BY <1>2, <1>5, <2>2 DEF Dirty, Shards
    <3> QED BY <1>2, <3>1, AbsentTwice DEF Updating
  <2> QED BY <2>1, <2>2
<1>6. ASSUME NEW e \in Edge, ShardOf[e[1]] \notin next.todoEdges
      PROVE  e \in edges <=> e \in next.edges
  <2>1. e \notin Dropped(p) \cup Drawn(p) /\ e \notin es \ next.edges
    BY <1>2, <1>6 DEF Shards, Sources
  <2>2. next.edges \subseteq es BY <1>2 DEF Attached
  <2> QED BY <1>3, <2>1, <2>2
<1>7. OnDisk(next) BY <1>5, <1>6 DEF OnDisk
<1>8. Synced(next) BY <1>2, <1>3, <1>4, <1>7 DEF Synced, Updating, NoopWritesNothing
<1> QED BY <1>1, <1>2, <1>8, SyncedMove

\* A full index writes every shard.
LEMMA SyncedIndex ==
    ASSUME Solo, File # {}, TypeOK, SoloInv, ReaderInv, NEW p \in Proc,
           ExtractAll(p) \/ Stamp(p)
    PROVE  SoloInv' /\ ReaderInv'
<1>1. UNCHANGED <<nodes, edges, manifest, torn, view>> BY DEF ExtractAll, Stamp, soul
<1>2. CASE ExtractAll(p)
  <2>1. PICK next : /\ run[p].at = "resolve" /\ Become(p, next) /\ next.at = "look"
                    /\ next.op = "index" /\ next.changed = File
    BY <1>2, ExtractAllStep
  <2>2. Synced(next) BY <2>1 DEF Synced, Updating
  <2> QED BY <1>1, <2>1, <2>2, SyncedMove
<1>3. CASE Stamp(p)
  <2>1. PICK next :
          /\ run[p].at = "look" /\ run[p].op = "index" /\ Become(p, next)
          /\ next.at = "write" /\ next.op = "index"
          /\ next.nodes = run[p].nodes /\ next.changed = run[p].changed
          /\ next.edges = Attached(run[p].edges, run[p].nodes)
          /\ next.todo = Shard /\ next.todoEdges = Shard
    BY <1>3, StampStep
  <2>2. next.changed # {} BY <2>1 DEF SoloInv, Synced
  <2>3. next.edges \subseteq Attached(next.edges, next.nodes) BY <2>1 DEF Attached
  <2>4. OnDisk(next) BY <2>1, SoulAssumption DEF OnDisk, Edge
  <2>5. Synced(next) BY <2>1, <2>2, <2>3, <2>4 DEF Synced, Updating, NoopWritesNothing
  <2> QED BY <1>1, <2>1, <2>5, SyncedMove
<1> QED BY <1>2, <1>3

\* A shard that is written holds the graph of the commit from then on.
LEMMA SyncedWrite ==
    ASSUME Solo, TypeOK, SoloInv, ReaderInv, NEW p \in Proc,
           WriteNodes(p) \/ WriteEdges(p)
    PROVE  SoloInv' /\ ReaderInv'
<1>1. run[p].at = "write" /\ UNCHANGED <<manifest, torn, view>>
  BY DEF WriteNodes, WriteEdges
<1>2. run[p] \in Run /\ \A q \in Proc : q = p BY DEF TypeOK, Solo
<1>3. Synced(run[p]) BY DEF SoloInv
<1>4. run[p].todo # {} \/ run[p].todoEdges # {} BY DEF WriteNodes, WriteEdges
<1>5. torn \/ run[p].changed # {} BY <1>1, <1>3, <1>4 DEF Synced, NoopWritesNothing
<1>6. PICK next :
        /\ Become(p, next) /\ next.at = "write" /\ next.op = run[p].op
        /\ next.mine = run[p].mine /\ next.changed = run[p].changed
        /\ next.nodes = run[p].nodes /\ next.edges = run[p].edges
        /\ next.todo \subseteq run[p].todo /\ next.todoEdges \subseteq run[p].todoEdges
        /\ \/ \E s \in run[p].todo :
                /\ next.todo = run[p].todo \ {s} /\ next.todoEdges = run[p].todoEdges
                /\ nodes' = [f \in File |-> IF ShardOf[f] = s THEN run[p].nodes[f]
                                            ELSE nodes[f]]
                /\ edges' = edges
           \/ \E s \in run[p].todoEdges :
                /\ next.todoEdges = run[p].todoEdges \ {s} /\ next.todo = run[p].todo
                /\ edges' = (edges \ {e \in Edge : ShardOf[e[1]] = s})
                              \cup (run[p].edges \cap {e \in Edge : ShardOf[e[1]] = s})
                /\ nodes' = nodes
  <2>1. CASE WriteNodes(p)
    <3>1. PICK s \in run[p].todo :
            /\ nodes' = [f \in File |-> IF ShardOf[f] = s THEN run[p].nodes[f] ELSE nodes[f]]
            /\ Become(p, [run[p] EXCEPT !.todo = @ \ {s}]) /\ edges' = edges
      BY <2>1 DEF WriteNodes
    <3> DEFINE n == [run[p] EXCEPT !.todo = @ \ {s}]
    <3>2. /\ n.at = run[p].at /\ n.op = run[p].op /\ n.mine = run[p].mine
          /\ n.changed = run[p].changed /\ n.nodes = run[p].nodes /\ n.edges = run[p].edges
          /\ n.todo = run[p].todo \ {s} /\ n.todoEdges = run[p].todoEdges
      BY <1>2 DEF Run
    <3>3. Become(p, n) BY <3>1
    <3> HIDE DEF n
    <3> QED BY <1>1, <3>1, <3>2, <3>3
  <2>2. CASE WriteEdges(p)
    <3>1. PICK s \in run[p].todoEdges :
            /\ edges' = (edges \ {e \in Edge : ShardOf[e[1]] = s})
                          \cup (run[p].edges \cap {e \in Edge : ShardOf[e[1]] = s})
            /\ Become(p, [run[p] EXCEPT !.todoEdges = @ \ {s}]) /\ nodes' = nodes
      BY <2>2 DEF WriteEdges
    <3> DEFINE n == [run[p] EXCEPT !.todoEdges = @ \ {s}]
    <3>2. /\ n.at = run[p].at /\ n.op = run[p].op /\ n.mine = run[p].mine
          /\ n.changed = run[p].changed /\ n.nodes = run[p].nodes /\ n.edges = run[p].edges
          /\ n.todoEdges = run[p].todoEdges \ {s} /\ n.todo = run[p].todo
      BY <1>2 DEF Run
    <3>3. Become(p, n) BY <3>1
    <3> HIDE DEF n
    <3> QED BY <1>1, <3>1, <3>2, <3>3
  <2> QED BY <2>1, <2>2
<1>7. run'[p] = next BY <1>6, Moved
<1>8. OnDisk(run[p]) BY <1>1, <1>3 DEF Synced
<1>9. ASSUME NEW f \in File, ShardOf[f] \notin next.todo PROVE nodes'[f] = next.nodes[f]
  BY <1>6, <1>8, <1>9 DEF OnDisk
<1>10. ASSUME NEW e \in Edge, ShardOf[e[1]] \notin next.todoEdges
       PROVE  e \in edges' <=> e \in next.edges
  <2>1. CASE edges' = edges /\ next.todoEdges = run[p].todoEdges
    BY <1>6, <1>8, <1>10, <2>1 DEF OnDisk
  <2>2. CASE \E s \in run[p].todoEdges :
                /\ next.todoEdges = run[p].todoEdges \ {s}
                /\ edges' = (edges \ {d \in Edge : ShardOf[d[1]] = s})
                              \cup (run[p].edges \cap {d \in Edge : ShardOf[d[1]] = s})
    <3>1. PICK s \in run[p].todoEdges :
                /\ next.todoEdges = run[p].todoEdges \ {s}
                /\ edges' = (edges \ {d \in Edge : ShardOf[d[1]] = s})
                              \cup (run[p].edges \cap {d \in Edge : ShardOf[d[1]] = s})
      BY <2>2
    <3>2. CASE ShardOf[e[1]] = s BY <1>6, <3>1, <3>2
    <3>3. CASE ShardOf[e[1]] # s
      <4>1. ShardOf[e[1]] \notin run[p].todoEdges BY <1>10, <3>1, <3>3
      <4>2. e \in edges <=> e \in run[p].edges BY <1>8, <4>1 DEF OnDisk
      <4> QED BY <1>6, <3>1, <3>3, <4>2
    <3> QED BY <3>2, <3>3
  <2> QED BY <1>6, <2>1, <2>2
<1>11. OnDisk(run[p])' BY <1>7, <1>9, <1>10 DEF OnDisk
<1>12. NoopWritesNothing(run[p])'
  <2>1. next.changed = {} => torn BY <1>5, <1>6
  <2>2. next.changed = {} => next.mine.stamp = manifest.stamp
    BY <1>1, <1>3, <1>6 DEF Synced, NoopWritesNothing
  <2> QED BY <1>1, <1>7, <2>1, <2>2 DEF NoopWritesNothing
<1>13. (run[p].edges \subseteq Attached(run[p].edges, run[p].nodes))'
  <2>1. next.edges \subseteq Attached(next.edges, next.nodes) BY <1>1, <1>3, <1>6 DEF Synced
  <2> QED BY <1>7, <2>1
<1>14. Synced(run[p])' BY <1>6, <1>7, <1>11, <1>12, <1>13 DEF Synced, Updating
<1>15. Clean' BY <1>6, <1>7 DEF Clean, Writing
<1>16. torn' \/ Overwriting' BY <1>1, <1>5, <1>6, <1>7 DEF Overwriting
<1>17. ReaderInv' BY <1>1, <1>16 DEF ReaderInv, Current
<1> QED BY <1>2, <1>14, <1>15, <1>17 DEF SoloInv

\* The manifest is written when the shards hold the graph; its stamp is new if they changed.
LEMMA SyncedManifest ==
    ASSUME Solo, TypeOK, SoloInv, ReaderInv, NEW p \in Proc, WriteManifest(p)
    PROVE  SoloInv' /\ ReaderInv'
<1> DEFINE r == run[p]
           noop == r.changed = {}
<1>1. /\ r.at = "write" /\ r.todo = {} /\ r.todoEdges = {}
      /\ manifest' = [r.mine EXCEPT !.stamp = IF noop THEN @ ELSE manifest.stamp + 1]
      /\ torn' = (torn /\ noop) /\ UNCHANGED <<nodes, edges, view>>
  BY DEF WriteManifest
<1>2. r \in Run /\ \A q \in Proc : q = p BY DEF TypeOK, Solo
<1>3. /\ r.edges \subseteq Attached(r.edges, r.nodes)
      /\ OnDisk(r) /\ NoopWritesNothing(r)
  BY <1>1 DEF SoloInv, Synced
<1>4. manifest.stamp \in Nat /\ r.mine \in Manifest BY <1>2, RunFields DEF TypeOK, Manifest
<1>5. manifest'.stamp = IF noop THEN manifest.stamp ELSE manifest.stamp + 1
  BY <1>1, <1>3, <1>4 DEF NoopWritesNothing, Manifest
<1>6. edges = r.edges
  <2>1. edges \subseteq Edge /\ r.edges \subseteq Edge BY <1>2, RunFields DEF TypeOK
  <2> QED BY <1>1, <1>3, <2>1 DEF OnDisk
<1>7. nodes = r.nodes
  <2>1. nodes \in [File -> 0 .. MaxContent] /\ r.nodes \in [File -> 0 .. MaxContent]
    BY <1>2, RunFields DEF TypeOK, Tree
  <2>2. \A f \in File : nodes[f] = r.nodes[f] BY <1>1, <1>3 DEF OnDisk
  <2> QED BY <2>1, <2>2
<1>8. Clean'
  <2>1. edges \subseteq Attached(edges, nodes) BY <1>3, <1>6, <1>7
  <2>2. edges' \subseteq Attached(edges', nodes') BY <1>1, <2>1
  <2> QED BY <2>2 DEF Clean
<1>9. PICK next : Become(p, next) /\ next.at \in {"idle", "index"}
  <2>1. [run[p] EXCEPT !.at = "index", !.edges = {}].at = "index" BY DEF TypeOK, Run
  <2> QED BY <2>1, RestType DEF WriteManifest, Release
<1>10. run'[p] = next BY <1>9, Moved
<1>11. Synced(run[p])' BY <1>9, <1>10 DEF Synced, Updating
<1>12. ASSUME NEW rd \in Reader PROVE Current(view[rd])'
  <2>1. Current(view[rd]) /\ view[rd].stamp \in Nat BY DEF ReaderInv, TypeOK, View
  <2>2. CASE noop
    <3>1. ~Overwriting BY <1>2, <2>2 DEF Overwriting
    <3>2. torn' = torn BY <1>1, <2>2 DEF TypeOK
    <3> QED BY <1>1, <1>5, <2>1, <2>2, <3>1, <3>2 DEF Current
  <2>3. CASE ~noop
    <3>1. view[rd].stamp < manifest'.stamp BY <1>4, <1>5, <2>1, <2>3 DEF Current
    <3> QED BY <1>1, <1>4, <1>5, <2>1, <2>3, <3>1 DEF Current
  <2> QED BY <2>2, <2>3
<1> QED BY <1>2, <1>8, <1>11, <1>12 DEF SoloInv, ReaderInv

\* After the manifest the graph is not touched; a death before it tears the graph.
LEMMA SyncedAfter ==
    ASSUME Solo, TypeOK, SoloInv, ReaderInv, NEW p \in Proc, WriteIndex(p) \/ Die(p)
    PROVE  SoloInv' /\ ReaderInv'
<1>1. Become(p, Rest) /\ UNCHANGED <<nodes, edges, manifest, view>>
  BY DEF WriteIndex, Die, Release, soul
<1>2. CASE run[p].at # "write"
  <2>1. torn' = torn BY <1>2 DEF WriteIndex, Die, TypeOK
  <2> QED BY <1>1, <1>2, <2>1, RestSynced, SyncedMove
<1>3. CASE run[p].at = "write"
  <2>1. torn' BY <1>3 DEF WriteIndex, Die
  <2>2. run'[p] = Rest /\ \A q \in Proc : q = p BY <1>1, Moved DEF Solo
  <2>3. Synced(run[p])' BY <2>2, RestType DEF Synced, Updating
  <2>4. Clean' BY <2>1 DEF Clean
  <2>5. ReaderInv' BY <1>1, <2>1 DEF ReaderInv, Current
  <2> QED BY <2>2, <2>3, <2>4, <2>5 DEF SoloInv
<1> QED BY <1>2, <1>3

\* A reader takes the stamp before it takes the shards.
LEMMA SyncedRead ==
    ASSUME TypeOK, SoloInv, ReaderInv,
           NEW r \in Reader, ReadManifest(r) \/ ReadNodes(r) \/ ReadEdges(r)
    PROVE  SoloInv' /\ ReaderInv'
<1>1. PICK next :
        /\ See(r, next) /\ next.at \in {"nodes", "edges", "serving"}
        /\ next.at = "nodes" => next.stamp = manifest.stamp
        /\ next.at # "nodes" => next.stamp = view[r].stamp
        /\ next.at = "edges" => next.nodes = nodes
        /\ next.at = "serving" => /\ view[r].at = "edges" /\ next.nodes = view[r].nodes
                                  /\ next.edges = edges
  <2>1. Unread \in View /\ view[r] \in View BY NowhereType DEF Unread, View, TypeOK
  <2>2. CASE ReadManifest(r)
    <3> DEFINE n == [Unread EXCEPT !.at = "nodes", !.stamp = manifest.stamp]
    <3>1. n.at = "nodes" /\ n.stamp = manifest.stamp BY <2>1 DEF View
    <3> QED BY <2>2, <3>1 DEF ReadManifest
  <2>3. CASE ReadNodes(r)
    <3> DEFINE n == [view[r] EXCEPT !.at = "edges", !.nodes = nodes]
    <3>1. n.at = "edges" /\ n.stamp = view[r].stamp /\ n.nodes = nodes BY <2>1 DEF View
    <3> QED BY <2>3, <3>1 DEF ReadNodes
  <2>4. CASE ReadEdges(r)
    <3> DEFINE n == [view[r] EXCEPT !.at = "serving", !.edges = edges]
    <3>1. /\ n.at = "serving" /\ n.stamp = view[r].stamp /\ n.nodes = view[r].nodes
          /\ n.edges = edges
      BY <2>1 DEF View
    <3> QED BY <2>4, <3>1 DEF ReadEdges
  <2> QED BY <2>2, <2>3, <2>4
<1>2. /\ UNCHANGED <<nodes, edges, manifest, run, torn>>
      /\ view'[r] = next /\ \A q \in Reader : q # r => view'[q] = view[q]
  BY <1>1 DEF See, soul, TypeOK
<1>3. SoloInv'
  BY <1>2 DEF SoloInv, Clean, Writing, Synced, Updating, OnDisk, NoopWritesNothing
<1>4. Overwriting' <=> Overwriting BY <1>2 DEF Overwriting
<1>5. ASSUME NEW q \in Reader PROVE Current(view[q])'
  <2>1. Current(view[q]) BY DEF ReaderInv
  <2>2. manifest.stamp \in Nat BY DEF TypeOK, Manifest
  <2>3. CASE q # r BY <1>2, <1>4, <2>1, <2>3 DEF Current
  <2>4. CASE q = r
    <3>1. next.stamp <= manifest.stamp BY <1>1, <2>1, <2>2, <2>4 DEF Current
    <3>2. ASSUME next.stamp = manifest.stamp, ~torn, ~Overwriting
          PROVE  /\ next.at \in {"edges", "serving"} => next.nodes = nodes
                 /\ next.at = "serving" => next.edges = edges
      BY <1>1, <2>1, <2>4, <3>2 DEF Current
    <3> QED BY <1>2, <1>4, <2>4, <3>1, <3>2 DEF Current
  <2> QED BY <2>3, <2>4
<1> QED BY <1>3, <1>5 DEF ReaderInv

\* Every step of a repository with one updater keeps both invariants.
LEMMA SyncedStep ==
    ASSUME Solo, File # {}, TypeOK, SoloInv, ReaderInv, [Next]_vars
    PROVE  SoloInv' /\ ReaderInv'
<1>1. CASE UNCHANGED <<soul, run, view, torn>>
  BY <1>1 DEF soul, SoloInv, ReaderInv, Clean, Writing, Synced, Updating, OnDisk,
     NoopWritesNothing, Current, Overwriting
<1>2. ASSUME NEW p \in Proc,
             \/ Open(p) \/ Load(p) \/ Reindex(p) \/ Lock(p) \/ Look(p) \/ Diff(p)
             \/ Parse(p) \/ Extract(p) \/ ExtractAll(p) \/ Stamp(p)
             \/ WriteNodes(p) \/ WriteEdges(p) \/ WriteManifest(p) \/ WriteIndex(p) \/ Die(p)
      PROVE  SoloInv' /\ ReaderInv'
  BY <1>2, SyncedBefore, SyncedDiff, SyncedParse, SyncedExtract, SyncedIndex, SyncedWrite,
     SyncedManifest, SyncedAfter
<1>3. CASE \E r \in Reader : ReadManifest(r) \/ ReadNodes(r) \/ ReadEdges(r)
  BY <1>3, SyncedRead
<1>4. CASE UNCHANGED vars BY <1>1, <1>4 DEF vars
<1>5. CASE Record \/ \E f \in File : Edit(f) BY <1>1, <1>5 DEF Record, Edit
<1> QED BY <1>2, <1>3, <1>4, <1>5 DEF Next

\* At the start the graph is whole and nobody has read it.
LEMMA SyncedInit == Init => SoloInv /\ ReaderInv
<1> SUFFICES ASSUME Init PROVE SoloInv /\ ReaderInv OBVIOUS
<1>1. \A p \in Proc : Synced(run[p]) BY RestSynced DEF Init
<1>2. edges \subseteq Attached(edges, nodes) BY DEF Init, Resolved, Attached
<1>3. \A r \in Reader : view[r].stamp = 0 /\ view[r].at = "unread" BY DEF Init, Unread
<1>4. manifest.stamp = 1 BY DEF Init
<1>5. ReaderInv BY <1>3, <1>4 DEF ReaderInv, Current
<1> QED BY <1>1, <1>2, <1>5 DEF SoloInv, Clean

(* For one updater and any number of readers, files and shards: a reader that serves    *)
(* under the fingerprint of the manifest serves what is on disk, unless a commit is     *)
(* under way or has died in it.  Edits may be taken back and HEAD may move at any time. *)
THEOREM StaleReadersAlwaysNotice ==
    ASSUME Solo
    PROVE  Spec => []StaleReadersNotice
<1>1. CASE File # {}
  <2>1. TypeOK /\ SoloInv /\ ReaderInv /\ [Next]_vars => (SoloInv /\ ReaderInv)'
    BY <1>1, SyncedStep
  <2>2. ReaderInv => StaleReadersNotice
    BY DEF ReaderInv, Current, Overwriting, StaleReadersNotice, Writing
  <2> QED BY SyncedInit, TypeCorrect, <2>1, <2>2, PTL DEF Spec
<1>2. CASE File = {}
  <2>1. TypeOK => StaleReadersNotice
    <3> SUFFICES ASSUME TypeOK, NEW r \in Reader
                 PROVE  view[r].nodes = nodes /\ view[r].edges = edges
      BY DEF StaleReadersNotice
    <3>1. /\ view[r].nodes \in [File -> 0 .. MaxContent] /\ nodes \in [File -> 0 .. MaxContent]
          /\ view[r].edges \subseteq Edge /\ edges \subseteq Edge
      BY DEF TypeOK, View, Tree
    <3>2. Edge = {} BY <1>2 DEF Edge
    <3> QED BY <1>2, <3>1, <3>2
  <2> QED BY TypeCorrect, <2>1, PTL
<1> QED BY <1>1, <1>2

-----------------------------------------------------------------------------
(* Committed changes are not skipped. *)

\* No anchor, stored or in the hands of an update, is past the content c of f.
Reaches(c, f) ==
    /\ manifest.since[f] <= c
    /\ \A p \in Proc : Updating(run[p]) => run[p].mine.since[f] <= c

\* No anchor is past what the shards hold or HEAD records, nor HEAD past the work tree.
Ordered ==
    \A f \in File : Reaches(nodes[f], f) /\ Reaches(head[f], f) /\ head[f] <= work[f]

\* What an update knows of the files it will not extract.
Known(r) ==
    /\ r.at = "diff" => r.op # "index"
    /\ Updating(r) /\ r.at # "load" => \A f \in File : r.mine.since[f] <= r.nodes[f]
    /\ Updating(r) /\ r.at \in {"diff", "extract", "resolve"} =>
          \A f \in File : r.seen[f] <= head[f]
    /\ Updating(r) /\ r.at \in {"extract", "resolve"} /\ r.skipped = FALSE =>
          \A f \in File \ r.changed :
              r.seen[f] <= r.mine.since[f] /\ Reaches(r.mine.since[f], f)
    /\ Updating(r) /\ r.at = "resolve" =>
          \A f \in File : r.seen[f] <= r.parsed[f] /\ Reaches(r.parsed[f], f)

\* What a commit is about to write, and what it has written.
Written(r) ==
    /\ r.op = "index" /\ r.at = "resolve" => \A f \in File : head[f] <= r.parsed[f]
    /\ r.op = "index" /\ r.at = "look" => \A f \in File : head[f] <= r.nodes[f]
    /\ r.at = "write" =>
          \A f \in File :
              /\ Reaches(r.nodes[f], f)
              /\ r.mine.since[f] <= r.nodes[f]
              /\ r.mine.since[f] <= head[f]
              /\ r.mine.since[f] <= nodes[f] \/ ShardOf[f] \in r.todo

Anchored ==
    /\ Ordered
    /\ \A p \in Proc : Known(run[p]) /\ Written(run[p])

\* What reaches every anchor does so at any later content.
LEMMA ReachesUp ==
    ASSUME TypeOK, NEW f \in File, NEW c \in Nat, NEW d \in Nat, Reaches(c, f), c <= d
    PROVE  Reaches(d, f)
<1>1. manifest.since[f] \in Nat BY TreeNat DEF TypeOK, Manifest
<1>2. ASSUME NEW p \in Proc PROVE run[p].mine.since[f] \in Nat
  BY TreeNat, RunFields DEF TypeOK
<1> QED BY <1>1, <1>2 DEF Reaches

\* A step of one process that writes nothing and takes no new anchor.
LEMMA RunStep ==
    ASSUME TypeOK, Anchored, NEW p \in Proc, NEW next, Become(p, next),
           UNCHANGED <<head, work, nodes, manifest>>,
           Updating(next) =>
              next.mine = manifest \/ (Updating(run[p]) /\ next.mine = run[p].mine),
           Known(next), Written(next)
    PROVE  Anchored'
<1>1. run'[p] = next /\ \A q \in Proc : q # p => run'[q] = run[q] BY Moved
<1>3. ASSUME NEW c, NEW f \in File, Reaches(c, f)
      PROVE  /\ manifest'.since[f] <= c
             /\ \A q \in Proc : Updating(run[q])' => run'[q].mine.since[f] <= c
  BY <1>1, <1>3 DEF Reaches, Updating
<1>4. Ordered' BY <1>3 DEF Anchored, Ordered, Reaches
<1>5. ASSUME NEW q \in Proc PROVE (Known(run[q]) /\ Written(run[q]))'
  <2> DEFINE r == IF q = p THEN next ELSE run[q]
  <2>1. run'[q] = r BY <1>1
  <2>2. Known(r) /\ Written(r) BY DEF Anchored
  <2> HIDE DEF r
  <2>4. Known(run[q])'
    <3>1. ASSUME NEW f \in File, NEW c, Reaches(c, f) PROVE Reaches(c, f)'
      BY <1>3, <3>1 DEF Reaches
    <3> QED BY <2>1, <2>2, <3>1 DEF Known, Updating
  <2>5. Written(run[q])'
    <3>1. ASSUME NEW f \in File, Reaches(r.nodes[f], f) PROVE Reaches(run[q].nodes[f], f)'
      BY <2>1, <1>3, <3>1 DEF Reaches
    <3> QED BY <2>1, <2>2, <3>1 DEF Written
  <2> QED BY <2>4, <2>5
<1> QED BY <1>4, <1>5 DEF Anchored

\* The contents a step compares are numbers.
LEMMA Numbers ==
    ASSUME TypeOK, NEW f \in File
    PROVE  /\ head[f] \in Nat /\ work[f] \in Nat /\ nodes[f] \in Nat
           /\ manifest.since[f] \in Nat
           /\ \A p \in Proc : /\ run[p].seen[f] \in Nat /\ run[p].nodes[f] \in Nat
                              /\ run[p].mine.since[f] \in Nat /\ run[p].parsed[f] \in Nat
<1>1. /\ head \in Tree /\ work \in Tree /\ nodes \in Tree /\ manifest.since \in Tree
      /\ \A p \in Proc : run[p] \in Run
  BY DEF TypeOK, Manifest
<1> QED BY <1>1, TreeNat, RunFields

\* A step that ends a run without a write of the manifest.
LEMMA RestStep ==
    ASSUME TypeOK, Anchored, NEW p \in Proc, Become(p, Rest),
           UNCHANGED <<head, work, nodes, manifest>>
    PROVE  Anchored'
<1>1. ~Updating(Rest) /\ Known(Rest) /\ Written(Rest)
  BY RestType DEF Updating, Known, Written
<1> QED BY <1>1, RunStep

\* Before anything is extracted: the graph and the manifest of an update are loaded.
LEMMA AnchoredBefore ==
    ASSUME TypeOK, Anchored, NEW p \in Proc,
           Open(p) \/ Load(p) \/ Reindex(p) \/ Lock(p) \/ Look(p)
    PROVE  Anchored'
<1>1. UNCHANGED <<head, work, nodes, manifest>>
  BY DEF Open, Load, Reindex, Lock, Look, git, soul
<1>2. Known(run[p]) BY DEF Anchored
<1>3. CASE Open(p)
  <2>1. PICK op \in {"update", "dirty"}, scope \in Packages, next \in Run :
          /\ Become(p, next) /\ next.at = "load" /\ next.op = op /\ next.scope = scope
          /\ next.mine = manifest /\ next.skipped = FALSE
    BY <1>3, OpenStep
  <2>3. Known(next) /\ Written(next) BY <2>1 DEF Known, Written
  <2> QED BY <1>1, <2>1, <2>3, RunStep
<1>4. CASE Load(p)
  <2>1. PICK next :
          /\ run[p].at = "load" /\ Become(p, next)
          /\ next.at = "lock" /\ next.op = run[p].op /\ next.scope = run[p].scope
          /\ next.mine = run[p].mine /\ next.skipped = run[p].skipped /\ next.nodes = nodes
    BY <1>4, LoadStep
  <2>2. Updating(next) <=> Updating(run[p]) BY <2>1 DEF Updating
  <2>4. Known(next) /\ Written(next)
    BY <2>1, <2>2 DEF Anchored, Ordered, Reaches, Known, Written
  <2> QED BY <1>1, <2>1, <2>2, <2>4, RunStep
<1>5. CASE Reindex(p)
  <2>1. PICK next : Become(p, next) /\ next.at = "lock" /\ next.op = "index"
    BY <1>5, ReindexStep
  <2>2. ~Updating(next) /\ Written(next) BY <2>1 DEF Updating, Written
  <2> QED BY <1>1, <2>1, <2>2, RunStep DEF Known
<1>6. CASE Lock(p)
  <2>1. CASE Become(p, Rest) BY <1>1, <2>1, RestStep
  <2>2. CASE \E next :
               /\ Become(p, next) /\ run[p].at = "lock"
               /\ next.at = (IF run[p].op = "index" THEN "extract" ELSE "look")
               /\ next.op = run[p].op /\ next.scope = run[p].scope
               /\ next.mine = run[p].mine /\ next.skipped = run[p].skipped
               /\ next.nodes = run[p].nodes
    <3>1. PICK next :
            /\ Become(p, next) /\ run[p].at = "lock"
            /\ next.at = (IF run[p].op = "index" THEN "extract" ELSE "look")
            /\ next.op = run[p].op /\ next.scope = run[p].scope
            /\ next.mine = run[p].mine /\ next.skipped = run[p].skipped
            /\ next.nodes = run[p].nodes
      BY <2>2
    <3>2. Updating(next) <=> Updating(run[p]) BY <3>1 DEF Updating
    <3>4. Known(next) /\ Written(next) BY <1>2, <3>1, <3>2 DEF Known, Written, Updating
    <3> QED BY <1>1, <3>1, <3>2, <3>4, RunStep
  <2> QED BY <1>6, <2>1, <2>2, LockStep
<1>7. CASE Look(p)
  <2>1. PICK next :
          /\ run[p].at = "look" /\ Become(p, next) /\ run[p].op # "index"
          /\ next.at = "diff" /\ next.op = run[p].op /\ next.scope = run[p].scope
          /\ next.mine = run[p].mine /\ next.skipped = run[p].skipped
          /\ next.nodes = run[p].nodes /\ next.seen = head
    BY <1>7, LookStep
  <2>2. Updating(next) <=> Updating(run[p]) BY <2>1 DEF Updating
  <2>4. \A f \in File : head[f] <= head[f] BY Numbers
  <2>5. Known(next) /\ Written(next) BY <1>2, <2>1, <2>2, <2>4 DEF Known, Written
  <2> QED BY <1>1, <2>1, <2>2, <2>5, RunStep
<1> QED BY <1>3, <1>4, <1>5, <1>6, <1>7

\* The diff leaves out of an update what is at its anchor, or out of its scope.
LEMMA AnchoredDiff ==
    ASSUME TypeOK, Anchored, NEW p \in Proc, Diff(p)
    PROVE  Anchored'
<1>1. UNCHANGED <<head, work, nodes, manifest>> BY DEF Diff, git, soul
<1>2. Known(run[p]) BY DEF Anchored
<1>3. run[p].at = "diff" BY DiffStep
<1>4. run[p] \in Run BY DEF TypeOK
<1>5. run[p].op # "index" => Updating(run[p]) BY <1>3 DEF Updating
<1>6. CASE Become(p, Rest) BY <1>1, <1>6, RestStep
<1>7. CASE \E changed \in SUBSET File, all \in SUBSET File, next \in Run :
             /\ UNCHANGED lock /\ Become(p, next)
             /\ Differ(run[p].mine.since, head) \subseteq all
             /\ changed = all \cap run[p].scope /\ changed # {}
             /\ next.at = "extract" /\ next.op = run[p].op
             /\ next.scope = run[p].scope /\ next.mine = run[p].mine
             /\ next.nodes = run[p].nodes /\ next.edges = run[p].edges
             /\ next.seen = run[p].seen /\ next.changed = changed
             /\ next.skipped = (all # changed)
  <2>1. PICK changed \in SUBSET File, all \in SUBSET File, next \in Run :
             /\ UNCHANGED lock /\ Become(p, next)
             /\ Differ(run[p].mine.since, head) \subseteq all
             /\ changed = all \cap run[p].scope /\ changed # {}
             /\ next.at = "extract" /\ next.op = run[p].op
             /\ next.scope = run[p].scope /\ next.mine = run[p].mine
             /\ next.nodes = run[p].nodes /\ next.edges = run[p].edges
             /\ next.seen = run[p].seen /\ next.changed = changed
             /\ next.skipped = (all # changed)
    BY <1>7
  <2>2. Updating(next) <=> Updating(run[p]) BY <1>3, <2>1 DEF Updating
  <2>4. ASSUME Updating(next), next.skipped = FALSE, NEW f \in File \ next.changed
        PROVE  next.seen[f] <= next.mine.since[f] /\ Reaches(next.mine.since[f], f)
    <3>1. f \notin all BY <2>1, <2>4
    <3>2. run[p].mine.since[f] = head[f] BY <2>1, <3>1 DEF Differ
    <3>3. run[p].seen[f] <= head[f] BY <1>2, <1>3, <2>2, <2>4 DEF Known
    <3>4. Reaches(head[f], f) BY DEF Anchored, Ordered
    <3> QED BY <2>1, <3>2, <3>3, <3>4
  <2>5. Known(next) BY <1>2, <1>3, <2>1, <2>2, <2>4 DEF Known
  <2>6. Written(next) BY <2>1 DEF Written
  <2> QED BY <1>1, <2>1, <2>2, <2>5, <2>6, RunStep
<1>8. CASE /\ Differ(run[p].mine.since, head) = {}
           /\ Become(p, Commit(run[p], run[p].seen, {}, {}))
  <2> DEFINE next == Commit(run[p], run[p].seen, {}, {})
  <2>1. run[p].seen \in Tree /\ {} \in SUBSET Shard BY <1>4, RunFields
  <2>2. Committed(next, run[p], run[p].seen, {}, {}) BY <1>4, <2>1, CommitType
  <2>3. /\ next.at = "write" /\ next.nodes = run[p].nodes /\ next.mine.since = run[p].seen
        /\ Become(p, next)
    BY <1>8, <2>2 DEF Committed
  <2> HIDE DEF next
  <2>4. run[p].op # "index" BY <1>2, <1>3 DEF Known
  <2>5. ASSUME NEW f \in File
        PROVE  /\ Reaches(run[p].nodes[f], f)
               /\ run[p].seen[f] <= run[p].nodes[f]
               /\ run[p].seen[f] <= head[f]
               /\ run[p].seen[f] <= nodes[f]
    <3>1. run[p].mine.since[f] = head[f] BY <1>8 DEF Differ
    <3>2. run[p].seen[f] <= head[f] /\ run[p].mine.since[f] <= run[p].nodes[f]
      BY <1>2, <1>3, <1>5, <2>4 DEF Known
    <3>3. run[p].mine.since[f] <= nodes[f]
      BY <1>5, <2>4 DEF Anchored, Ordered, Reaches
    <3>4. Reaches(head[f], f) BY DEF Anchored, Ordered
    <3> QED BY <3>1, <3>2, <3>3, <3>4, Numbers, ReachesUp
  <2>6. Written(next) BY <2>3, <2>5 DEF Written
  <2>7. ~Updating(next) BY <2>3 DEF Updating
  <2> QED BY <1>1, <2>3, <2>6, <2>7, RunStep DEF Known
<1> QED BY <1>6, <1>7, <1>8, DiffStep

\* What an update parses is as new as HEAD.
LEMMA AnchoredParse ==
    ASSUME TypeOK, Anchored, NEW p \in Proc, Parse(p)
    PROVE  Anchored'
<1>1. UNCHANGED <<head, work, nodes, manifest>> BY DEF Parse, git, soul
<1>2. PICK next :
        /\ run[p].at = "extract" /\ Become(p, next)
        /\ next.at = "resolve" /\ next.op = run[p].op /\ next.mine = run[p].mine
        /\ next.nodes = run[p].nodes /\ next.seen = run[p].seen
        /\ next.changed = run[p].changed /\ next.skipped = run[p].skipped
        /\ next.parsed = work
  BY ParseStep
<1>3. Updating(next) <=> Updating(run[p]) BY <1>2 DEF Updating
<1>4. ASSUME NEW f \in File
      PROVE  head[f] <= work[f] /\ Reaches(work[f], f)
  <2>1. head[f] <= work[f] /\ Reaches(head[f], f) BY DEF Anchored, Ordered
  <2> QED BY <2>1, Numbers, ReachesUp
<1>5. Known(next)
  <2>1. Known(run[p]) BY DEF Anchored
  <2>2. ASSUME Updating(next), NEW f \in File PROVE next.seen[f] <= work[f]
    <3>1. run[p].seen[f] <= head[f] BY <1>2, <1>3, <2>1, <2>2 DEF Known
    <3> QED BY <1>2, <1>4, <3>1, Numbers
  <2> QED BY <1>2, <1>3, <1>4, <2>1, <2>2 DEF Known
<1>6. Written(next) BY <1>2, <1>4 DEF Written
<1> QED BY <1>1, <1>2, <1>3, <1>5, <1>6, RunStep

\* What an update extracts is as new as every anchor, and so is what it leaves.
LEMMA AnchoredExtract ==
    ASSUME Solo, TypeOK, Anchored, SoloInv, NEW p \in Proc, Extract(p)
    PROVE  Anchored'
<1>1. UNCHANGED <<head, work, nodes, manifest>> BY DEF Extract, git, soul
<1>2. PICK next :
        /\ run[p].at = "resolve" /\ run[p].op # "index" /\ Become(p, next)
        /\ next.at = "write" /\ next.nodes = Now(p)
        /\ next.todo = Dirty(p) /\ next.mine.since = Anchor(run[p])
  BY ExtractStep
<1>3. Updating(run[p]) BY <1>2 DEF Updating
<1>4. Known(run[p]) BY DEF Anchored
<1>5. run[p] \in Run BY DEF TypeOK
<1>6. ASSUME NEW f \in File
      PROVE  /\ Reaches(next.nodes[f], f)
             /\ next.mine.since[f] <= next.nodes[f]
             /\ next.mine.since[f] <= head[f]
             /\ next.mine.since[f] <= nodes[f] \/ ShardOf[f] \in next.todo
  <2> DEFINE c == next.mine.since[f]
  <2>1. next.nodes[f] = IF f \in run[p].changed THEN run[p].parsed[f] ELSE run[p].nodes[f]
    BY <1>2 DEF Now
  <2>2. /\ head[f] \in Nat /\ work[f] \in Nat /\ nodes[f] \in Nat
        /\ run[p].seen[f] \in Nat /\ run[p].nodes[f] \in Nat /\ run[p].mine.since[f] \in Nat
        /\ run[p].parsed[f] \in Nat
    BY Numbers
  <2>3. /\ run[p].mine.since[f] <= head[f] /\ run[p].mine.since[f] <= nodes[f]
        /\ head[f] <= work[f] /\ Reaches(head[f], f)
    BY <1>3 DEF Anchored, Ordered, Reaches
  <2>4. run[p].mine.since[f] <= run[p].nodes[f] /\ run[p].seen[f] <= head[f]
    BY <1>2, <1>3, <1>4 DEF Known
  <2>5. c = IF run[p].skipped THEN run[p].mine.since[f] ELSE run[p].seen[f]
    BY <1>2 DEF Anchor
  <2>6. c <= head[f] BY <2>2, <2>3, <2>4, <2>5
  <2>7. CASE f \in run[p].changed
    <3>1. run[p].seen[f] <= run[p].parsed[f] /\ Reaches(run[p].parsed[f], f)
      BY <1>2, <1>3, <1>4 DEF Known
    <3>2. c <= run[p].parsed[f]
      <4>1. run[p].mine.since[f] <= run[p].parsed[f] BY <1>3, <3>1 DEF Reaches
      <4> QED BY <2>5, <3>1, <4>1
    <3>3. CASE Held(p, f)
      <4>1. ShardOf[f] \in next.todo BY <1>2, <2>7, <3>3 DEF Dirty, Shards
      <4> QED BY <2>1, <2>6, <2>7, <3>1, <3>2, <4>1
    <3>4. CASE ~Held(p, f)
      <4>1. next.nodes[f] = nodes[f] BY <1>2, <1>3, <3>4, AbsentTwice
      <4> QED BY <2>1, <2>6, <2>7, <3>1, <3>2, <4>1
    <3> QED BY <3>3, <3>4
  <2>8. CASE f \notin run[p].changed /\ run[p].skipped = FALSE
    <3>1. run[p].seen[f] <= run[p].mine.since[f] /\ Reaches(run[p].mine.since[f], f)
      BY <1>2, <1>3, <1>4, <2>8 DEF Known
    <3>2. Reaches(run[p].nodes[f], f) BY <2>2, <2>4, <3>1, ReachesUp
    <3>3. c <= run[p].nodes[f] /\ c <= nodes[f] BY <2>2, <2>3, <2>4, <2>5, <2>8, <3>1
    <3> QED BY <2>1, <2>6, <2>8, <3>2, <3>3
  <2>9. CASE f \notin run[p].changed /\ run[p].skipped = TRUE
    <3>2. run[p].mine = manifest BY <1>3 DEF SoloInv, Synced
    <3>3. \A q \in Proc : q = p BY DEF Solo
    <3>4. Reaches(run[p].nodes[f], f) BY <2>4, <3>2, <3>3 DEF Reaches
    <3>5. c <= run[p].nodes[f] /\ c <= nodes[f] BY <2>3, <2>4, <2>5, <2>9
    <3> QED BY <2>1, <2>6, <2>9, <3>4, <3>5
  <2> QED BY <1>5, <2>7, <2>8, <2>9, RunFields
<1>7. Written(next) BY <1>2, <1>6 DEF Written
<1>8. ~Updating(next) /\ next.at # "diff" BY <1>2 DEF Updating
<1> QED BY <1>1, <1>2, <1>7, <1>8, RunStep DEF Known

\* A full index has what HEAD has until it stamps HEAD.
LEMMA AnchoredIndex ==
    ASSUME TypeOK, Anchored, NEW p \in Proc, ExtractAll(p) \/ Stamp(p)
    PROVE  Anchored'
<1>1. UNCHANGED <<head, work, nodes, manifest>> BY DEF ExtractAll, Stamp, git, soul
<1>2. CASE ExtractAll(p)
  <2>1. PICK next : /\ Become(p, next) /\ next.at = "look" /\ next.op = "index"
                    /\ next.nodes = run[p].parsed /\ run[p].at = "resolve" /\ run[p].op = "index"
    BY <1>2, ExtractAllStep
  <2>2. Written(next) BY <2>1 DEF Written, Anchored
  <2>3. ~Updating(next) /\ next.at # "diff" BY <2>1 DEF Updating
  <2> QED BY <1>1, <2>1, <2>2, <2>3, RunStep DEF Known
<1>3. CASE Stamp(p)
  <2>1. PICK next : /\ run[p].at = "look" /\ run[p].op = "index" /\ Become(p, next)
                    /\ next.at = "write" /\ next.op = "index" /\ next.nodes = run[p].nodes
                    /\ next.todo = Shard /\ next.mine.since = head
    BY <1>3, StampStep
  <2>2. ASSUME NEW f \in File
        PROVE  /\ Reaches(next.nodes[f], f)
               /\ next.mine.since[f] <= next.nodes[f]
               /\ next.mine.since[f] <= head[f]
               /\ ShardOf[f] \in next.todo
    <3>1. head[f] <= run[p].nodes[f] BY <2>1 DEF Anchored, Written
    <3>2. Reaches(head[f], f) BY DEF Anchored, Ordered
    <3>3. head[f] \in Nat /\ run[p].nodes[f] \in Nat BY Numbers
    <3>4. ShardOf[f] \in Shard BY SoulAssumption
    <3> QED BY <2>1, <3>1, <3>2, <3>3, <3>4, ReachesUp
  <2>3. Written(next) BY <2>1, <2>2 DEF Written
  <2>4. ~Updating(next) /\ next.at # "diff" BY <2>1 DEF Updating
  <2> QED BY <1>1, <2>1, <2>3, <2>4, RunStep DEF Known
<1> QED BY <1>2, <1>3

\* Whoever is past the lock is alone there.
LEMMA OneInside ==
    ASSUME TypeOK, NEW p \in Proc, NEW q \in Proc,
           run[p].at \notin {"idle", "load", "lock"}, run[q].at \notin {"idle", "load", "lock"}
    PROVE  p = q
BY DEF TypeOK

\* What a commit writes to the node shards is as new as every anchor.
LEMMA AnchoredNodes ==
    ASSUME TypeOK, Anchored, NEW p \in Proc, WriteNodes(p)
    PROVE  Anchored'
<1>1. PICK s \in run[p].todo :
        /\ run[p].at = "write"
        /\ nodes' = [f \in File |-> IF ShardOf[f] = s THEN run[p].nodes[f] ELSE nodes[f]]
        /\ Become(p, [run[p] EXCEPT !.todo = @ \ {s}])
        /\ UNCHANGED <<git, edges, manifest, index, lock, view, torn>>
  BY DEF WriteNodes
<1>2. run[p] \in Run BY DEF TypeOK
<1>3. PICK next : /\ Become(p, next) /\ next.at = "write" /\ next.op = run[p].op
                  /\ next.mine = run[p].mine /\ next.nodes = run[p].nodes
                  /\ next.todo = run[p].todo \ {s}
  BY <1>1, <1>2 DEF Run
<1>4. run'[p] = next /\ \A q \in Proc : q # p => run'[q] = run[q] BY <1>3, Moved
<1>5. UNCHANGED <<head, work, manifest>> BY <1>1 DEF git
<1>6. \A q \in Proc : Updating(run[q])' <=> Updating(run[q])
  BY <1>1, <1>3, <1>4 DEF Updating
<1>7. \A q \in Proc : run'[q].mine = run[q].mine BY <1>3, <1>4
<1>8. ASSUME NEW c, NEW f \in File, Reaches(c, f)
      PROVE  /\ manifest'.since[f] <= c
             /\ \A q \in Proc : Updating(run[q])' => run'[q].mine.since[f] <= c
  BY <1>5, <1>6, <1>7, <1>8 DEF Reaches
<1>9. Written(run[p]) BY DEF Anchored
<1>10. ASSUME NEW f \in File
       PROVE  /\ Reaches(nodes'[f], f)
              /\ run[p].mine.since[f] <= nodes'[f] \/ ShardOf[f] \in next.todo
  BY <1>1, <1>3, <1>9 DEF Anchored, Ordered, Written
<1>11. Ordered' BY <1>5, <1>8, <1>10 DEF Anchored, Ordered, Reaches
<1>12. ASSUME NEW q \in Proc PROVE (Known(run[q]) /\ Written(run[q]))'
  <2>1. CASE q = p
    <3>1. ~Updating(run[p])' BY <1>3, <1>4 DEF Updating
    <3>2. Written(run[p])'
      <4>1. ASSUME NEW f \in File, Reaches(run[p].nodes[f], f) PROVE Reaches(run[p].nodes[f], f)'
        BY <1>3, <1>4, <1>8, <4>1 DEF Reaches
      <4> QED BY <1>1, <1>3, <1>4, <1>5, <1>9, <1>10, <4>1 DEF Written
    <3> QED BY <1>3, <1>4, <2>1, <3>1, <3>2 DEF Known
  <2>2. CASE q # p
    <3>1. run'[q] = run[q] BY <1>4, <2>2
    <3>3. Known(run[q])'
      <4>1. ASSUME NEW f \in File, NEW c, Reaches(c, f) PROVE Reaches(c, f)'
        BY <1>8, <4>1 DEF Reaches
      <4> QED BY <1>5, <3>1, <4>1 DEF Anchored, Known, Updating
    <3>4. run[q].at # "write" BY <1>1, <2>2, OneInside
    <3>5. Written(run[q])' BY <1>5, <3>1, <3>4 DEF Anchored, Written
    <3> QED BY <3>3, <3>5
  <2> QED BY <2>1, <2>2
<1> QED BY <1>11, <1>12 DEF Anchored

\* The manifest is written when the node shards have what it says.
LEMMA AnchoredManifest ==
    ASSUME Solo, TypeOK, Anchored, NEW p \in Proc, WriteManifest(p)
    PROVE  Anchored'
<1>1. /\ run[p].at = "write" /\ run[p].todo = {} /\ UNCHANGED <<head, work, nodes>>
      /\ manifest'.since = run[p].mine.since
  BY RunFields DEF WriteManifest, TypeOK, git, Manifest
<1>2. PICK next : Become(p, next) /\ next.at \in {"idle", "index"}
  <2>1. [run[p] EXCEPT !.at = "index", !.edges = {}].at = "index" BY DEF TypeOK, Run
  <2> QED BY <2>1, RestType DEF WriteManifest, Release
<1>3. run'[p] = next /\ \A q \in Proc : q # p => run'[q] = run[q] BY <1>2, Moved
<1>4. ~Updating(run[p])' BY <1>2, <1>3 DEF Updating
<1>5. ASSUME NEW c, NEW f \in File, Reaches(c, f), run[p].mine.since[f] <= c
      PROVE  /\ manifest'.since[f] <= c
             /\ \A q \in Proc : Updating(run[q])' => run'[q].mine.since[f] <= c
  BY <1>1, <1>3, <1>4, <1>5 DEF Reaches, Updating
<1>6. ASSUME NEW f \in File
      PROVE  run[p].mine.since[f] <= nodes[f] /\ run[p].mine.since[f] <= head[f]
  BY <1>1 DEF Anchored, Written
<1>7. Ordered' BY <1>1, <1>5, <1>6 DEF Anchored, Ordered, Reaches
<1>8. ASSUME NEW q \in Proc PROVE (Known(run[q]) /\ Written(run[q]))'
  <2>1. q = p BY DEF Solo
  <2> QED BY <1>2, <1>3, <1>4, <2>1 DEF Known, Written
<1> QED BY <1>7, <1>8 DEF Anchored

\* Edge shards, the index and a death are behind the anchors.
LEMMA AnchoredAfter ==
    ASSUME TypeOK, Anchored, NEW p \in Proc, WriteEdges(p) \/ WriteIndex(p) \/ Die(p)
    PROVE  Anchored'
<1>1. UNCHANGED <<head, work, nodes, manifest>>
  BY DEF WriteEdges, WriteIndex, Die, git, soul
<1>2. CASE WriteEdges(p)
  <2>1. PICK s \in run[p].todoEdges :
          run[p].at = "write" /\ Become(p, [run[p] EXCEPT !.todoEdges = @ \ {s}])
    BY <1>2 DEF WriteEdges
  <2>2. run[p] \in Run BY DEF TypeOK
  <2>3. PICK next : /\ Become(p, next) /\ next.at = "write" /\ next.op = run[p].op
                    /\ next.mine = run[p].mine /\ next.nodes = run[p].nodes
                    /\ next.todo = run[p].todo
    BY <2>1, <2>2 DEF Run
  <2>4. Written(next) BY <2>1, <2>3 DEF Anchored, Written
  <2>5. ~Updating(next) /\ next.at # "diff" BY <2>3 DEF Updating
  <2> QED BY <1>1, <2>3, <2>4, <2>5, RunStep DEF Known
<1>3. CASE Become(p, Rest) BY <1>1, <1>3, RestStep
<1> QED BY <1>2, <1>3 DEF WriteIndex, Release, Die

\* Without reverts and without commits under a full index, HEAD moves towards the work tree.
LEMMA AnchoredRepository ==
    ASSUME ~Reverts, ~Races, TypeOK, Anchored, Record \/ \E f \in File : Edit(f)
    PROVE  Anchored'
<1>1. UNCHANGED <<nodes, manifest, run>> BY DEF Record, Edit, soul
<1>2. ASSUME NEW f \in File
      PROVE  /\ head[f] <= head'[f] /\ head'[f] <= work'[f]
             /\ head'[f] \in Nat /\ head[f] \in Nat
  <2>1. head[f] <= work[f] /\ head[f] \in Nat /\ work[f] \in Nat
    BY Numbers DEF Anchored, Ordered
  <2>2. CASE Record BY <2>1, <2>2 DEF Record
  <2>3. ASSUME NEW g \in File, Edit(g)
        PROVE  head' = head /\ work'[f] \in Nat /\ work[f] <= work'[f]
    <3>1. PICK v \in 0 .. Last[g] : v > work[g] /\ work' = [work EXCEPT ![g] = v]
      BY <2>3 DEF Edit
    <3>2. Last[g] \in Nat BY SoulAssumption
    <3>3. v \in Nat BY <3>2
    <3>4. work \in [File -> 0 .. MaxContent] BY DEF TypeOK, Tree
    <3>5. work'[f] = IF f = g THEN v ELSE work[f] BY <3>1, <3>4
    <3> QED BY <2>1, <2>3, <3>1, <3>3, <3>5 DEF Edit
  <2> QED BY <2>1, <2>2, <2>3
<1>3. ASSUME NEW c, NEW f \in File, Reaches(c, f) PROVE Reaches(c, f)'
  BY <1>1, <1>3 DEF Reaches, Updating
<1>4. Ordered'
  <2>1. ASSUME NEW f \in File PROVE Reaches(head[f], f)' /\ Reaches(nodes[f], f)'
    <3>1. Reaches(head'[f], f) BY <1>2, ReachesUp DEF Anchored, Ordered
    <3>2. Reaches(nodes[f], f) BY DEF Anchored, Ordered
    <3> QED BY <1>1, <3>1, <3>2 DEF Reaches, Updating
  <2> QED BY <1>2, <2>1 DEF Ordered
<1>5. ASSUME NEW q \in Proc PROVE (Known(run[q]) /\ Written(run[q]))'
  <2>1. Known(run[q]) /\ Written(run[q]) BY DEF Anchored
  <2>3. \A f \in File : run[q].seen[f] \in Nat /\ run[q].mine.since[f] \in Nat BY Numbers
  <2>4. ASSUME NEW f \in File
        PROVE  /\ run[q].seen[f] <= head[f] => run[q].seen[f] <= head'[f]
               /\ run[q].mine.since[f] <= head[f] => run[q].mine.since[f] <= head'[f]
    BY <1>2, <2>3
  <2>5. Known(run[q])'
    <3>1. ASSUME NEW f \in File, NEW c, Reaches(c, f) PROVE Reaches(c, f)'
      BY <1>1, <3>1 DEF Reaches, Updating
    <3> QED BY <1>1, <2>1, <2>4, <3>1 DEF Known, Updating
  <2>6. run[q].op = "index" /\ run[q].at \in {"resolve", "look"} => head' = head
    BY DEF Record, Edit
  <2>7. Written(run[q])'
    <3>1. ASSUME NEW f \in File, Reaches(run[q].nodes[f], f)
          PROVE  Reaches(run[q].nodes[f], f)'
      BY <1>1, <3>1 DEF Reaches, Updating
    <3> QED BY <1>1, <2>1, <2>4, <2>6, <3>1 DEF Written
  <2> QED BY <2>5, <2>7
<1> QED BY <1>4, <1>5 DEF Anchored

\* A step of a reader, or of nobody, moves no anchor.
LEMMA AnchoredStill == ASSUME Anchored, UNCHANGED <<git, soul, run>> PROVE Anchored'
BY DEF Anchored, Ordered, Reaches, Known, Written, Updating, git, soul

\* At the start every anchor and every content is the first one.
LEMMA AnchoredInit == Init => Anchored
<1> SUFFICES ASSUME Init PROVE Anchored OBVIOUS
<1>1. \A p \in Proc : run[p].at = "idle" BY RestType DEF Init
<1>2. \A p \in Proc : ~Updating(run[p]) BY <1>1 DEF Updating
<1>3. \A f \in File : Nowhere[f] = 0 BY DEF Nowhere
<1>4. Ordered BY <1>2, <1>3 DEF Init, Ordered, Reaches
<1> QED BY <1>1, <1>2, <1>4 DEF Anchored, Known, Written

\* Every step keeps the anchors behind what they stand for.
LEMMA AnchoredStep ==
    ASSUME Solo, ~Reverts, ~Races, TypeOK, Anchored, SoloInv, [Next]_vars
    PROVE  Anchored'
<1>1. CASE UNCHANGED vars BY <1>1, AnchoredStill DEF vars
<1>2. CASE Record \/ \E f \in File : Edit(f) BY <1>2, AnchoredRepository
<1>3. ASSUME NEW p \in Proc,
             \/ Open(p) \/ Load(p) \/ Reindex(p) \/ Lock(p) \/ Look(p) \/ Diff(p)
             \/ Parse(p) \/ Extract(p) \/ ExtractAll(p) \/ Stamp(p)
             \/ WriteNodes(p) \/ WriteEdges(p) \/ WriteManifest(p) \/ WriteIndex(p) \/ Die(p)
      PROVE  Anchored'
  BY <1>3, AnchoredBefore, AnchoredDiff, AnchoredParse, AnchoredExtract, AnchoredIndex,
     AnchoredNodes, AnchoredManifest, AnchoredAfter
<1>4. CASE \E r \in Reader : ReadManifest(r) \/ ReadNodes(r) \/ ReadEdges(r)
  BY <1>4, AnchoredStill DEF ReadManifest, ReadNodes, ReadEdges, See
<1> QED BY <1>1, <1>2, <1>3, <1>4 DEF Next

(* For one updater and any number of files, shards and scopes, where no edit is taken   *)
(* back and nobody commits under a full index: a stored record that is behind HEAD is in *)
(* the next diff.                                                                       *)
THEOREM CommittedNeverSkipped ==
    ASSUME Solo, ~Reverts, ~Races
    PROVE  Spec => []NothingSkipped
<1>1. CASE File # {}
  <2>1. /\ TypeOK /\ Anchored /\ SoloInv /\ ReaderInv /\ [Next]_vars
        => (Anchored /\ SoloInv /\ ReaderInv)'
    BY <1>1, AnchoredStep, SyncedStep
  <2>2. TypeOK /\ Anchored => NothingSkipped
    <3> SUFFICES ASSUME TypeOK, Anchored, NEW f \in File, nodes[f] < head[f]
                 PROVE  manifest.since[f] # head[f]
      BY DEF NothingSkipped
    <3> QED BY Numbers DEF Anchored, Ordered, Reaches
  <2> QED BY AnchoredInit, SyncedInit, TypeCorrect, <2>1, <2>2, PTL DEF Spec
<1>2. CASE File = {}
  <2>1. TypeOK => NothingSkipped BY <1>2 DEF NothingSkipped
  <2> QED BY TypeCorrect, <2>1, PTL
<1> QED BY <1>1, <1>2

-----------------------------------------------------------------------------
(* The edges on disk were drawn from the working tree. *)

\* Every edge was drawn from a content of its source between an anchor and the work tree.
Grounded(es, since) ==
    \A e \in es :
        /\ e[1] # e[2]
        /\ \E c \in 0 .. MaxContent :
              since[e[1]] <= c /\ c <= work[e[1]] /\ e[2] \in Text[e[1]][c]

Behind(tree) == \A f \in File : tree[f] <= work[f]

GroundedRun(r) ==
    /\ r.at = "resolve" => Behind(r.parsed)
    /\ r.at = "look" /\ r.op = "index" => Grounded(r.edges, head) /\ Behind(r.nodes)
    /\ r.at = "write" =>
          /\ Grounded(r.edges, manifest.since) /\ Grounded(r.edges, r.mine.since)
          /\ Behind(r.nodes)

GroundInv ==
    /\ Grounded(edges, manifest.since) /\ Behind(nodes)
    /\ \A p \in Proc : GroundedRun(run[p])

\* A process at rest has drawn nothing.
LEMMA RestGrounded == GroundedRun(Rest)
BY RestType DEF GroundedRun

\* Fewer edges, or an older anchor, are grounded too.
LEMMA GroundedLess ==
    ASSUME TypeOK, NEW es \in SUBSET Edge, NEW fs \in SUBSET es,
           NEW since \in Tree, NEW low \in Tree, Grounded(es, since),
           \A e \in fs : low[e[1]] <= since[e[1]]
    PROVE  Grounded(fs, low)
<1> SUFFICES ASSUME NEW e \in fs
             PROVE  /\ e[1] # e[2]
                    /\ \E c \in 0 .. MaxContent :
                          low[e[1]] <= c /\ c <= work[e[1]] /\ e[2] \in Text[e[1]][c]
  BY DEF Grounded
<1>1. PICK c \in 0 .. MaxContent :
        /\ e[1] # e[2] /\ since[e[1]] <= c /\ c <= work[e[1]] /\ e[2] \in Text[e[1]][c]
  BY DEF Grounded
<1>2. e[1] \in File BY DEF Edge
<1>3. low[e[1]] \in Nat /\ since[e[1]] \in Nat BY <1>2, TreeNat
<1>4. low[e[1]] <= since[e[1]] OBVIOUS
<1>5. c \in Nat BY SoulAssumption
<1>6. low[e[1]] <= c BY <1>1, <1>3, <1>4, <1>5
<1> QED BY <1>1, <1>6

\* What is drawn from the work tree is grounded at every anchor behind it.
LEMMA GroundedDrawn ==
    ASSUME TypeOK, NEW files \in SUBSET File, NEW tree, NEW since \in Tree, Behind(since)
    PROVE  Grounded(Resolved(files, work, tree), since)
<1> SUFFICES ASSUME NEW e \in Resolved(files, work, tree)
             PROVE  /\ e[1] # e[2]
                    /\ \E c \in 0 .. MaxContent :
                          since[e[1]] <= c /\ c <= work[e[1]] /\ e[2] \in Text[e[1]][c]
  BY DEF Grounded
<1>1. e[1] \in File /\ e[1] # e[2] /\ e[2] \in Text[e[1]][work[e[1]]]
  BY DEF Resolved, Refers
<1>2. work[e[1]] \in 0 .. MaxContent BY <1>1 DEF TypeOK, Tree
<1>3. since[e[1]] <= work[e[1]] /\ work[e[1]] <= work[e[1]] BY <1>1, Numbers DEF Behind
<1> QED BY <1>1, <1>2, <1>3

\* The one updater moves without touching the disk.
LEMMA GroundedMove ==
    ASSUME Solo, TypeOK, GroundInv, NEW p \in Proc, NEW next, Become(p, next),
           UNCHANGED <<head, work, nodes, edges, manifest>>, GroundedRun(next)
    PROVE  GroundInv'
<1>1. run'[p] = next /\ \A q \in Proc : q = p BY Moved DEF Solo
<1>2. \A q \in Proc : run'[q] = next BY <1>1
<1>3. \A q \in Proc : GroundedRun(run[q])' BY <1>2 DEF GroundedRun, Grounded, Behind
<1>4. Grounded(edges, manifest.since)' /\ Behind(nodes)' BY DEF GroundInv, Grounded, Behind
<1> QED BY <1>3, <1>4 DEF GroundInv

\* The manifest, the commits and the contents a proof compares.
LEMMA SinceTree ==
    ASSUME TypeOK
    PROVE  /\ manifest.since \in Tree /\ head \in Tree /\ work \in Tree /\ nodes \in Tree
           /\ edges \in SUBSET Edge
           /\ \A p \in Proc : run[p] \in Run
BY DEF TypeOK, Manifest

\* Nothing is drawn before the extraction.
LEMMA GroundedBefore ==
    ASSUME Solo, TypeOK, GroundInv, NEW p \in Proc,
           Open(p) \/ Load(p) \/ Reindex(p) \/ Lock(p) \/ Look(p)
    PROVE  GroundInv'
<1>1. UNCHANGED <<head, work, nodes, edges, manifest>>
  BY DEF Open, Load, Reindex, Lock, Look, git, soul
<1>2. PICK next : /\ Become(p, next) /\ next.at \notin {"resolve", "write"}
                  /\ next.at = "look" => next.op # "index"
  <2>1. CASE Open(p) BY <2>1, OpenStep
  <2>2. CASE Load(p) BY <2>2, LoadStep
  <2>3. CASE Reindex(p) BY <2>3, ReindexStep
  <2>4. CASE Lock(p) BY <2>4, LockStep, RestType
  <2>5. CASE Look(p) BY <2>5, LookStep
  <2> QED BY <2>1, <2>2, <2>3, <2>4, <2>5
<1>3. GroundedRun(next) BY <1>2 DEF GroundedRun
<1> QED BY <1>1, <1>2, <1>3, GroundedMove

\* A commit of nothing anchors at the HEAD that the anchor already was.
LEMMA GroundedDiff ==
    ASSUME Solo, TypeOK, Anchored, SoloInv, GroundInv, NEW p \in Proc, Diff(p)
    PROVE  GroundInv'
<1>1. UNCHANGED <<head, work, nodes, edges, manifest>> BY DEF Diff, git, soul
<1>2. run[p].at = "diff" /\ run[p] \in Run BY DiffStep DEF TypeOK
<1>3. /\ run[p].mine = manifest /\ run[p].nodes = nodes /\ run[p].edges = edges
      /\ run[p].op # "index"
  BY <1>2 DEF SoloInv, Synced, Updating
<1>4. CASE \E next : Become(p, next) /\ next.at \in {"idle", "extract"}
  <2>1. PICK next : Become(p, next) /\ next.at \in {"idle", "extract"} BY <1>4
  <2>2. GroundedRun(next) BY <2>1 DEF GroundedRun
  <2> QED BY <1>1, <2>1, <2>2, GroundedMove
<1>5. CASE /\ Differ(run[p].mine.since, head) = {}
           /\ Become(p, Commit(run[p], run[p].seen, {}, {}))
  <2> DEFINE next == Commit(run[p], run[p].seen, {}, {})
  <2>1. run[p].seen \in Tree /\ {} \in SUBSET Shard BY <1>2, RunFields
  <2>2. Committed(next, run[p], run[p].seen, {}, {}) BY <1>2, <2>1, CommitType
  <2>3. /\ next.at = "write" /\ next.nodes = nodes /\ next.mine.since = run[p].seen
        /\ next.edges = Attached(edges, nodes) /\ Become(p, next)
    BY <1>3, <1>5, <2>2 DEF Committed
  <2> HIDE DEF next
  <2>4. next.edges \in SUBSET edges BY <2>3 DEF Attached
  <2>5. \A f \in File : run[p].seen[f] <= head[f]
    BY <1>2, <1>3 DEF Anchored, Known, Updating
  <2>6. \A f \in File : run[p].seen[f] <= manifest.since[f] BY <1>3, <1>5, <2>5 DEF Differ
  <2>7. \A e \in next.edges : e[1] \in File BY <2>4, SinceTree DEF Edge
  <2>8. \A e \in next.edges : run[p].seen[e[1]] <= manifest.since[e[1]] BY <2>6, <2>7
  <2>9. \A e \in next.edges : manifest.since[e[1]] <= manifest.since[e[1]] BY <2>7, Numbers
  <2>10. Grounded(edges, manifest.since) /\ Behind(nodes) BY DEF GroundInv
  <2>11. Grounded(next.edges, manifest.since)
    BY <2>4, <2>9, <2>10, SinceTree, GroundedLess
  <2>12. Grounded(next.edges, run[p].seen)
    BY <2>1, <2>4, <2>8, <2>10, SinceTree, GroundedLess
  <2>13. GroundedRun(next) BY <2>3, <2>10, <2>11, <2>12 DEF GroundedRun
  <2> QED BY <1>1, <2>3, <2>13, GroundedMove
<1> QED BY <1>4, <1>5, DiffStep, RestType

\* What is parsed is what the work tree has.
LEMMA GroundedParse ==
    ASSUME Solo, TypeOK, GroundInv, NEW p \in Proc, Parse(p)
    PROVE  GroundInv'
<1>1. UNCHANGED <<head, work, nodes, edges, manifest>> BY DEF Parse, git, soul
<1>2. PICK next : Become(p, next) /\ next.at = "resolve" /\ next.parsed = work
  BY ParseStep
<1>3. \A f \in File : work[f] <= work[f] BY Numbers
<1>4. GroundedRun(next) BY <1>2, <1>3 DEF GroundedRun, Behind
<1> QED BY <1>1, <1>2, <1>4, GroundedMove

\* The edges an update draws are grounded, and those it keeps have sources it left alone.
LEMMA GroundedExtract ==
    ASSUME Solo, TypeOK, Anchored, SoloInv, GroundInv, NEW p \in Proc, Extract(p)
    PROVE  GroundInv'
<1> DEFINE kept == run[p].edges \ Dropped(p)
           es == kept \cup Drawn(p)
           a == Anchor(run[p])
<1>1. UNCHANGED <<head, work, nodes, edges, manifest>> BY DEF Extract, git, soul
<1>2. PICK next :
        /\ run[p].at = "resolve" /\ run[p].op # "index" /\ Become(p, next)
        /\ next.at = "write" /\ next.nodes = Now(p) /\ next.edges = Attached(es, Now(p))
        /\ next.mine.since = a
  BY ExtractStep
<1>3. Updating(run[p]) /\ run[p] \in Run BY <1>2 DEF Updating, TypeOK
<1>4. run[p].mine = manifest /\ run[p].nodes = nodes /\ run[p].edges = edges
  BY <1>2, <1>3 DEF SoloInv, Synced
<1>5. Known(run[p]) BY DEF Anchored
<1>6. a \in Tree BY <1>3, RunFields DEF Anchor
<1>7. ASSUME NEW f \in File
      PROVE  manifest.since[f] <= work[f] /\ a[f] <= work[f]
  <2>1. /\ head[f] \in Nat /\ work[f] \in Nat /\ manifest.since[f] \in Nat
        /\ run[p].seen[f] \in Nat
    BY Numbers
  <2>2. manifest.since[f] <= head[f] /\ head[f] <= work[f] BY DEF Anchored, Ordered, Reaches
  <2>3. run[p].seen[f] <= head[f] BY <1>2, <1>3, <1>5 DEF Known
  <2> QED BY <1>4, <2>1, <2>2, <2>3 DEF Anchor
<1>8. Behind(a) /\ Behind(manifest.since) BY <1>7 DEF Behind
<1>9. Closure(run[p].changed, run[p].edges) \in SUBSET File
  BY <1>3, RunFields DEF Closure, Edge
<1>10. Grounded(Drawn(p), a) /\ Grounded(Drawn(p), manifest.since)
  BY <1>6, <1>8, <1>9, GroundedDrawn, SinceTree DEF Drawn
<1>11. kept \in SUBSET edges /\ edges \in SUBSET Edge BY <1>4, SinceTree
<1>12. ASSUME NEW e \in kept
       PROVE  a[e[1]] <= manifest.since[e[1]] /\ manifest.since[e[1]] <= manifest.since[e[1]]
  <2>1. e[1] \in File /\ e[1] \notin run[p].changed
    BY <1>11 DEF Dropped, Touching, Edge
  <2>2. manifest.since[e[1]] <= manifest.since[e[1]] BY <2>1, Numbers
  <2>3. run[p].skipped = FALSE => run[p].seen[e[1]] <= manifest.since[e[1]]
    BY <1>2, <1>3, <1>4, <1>5, <2>1 DEF Known
  <2>4. run[p].skipped \in BOOLEAN BY <1>3, RunFields
  <2> QED BY <1>4, <2>2, <2>3, <2>4 DEF Anchor
<1>13. Grounded(edges, manifest.since) BY DEF GroundInv
<1>14. Grounded(kept, a) /\ Grounded(kept, manifest.since)
  <2> HIDE DEF kept, a
  <2> QED BY <1>6, <1>11, <1>12, <1>13, SinceTree, GroundedLess
<1>15. next.edges \subseteq kept \cup Drawn(p) BY <1>2 DEF Attached
<1>16. Grounded(next.edges, a) /\ Grounded(next.edges, manifest.since)
  <2> HIDE DEF kept, a
  <2> QED BY <1>10, <1>14, <1>15 DEF Grounded
<1>17. Behind(Now(p))
  <2>1. ASSUME NEW f \in File PROVE Now(p)[f] <= work[f]
    <3>1. nodes[f] <= work[f] /\ run[p].parsed[f] <= work[f]
      BY <1>2 DEF GroundInv, GroundedRun, Behind
    <3> QED BY <1>4, <3>1 DEF Now
  <2> QED BY <2>1 DEF Behind
<1>18. GroundedRun(next) BY <1>2, <1>16, <1>17 DEF GroundedRun
<1> QED BY <1>1, <1>2, <1>18, GroundedMove

\* A full index draws every edge anew, and HEAD stands still until it stamps it.
LEMMA GroundedIndex ==
    ASSUME Solo, TypeOK, Anchored, GroundInv, NEW p \in Proc, ExtractAll(p) \/ Stamp(p)
    PROVE  GroundInv'
<1>1. UNCHANGED <<head, work, nodes, edges, manifest>> BY DEF ExtractAll, Stamp, git, soul
<1>2. CASE ExtractAll(p)
  <2>1. PICK next : /\ Become(p, next) /\ next.at = "look" /\ next.nodes = run[p].parsed
                    /\ next.edges = Resolved(File, work, run[p].parsed)
                    /\ run[p].at = "resolve"
    BY <1>2, ExtractAllStep
  <2>2. Behind(head) /\ Behind(run[p].parsed)
    BY <2>1 DEF Anchored, Ordered, Behind, GroundInv, GroundedRun
  <2>3. Grounded(Resolved(File, work, run[p].parsed), head) BY <2>2, SinceTree, GroundedDrawn
  <2>4. GroundedRun(next) BY <2>1, <2>2, <2>3 DEF GroundedRun
  <2> QED BY <1>1, <2>1, <2>4, GroundedMove
<1>3. CASE Stamp(p)
  <2>1. PICK next :
          /\ run[p].at = "look" /\ run[p].op = "index" /\ Become(p, next)
          /\ next.at = "write" /\ next.nodes = run[p].nodes
          /\ next.edges = Attached(run[p].edges, run[p].nodes) /\ next.mine.since = head
    BY <1>3, StampStep
  <2>2. Grounded(run[p].edges, head) /\ Behind(run[p].nodes)
    BY <2>1 DEF GroundInv, GroundedRun
  <2>3. next.edges \in SUBSET run[p].edges /\ run[p].edges \in SUBSET Edge
    <3>1. run[p] \in Run BY SinceTree
    <3> QED BY <2>1, <3>1, RunFields DEF Attached
  <2>4. \A e \in next.edges : manifest.since[e[1]] <= head[e[1]] /\ head[e[1]] <= head[e[1]]
    <3>1. \A f \in File : manifest.since[f] <= head[f] BY DEF Anchored, Ordered, Reaches
    <3>2. \A e \in next.edges : e[1] \in File BY <2>3 DEF Edge
    <3> QED BY <3>1, <3>2, Numbers
  <2>5. Grounded(next.edges, head) /\ Grounded(next.edges, manifest.since)
    BY <2>2, <2>3, <2>4, SinceTree, GroundedLess
  <2>6. GroundedRun(next) BY <2>1, <2>2, <2>5 DEF GroundedRun
  <2> QED BY <1>1, <2>1, <2>6, GroundedMove
<1> QED BY <1>2, <1>3

\* Half a commit is a mixture of two grounded graphs; a whole one is grounded at its anchor.
LEMMA GroundedWrite ==
    ASSUME Solo, TypeOK, SoloInv, GroundInv, NEW p \in Proc,
           WriteNodes(p) \/ WriteEdges(p) \/ WriteManifest(p)
    PROVE  GroundInv'
<1>1. run[p].at = "write" /\ UNCHANGED <<head, work>>
  BY DEF WriteNodes, WriteEdges, WriteManifest, git
<1>2. run[p] \in Run /\ \A q \in Proc : q = p BY DEF TypeOK, Solo
<1>3. /\ Grounded(run[p].edges, manifest.since) /\ Grounded(run[p].edges, run[p].mine.since)
      /\ Behind(run[p].nodes) /\ Behind(nodes) /\ Grounded(edges, manifest.since)
  BY <1>1 DEF GroundInv, GroundedRun
<1>4. CASE WriteNodes(p)
  <2>1. PICK s \in run[p].todo :
          /\ nodes' = [f \in File |-> IF ShardOf[f] = s THEN run[p].nodes[f] ELSE nodes[f]]
          /\ Become(p, [run[p] EXCEPT !.todo = @ \ {s}])
          /\ UNCHANGED <<edges, manifest>>
    BY <1>4 DEF WriteNodes
  <2>2. PICK next : /\ Become(p, next) /\ next.at = "write" /\ next.nodes = run[p].nodes
                    /\ next.edges = run[p].edges /\ next.mine = run[p].mine
    BY <1>1, <1>2, <2>1 DEF Run
  <2>3. run'[p] = next BY <2>2, Moved
  <2>4. Behind(nodes)' BY <1>1, <1>3, <2>1 DEF Behind
  <2>5. GroundedRun(run[p])' BY <1>1, <1>3, <2>1, <2>2, <2>3 DEF GroundedRun, Grounded, Behind
  <2>6. Grounded(edges, manifest.since)' BY <1>1, <1>3, <2>1 DEF Grounded
  <2> QED BY <1>2, <2>4, <2>5, <2>6 DEF GroundInv
<1>5. CASE WriteEdges(p)
  <2>1. PICK s \in run[p].todoEdges :
          /\ edges' = (edges \ {e \in Edge : ShardOf[e[1]] = s})
                        \cup (run[p].edges \cap {e \in Edge : ShardOf[e[1]] = s})
          /\ Become(p, [run[p] EXCEPT !.todoEdges = @ \ {s}])
          /\ UNCHANGED <<nodes, manifest>>
    BY <1>5 DEF WriteEdges
  <2>2. PICK next : /\ Become(p, next) /\ next.at = "write" /\ next.nodes = run[p].nodes
                    /\ next.edges = run[p].edges /\ next.mine = run[p].mine
    BY <1>1, <1>2, <2>1 DEF Run
  <2>3. run'[p] = next BY <2>2, Moved
  <2>4. Grounded(edges, manifest.since)'
    <3>1. edges' \subseteq edges \cup run[p].edges BY <2>1
    <3> QED BY <1>1, <1>3, <2>1, <3>1 DEF Grounded
  <2>5. GroundedRun(run[p])' BY <1>1, <1>3, <2>1, <2>2, <2>3 DEF GroundedRun, Grounded, Behind
  <2>6. Behind(nodes)' BY <1>1, <1>3, <2>1 DEF Behind
  <2> QED BY <1>2, <2>4, <2>5, <2>6 DEF GroundInv
<1>6. CASE WriteManifest(p)
  <2>1. /\ run[p].todoEdges = {} /\ UNCHANGED <<nodes, edges>>
        /\ manifest'.since = run[p].mine.since
    BY <1>2, <1>6, RunFields DEF WriteManifest, Manifest
  <2>2. edges = run[p].edges
    <3>1. edges \subseteq Edge /\ run[p].edges \subseteq Edge BY <1>2, RunFields DEF TypeOK
    <3>2. OnDisk(run[p]) BY <1>1 DEF SoloInv, Synced
    <3> QED BY <2>1, <3>1, <3>2 DEF OnDisk
  <2>3. PICK next : Become(p, next) /\ next.at \in {"idle", "index"}
    <3>1. [run[p] EXCEPT !.at = "index", !.edges = {}].at = "index" BY <1>2 DEF Run
    <3> QED BY <1>6, <3>1, RestType DEF WriteManifest, Release
  <2>4. run'[p] = next BY <2>3, Moved
  <2>5. GroundedRun(run[p])' BY <2>3, <2>4 DEF GroundedRun
  <2>6. Grounded(edges, manifest.since)' BY <1>1, <1>3, <2>1, <2>2 DEF Grounded
  <2>7. Behind(nodes)' BY <1>1, <1>3, <2>1 DEF Behind
  <2> QED BY <1>2, <2>5, <2>6, <2>7 DEF GroundInv
<1> QED BY <1>4, <1>5, <1>6

\* The work tree only moves on, and HEAD not under a full index.
LEMMA GroundedRepository ==
    ASSUME ~Reverts, ~Races, TypeOK, GroundInv, Record \/ \E f \in File : Edit(f)
    PROVE  GroundInv'
<1> DEFINE Then(es, since) ==
      \A e \in es :
          /\ e[1] # e[2]
          /\ \E c \in 0 .. MaxContent :
                since[e[1]] <= c /\ c <= work'[e[1]] /\ e[2] \in Text[e[1]][c]
<1>1. UNCHANGED <<nodes, edges, manifest, run>> BY DEF Record, Edit, soul
<1>2. ASSUME NEW f \in File
      PROVE  work[f] <= work'[f] /\ work'[f] \in Nat /\ work[f] \in Nat
  <2>1. work[f] \in Nat BY Numbers
  <2>2. CASE Record BY <2>1, <2>2 DEF Record
  <2>3. ASSUME NEW g \in File, Edit(g) PROVE work[f] <= work'[f] /\ work'[f] \in Nat
    <3>1. PICK v \in 0 .. Last[g] : v > work[g] /\ work' = [work EXCEPT ![g] = v]
      BY <2>3 DEF Edit
    <3>2. Last[g] \in Nat BY SoulAssumption
    <3>3. v \in Nat BY <3>2
    <3>4. work \in [File -> 0 .. MaxContent] BY DEF TypeOK, Tree
    <3>5. work'[f] = IF f = g THEN v ELSE work[f] BY <3>1, <3>4
    <3> QED BY <2>1, <3>1, <3>3, <3>5
  <2> QED BY <2>1, <2>2, <2>3
<1>3. ASSUME NEW es \in SUBSET Edge, NEW since, Grounded(es, since)
      PROVE  Then(es, since)
  <2> SUFFICES ASSUME NEW e \in es
               PROVE  /\ e[1] # e[2]
                      /\ \E c \in 0 .. MaxContent :
                            since[e[1]] <= c /\ c <= work'[e[1]] /\ e[2] \in Text[e[1]][c]
    OBVIOUS
  <2>1. PICK c \in 0 .. MaxContent :
          /\ e[1] # e[2] /\ since[e[1]] <= c /\ c <= work[e[1]] /\ e[2] \in Text[e[1]][c]
    BY <1>3 DEF Grounded
  <2>2. c \in Nat BY SoulAssumption
  <2>3. e[1] \in File BY DEF Edge
  <2>4. c <= work'[e[1]] BY <1>2, <2>1, <2>2, <2>3
  <2> QED BY <2>1, <2>4
<1>4. ASSUME NEW t \in Tree, Behind(t) PROVE Behind(t)'
  <2>1. ASSUME NEW f \in File PROVE t[f] <= work'[f]
    <3>1. t[f] \in Nat BY TreeNat
    <3>2. t[f] <= work[f] BY <1>4 DEF Behind
    <3> QED BY <1>2, <3>1, <3>2
  <2> QED BY <2>1 DEF Behind
<1> HIDE DEF Then
<1>5. ASSUME NEW q \in Proc PROVE GroundedRun(run[q])'
  <2>1. run[q].edges \in SUBSET Edge /\ run[q].nodes \in Tree /\ run[q].parsed \in Tree
    <3>1. run[q] \in Run BY SinceTree
    <3> QED BY <3>1, RunFields
  <2>2. GroundedRun(run[q]) BY DEF GroundInv
  <2>3. run[q].op = "index" /\ run[q].at \in {"resolve", "look"} => head' = head
    BY DEF Record, Edit
  <2>4. /\ Grounded(run[q].edges, manifest.since) => Then(run[q].edges, manifest.since)
        /\ Grounded(run[q].edges, run[q].mine.since) => Then(run[q].edges, run[q].mine.since)
        /\ Grounded(run[q].edges, head) => Then(run[q].edges, head)
    BY <1>3, <2>1
  <2>5. /\ Then(run[q].edges, manifest.since) => Grounded(run[q].edges, manifest.since)'
        /\ Then(run[q].edges, run[q].mine.since)
              => Grounded(run[q].edges, run[q].mine.since)'
        /\ head' = head /\ Then(run[q].edges, head) => Grounded(run[q].edges, head)'
    BY <1>1 DEF Grounded, Then
  <2>6. /\ Behind(run[q].nodes) => Behind(run[q].nodes)'
        /\ Behind(run[q].parsed) => Behind(run[q].parsed)'
    BY <1>1, <1>4, <2>1 DEF Behind
  <2> QED BY <1>1, <2>2, <2>3, <2>4, <2>5, <2>6 DEF GroundedRun
<1>6. Grounded(edges, manifest.since)' /\ Behind(nodes)'
  <2>1. Grounded(edges, manifest.since) /\ Behind(nodes) BY DEF GroundInv
  <2>2. Then(edges, manifest.since) BY <1>3, <2>1, SinceTree
  <2>3. Grounded(edges, manifest.since)' BY <1>1, <2>2 DEF Grounded, Then
  <2>4. Behind(nodes)' BY <1>1, <1>4, <2>1, SinceTree DEF Behind
  <2> QED BY <2>3, <2>4
<1> QED BY <1>5, <1>6 DEF GroundInv

\* Every step of a repository with one updater keeps its edges grounded.
LEMMA GroundedStep ==
    ASSUME Solo, ~Reverts, ~Races, TypeOK, Anchored, SoloInv, GroundInv, [Next]_vars
    PROVE  GroundInv'
<1>1. CASE UNCHANGED <<git, soul, run>>
  BY <1>1 DEF git, soul, GroundInv, GroundedRun, Grounded, Behind
<1>2. ASSUME NEW p \in Proc, WriteIndex(p) \/ Die(p) PROVE GroundInv'
  <2>1. Become(p, Rest) /\ UNCHANGED <<head, work, nodes, edges, manifest>>
    BY <1>2 DEF WriteIndex, Die, Release, git, soul
  <2> QED BY <2>1, RestGrounded, GroundedMove
<1>3. ASSUME NEW p \in Proc,
             \/ Open(p) \/ Load(p) \/ Reindex(p) \/ Lock(p) \/ Look(p) \/ Diff(p)
             \/ Parse(p) \/ Extract(p) \/ ExtractAll(p) \/ Stamp(p)
             \/ WriteNodes(p) \/ WriteEdges(p) \/ WriteManifest(p) \/ WriteIndex(p) \/ Die(p)
      PROVE  GroundInv'
  BY <1>2, <1>3, GroundedBefore, GroundedDiff, GroundedParse, GroundedExtract, GroundedIndex, GroundedWrite
<1>4. CASE \E r \in Reader : ReadManifest(r) \/ ReadNodes(r) \/ ReadEdges(r)
  BY <1>1, <1>4 DEF ReadManifest, ReadNodes, ReadEdges, See
<1>5. CASE UNCHANGED vars BY <1>1, <1>5 DEF vars
<1> QED BY <1>3, <1>4, <1>5, GroundedRepository DEF Next

\* At the start every edge is drawn from the first contents.
LEMMA GroundedInit == Init /\ TypeOK => GroundInv
<1> SUFFICES ASSUME Init, TypeOK PROVE GroundInv OBVIOUS
<1>1. Behind(Nowhere) BY DEF Init, Behind, Nowhere
<1>2. edges = Resolved(File, work, Nowhere) /\ manifest.since = Nowhere /\ nodes = Nowhere
  BY DEF Init
<1>3. Grounded(edges, manifest.since) BY <1>1, <1>2, NowhereType, GroundedDrawn
<1>4. \A p \in Proc : GroundedRun(run[p]) BY RestGrounded DEF Init
<1> QED BY <1>1, <1>2, <1>3, <1>4 DEF GroundInv

(* For one updater and any number of files and shards, where no edit is taken back and  *)
(* nobody commits under a full index: once HEAD is the working tree and the anchor is   *)
(* HEAD, every edge on disk is one a full index would draw, unless a commit is under    *)
(* way or has died in it.                                                               *)
THEOREM NoPhantomEdges ==
    ASSUME Solo, ~Reverts, ~Races
    PROVE  Spec => []NoPhantoms
<1>1. Init => TypeOK /\ Anchored /\ SoloInv /\ ReaderInv /\ GroundInv
  BY TypeInit, AnchoredInit, SyncedInit, GroundedInit
<1>2. TypeOK /\ Anchored /\ SoloInv /\ GroundInv => NoPhantoms
  <2> SUFFICES ASSUME TypeOK, Anchored, SoloInv, GroundInv, ~Writing, ~torn,
                      head = work, manifest.since = head,
                      NEW e \in edges
               PROVE  e \in Resolved(File, work, work)
    BY DEF NoPhantoms
  <2>1. e \in File \X File /\ e[1] \in File /\ e[2] \in File BY SinceTree DEF Edge
  <2>2. Present(nodes, e[1]) /\ Present(nodes, e[2]) BY DEF SoloInv, Clean, Attached
  <2>3. ASSUME NEW f \in File PROVE nodes[f] = work[f]
    <3>1. manifest.since[f] <= nodes[f] /\ nodes[f] <= work[f]
      BY DEF Anchored, Ordered, Reaches, GroundInv, Behind
    <3> QED BY <3>1, Numbers
  <2>4. PICK c \in 0 .. MaxContent :
          /\ e[1] # e[2] /\ manifest.since[e[1]] <= c /\ c <= work[e[1]]
          /\ e[2] \in Text[e[1]][c]
    BY DEF GroundInv, Grounded
  <2>5. c = work[e[1]] BY <2>1, <2>4, Numbers, SoulAssumption
  <2>6. Present(work, e[1]) /\ Present(work, e[2]) BY <2>1, <2>2, <2>3 DEF Present
  <2> QED BY <2>1, <2>4, <2>5, <2>6 DEF Resolved, Refers
<1>3. CASE File = {}
  <2>1. TypeOK => edges = {} BY <1>3 DEF TypeOK, Edge
  <2>2. TypeOK => NoPhantoms BY <2>1 DEF NoPhantoms
  <2> QED BY TypeCorrect, <2>2, PTL
<1>4. CASE File # {}
  <2>1. /\ TypeOK /\ Anchored /\ SoloInv /\ ReaderInv /\ GroundInv /\ [Next]_vars
        => (Anchored /\ SoloInv /\ ReaderInv /\ GroundInv)'
    <3> QED BY <1>4, AnchoredStep, SyncedStep, GroundedStep
  <2> QED BY <1>1, <1>2, <2>1, TypeCorrect, PTL DEF Spec
<1> QED BY <1>3, <1>4
=============================================================================
