----------------------------- MODULE MemoryStore -----------------------------
(***************************************************************************)
(* A memory store (packages/memory/src/store.ts): entries in shard files,  *)
(* written in holds of the store's lock, read without a lock and memoized  *)
(* by each process under the store's generation, which a writer bumps in   *)
(* store.gen after the files it wrote.  A system call that others can see  *)
(* is a step; what only the holder of the lock reads is read in one.       *)
(*                                                                         *)
(* A shard is a file of one collection; an id lives in one shard.  A body  *)
(* is a set of marks, such as the supporters that graph submissions unite, *)
(* and no mark is no entry; the entries of one call carry one body.  The   *)
(* memo of a whole collection (collectionReadCache) is that of its shards. *)
(* A store is not cleared, and stat tells two versions of store.gen apart. *)
(***************************************************************************)
EXTENDS Integers, FiniteSets

CONSTANTS
    Proc,
    Id,
    Shard,
    ShardOf,        \* the shard of each id
    Graph,          \* the shards of the graph collection
    Mark,
    Body,           \* the bodies calls carry
    Lanes,          \* the calls that are made
    MaxGen,         \* bound on the generation
    Mortal,         \* processes that may fail
    Torn,           \* lanes whose holder may fail after a file, before the bump
    Nobody

NoEntry == {}

ASSUME StoreAssumption ==
    /\ ShardOf \in [Id -> Shard]
    /\ Graph \subseteq Shard
    /\ Body \subseteq (SUBSET Mark) \ {NoEntry}
    /\ Lanes \subseteq {"upsert", "remove", "update", "submit"}
    /\ MaxGen \in Nat
    /\ Mortal \subseteq Proc
    /\ Torn \subseteq Lanes
    /\ Nobody \notin Proc

VARIABLES
    ledger,     \* the entry on disk of each id
    files,      \* the shards that have a file
    gen,        \* store.gen; 0 is no file
    lock,       \* who holds the lock
    label,      \* the generation each process memoized a shard at; 0 is not
    memo,       \* and the entries it memoized
    call,       \* what each process is doing
    acked       \* history: what the completed calls said of each id

disk == <<ledger, files, gen>>
memory == <<label, memo>>
vars == <<disk, lock, memory, call, acked>>

Image == [Id -> SUBSET Mark]

Idle == [at |-> "idle", pin |-> 0, lane |-> "upsert", ids |-> {}, body |-> {},
         image |-> [i \in Id |-> NoEntry], todo |-> {}, dirty |-> {}]

Call ==
    [at : {"idle", "read", "write", "bump"},
     pin : Nat,             \* the generation this pass reads at
     lane : {"upsert", "remove", "update", "submit"},
     ids : SUBSET Id,
     body : Body \cup {NoEntry},
     image : Image,         \* the store after the call
     todo : SUBSET Shard,   \* shards still to write
     dirty : SUBSET Shard]  \* shards written and not bumped

Holds(p) == call[p].at \in {"write", "bump"}

TypeOK ==
    /\ ledger \in Image
    /\ files \subseteq Shard
    /\ gen \in Nat
    /\ label \in [Proc -> [Shard -> Nat]]
    /\ memo \in [Proc -> Image]
    /\ call \in [Proc -> Call]
    /\ acked \in Image
    /\ lock \in Proc \cup {Nobody}
    /\ \A p \in Proc : Holds(p) <=> lock = p

Init ==
    /\ ledger = [i \in Id |-> NoEntry]
    /\ files = {}
    /\ gen = 0
    /\ lock = Nobody
    /\ label = [p \in Proc |-> [s \in Shard |-> 0]]
    /\ memo = [p \in Proc |-> [i \in Id |-> NoEntry]]
    /\ call = [p \in Proc |-> Idle]
    /\ acked = [i \in Id |-> NoEntry]

Shards(ids) == {ShardOf[i] : i \in ids}
Become(p, next) == call' = [call EXCEPT ![p] = next]

-----------------------------------------------------------------------------
(* Reads. *)

\* Mutant: what is memoized is served whatever its generation.
Hit_Unvalidated(p, s, g) == g >= 1 /\ label[p][s] >= 1

\* Generation 0 is never a key.
Hit(p, s, g) == g >= 1 /\ label[p][s] = g

\* What p finds of an id when it reads its shard at generation g.
Found(p, i, g) == IF Hit(p, ShardOf[i], g) THEN memo[p][i] ELSE ledger[i]

\* Shards that are parsed are memoized, under the generation read before.
Parsed(p, shards, g) == {s \in shards \cap files : g >= 1 /\ ~Hit(p, s, g)}

Memoize(p, shards, g) ==
    /\ label' = [label EXCEPT ![p] =
                    [s \in Shard |-> IF s \in Parsed(p, shards, g) THEN g ELSE label[p][s]]]
    /\ memo' = [memo EXCEPT ![p] =
                    [i \in Id |-> IF ShardOf[i] \in Parsed(p, shards, g) THEN ledger[i]
                                  ELSE memo[p][i]]]

\* readCollection and pinned passes read the generation once, readShard for
\* its one shard.
StartPass(p) ==
    /\ call[p].at = "idle"
    /\ Become(p, [Idle EXCEPT !.at = "read", !.pin = gen])
    /\ UNCHANGED <<disk, lock, memory, acked>>

ReadShard(p, s) ==
    /\ call[p].at = "read"
    /\ Memoize(p, {s}, call[p].pin)
    /\ UNCHANGED <<disk, lock, call, acked>>

EndPass(p) ==
    /\ call[p].at = "read"
    /\ Become(p, Idle)
    /\ UNCHANGED <<disk, lock, memory, acked>>

-----------------------------------------------------------------------------
(* Holds of the lock. *)

\* Mutant: a graph submission replaces what others submitted.
Merged_Replacing(lane, prior, body) == IF lane = "remove" THEN NoEntry ELSE body

\* upsert replaces, submit unites, update replaces what is there.
Merged(lane, prior, body) ==
    IF lane = "remove" \/ (lane = "update" /\ prior = NoEntry) THEN NoEntry
    ELSE IF lane = "submit" THEN prior \cup body
    ELSE body

\* The store as p finds it, with the call's entries merged into it.
Rewritten(p, lane, ids, body) ==
    [i \in Id |-> IF i \in ids THEN Merged(lane, Found(p, i, gen), body)
                  ELSE Found(p, i, gen)]

\* upsert rewrites its shards whatever they hold; the others only where an
\* entry changes.
ToWrite(p, lane, ids, image) ==
    Shards(IF lane = "upsert" THEN ids ELSE {i \in ids : image[i] # Found(p, i, gen)})

\* What a completed call says of an id of its own.
Said(i, lane, body, image) ==
    IF lane = "submit" THEN acked[i] \cup body ELSE image[i]

Ack(lane, ids, body, image) ==
    acked' = [i \in Id |-> IF i \in ids THEN Said(i, lane, body, image) ELSE acked[i]]

\* A call that finds nothing to write returns at once.
Skip(p, lane, ids, body) ==
    LET image == Rewritten(p, lane, ids, body)
    IN  /\ call[p].at = "idle"
        /\ lock = Nobody
        /\ ToWrite(p, lane, ids, image) = {}
        /\ Memoize(p, Shards(ids), gen)
        /\ Ack(lane, ids, body, image)
        /\ UNCHANGED <<disk, lock, call>>

\* The call of a process that took the lock and has what it will write.
Entered(l, own, marks, after, shards) ==
    [at |-> "write", pin |-> 0, lane |-> l, ids |-> own, body |-> marks,
     image |-> after, todo |-> shards, dirty |-> {}]

\* Mutant: the call does not wait for the lock.
Enter_Unlocked(p, lane, ids, body) ==
    LET image == Rewritten(p, lane, ids, body)
        todo == ToWrite(p, lane, ids, image)
    IN  /\ call[p].at = "idle"
        /\ todo # {}
        /\ gen + Cardinality(todo) <= MaxGen
        /\ lock' = p
        /\ Memoize(p, Shards(ids), gen)
        /\ Become(p, Entered(lane, ids, body, image, todo))
        /\ UNCHANGED <<disk, acked>>

Enter(p, lane, ids, body) ==
    LET image == Rewritten(p, lane, ids, body)
        todo == ToWrite(p, lane, ids, image)
    IN  /\ call[p].at = "idle"
        /\ lock = Nobody
        /\ todo # {}
        /\ gen + Cardinality(todo) <= MaxGen
        /\ lock' = p
        /\ Memoize(p, Shards(ids), gen)
        /\ Become(p, Entered(lane, ids, body, image, todo))
        /\ UNCHANGED <<disk, acked>>

\* A file is replaced.  Each file of a submission is followed by a bump, the
\* files of an upsert by one.
Write(p, s) ==
    LET rest == call[p].todo \ {s}
    IN  /\ call[p].at = "write"
        /\ s \in call[p].todo
        /\ ledger' = [i \in Id |-> IF ShardOf[i] = s THEN call[p].image[i] ELSE ledger[i]]
        /\ files' = files \cup {s}
        /\ Become(p, [call[p] EXCEPT !.todo = rest, !.dirty = @ \cup {s},
                          !.at = IF rest = {} \/ call[p].lane = "submit" THEN "bump"
                                 ELSE "write"])
        /\ UNCHANGED <<gen, lock, memory, acked>>

\* Mutant: taking an entry away does not move the generation.
Bumped_NotByRemove(p) == IF call[p].lane = "remove" THEN gen ELSE gen + 1

Bumped(p) == gen + 1

\* store.gen is replaced; the call is complete once its files are.
Bump(p) ==
    /\ call[p].at = "bump"
    /\ gen' = Bumped(p)
    /\ IF call[p].todo = {}
       THEN /\ Ack(call[p].lane, call[p].ids, call[p].body, call[p].image)
            /\ lock' = Nobody
            /\ Become(p, Idle)
       ELSE /\ Become(p, [call[p] EXCEPT !.at = "write", !.dirty = {}])
            /\ UNCHANGED <<lock, acked>>
    /\ UNCHANGED <<ledger, files, memory>>

Covered(p) == call[p].dirty = {} \/ call[p].lane \in Torn

Freed(p) == IF lock = p THEN Nobody ELSE lock

\* A process dies, and forgets; its lock is reclaimed (CribLock).
Die(p) ==
    /\ p \in Mortal
    /\ Covered(p)
    /\ lock' = Freed(p)
    /\ label' = [label EXCEPT ![p] = [s \in Shard |-> 0]]
    /\ memo' = [memo EXCEPT ![p] = [i \in Id |-> NoEntry]]
    /\ Become(p, Idle)
    /\ UNCHANGED <<disk, acked>>

\* A flush fails and the call throws: the file's flush before the rename, or
\* the directory's after it, with the file in place and not bumped.
Throw(p) ==
    /\ p \in Mortal
    /\ call[p].at \in {"write", "bump"}
    /\ Covered(p)
    /\ lock' = Nobody
    /\ Become(p, Idle)
    /\ UNCHANGED <<disk, memory, acked>>

\* The graph collection is written by submissions only, and only it is.
Fits(lane, ids) ==
    /\ ids # {}
    /\ Shards(ids) \subseteq (IF lane = "submit" THEN Graph ELSE Shard \ Graph)
    /\ lane \in {"remove", "update"} => \E i \in ids : ids = {i}

Reads(p) == StartPass(p) \/ EndPass(p) \/ \E s \in Shard : ReadShard(p, s)

Writes(p) ==
    \/ \E lane \in Lanes, ids \in SUBSET Id, body \in Body :
          /\ Fits(lane, ids)
          /\ Skip(p, lane, ids, body) \/ Enter(p, lane, ids, body)
    \/ \E s \in Shard : Write(p, s)
    \/ Bump(p)

Next == \E p \in Proc : Reads(p) \/ Writes(p) \/ Die(p) \/ Throw(p)

Spec == Init /\ [][Next]_vars

-----------------------------------------------------------------------------
(* Properties. *)

Dirty == IF lock = Nobody THEN {} ELSE call[lock].dirty

(***************************************************************************)
(* "Correctness rests on the generation" (store.ts:162): what a process    *)
(* memoized and would serve is what is on disk, but for files that are     *)
(* written and whose bump is still to come.                                *)
(***************************************************************************)
CacheHonest ==
    \A p \in Proc, i \in Id :
        Hit(p, ShardOf[i], gen) /\ ShardOf[i] \notin Dirty => memo[p][i] = ledger[i]

(***************************************************************************)
(* "interrupted writes do not lose acknowledged work" (store.ts:1379): but *)
(* for the entries of a call in flight, the disk holds what the last call  *)
(* to complete said of an entry; of a graph entry, at least all that       *)
(* completed submissions brought.                                          *)
(***************************************************************************)
InFlight(i) == lock # Nobody /\ i \in call[lock].ids

AckedKept ==
    \A i \in Id :
        IF ShardOf[i] \in Graph THEN acked[i] \subseteq ledger[i]
        ELSE ~InFlight(i) => ledger[i] = acked[i]

(***************************************************************************)
(* No lost update: a rewrite of a shard, which writes back all it found    *)
(* there, changes no entry but those of the call.                          *)
(***************************************************************************)
OnlyOwnEntries ==
    [][\A i \in Id : ledger'[i] # ledger[i] =>
          \E p \in Proc : lock = p /\ i \in call[p].ids]_vars

=============================================================================
