-------------------------- MODULE MemoryStoreProofs --------------------------
(***************************************************************************)
(* What MemoryStore promises for every number of processes, shards and     *)
(* entries.  The typing needs nothing; the rest needs that no call fails   *)
(* between a file and its bump (Torn = {}).  When a submission may, the    *)
(* next rewriter starts from a memo without the file, and AckedKept fails. *)
(***************************************************************************)
EXTENDS MemoryStore, TLAPS

-----------------------------------------------------------------------------
(* Types. *)

\* A record with the fields of a call is one.
LEMMA CallType ==
    ASSUME NEW a \in {"idle", "read", "write", "bump"}, NEW n \in Nat,
           NEW l \in {"upsert", "remove", "update", "submit"}, NEW own \in SUBSET Id,
           NEW b \in Body \cup {NoEntry}, NEW m \in Image,
           NEW t \in SUBSET Shard, NEW d \in SUBSET Shard
    PROVE  [at |-> a, pin |-> n, lane |-> l, ids |-> own, body |-> b,
            image |-> m, todo |-> t, dirty |-> d] \in Call
BY DEF Call

\* A process that does nothing is in a legal call.
LEMMA IdleType == Idle \in Call
<1>1. {} \in SUBSET Id /\ {} \in SUBSET Shard OBVIOUS
<1>2. [i \in Id |-> NoEntry] \in Image BY DEF Image, NoEntry
<1>3. {} \in Body \cup {NoEntry} BY DEF NoEntry
<1> QED BY <1>1, <1>2, <1>3, CallType DEF Idle

\* The shards of ids are shards.
LEMMA ShardsType == ASSUME NEW ids \in SUBSET Id PROVE Shards(ids) \subseteq Shard
BY StoreAssumption DEF Shards

\* What is merged into a store leaves a store.
LEMMA RewrittenType ==
    ASSUME TypeOK, NEW p \in Proc, NEW lane \in Lanes, NEW ids \in SUBSET Id, NEW body \in Body
    PROVE  /\ Rewritten(p, lane, ids, body) \in Image
           /\ ToWrite(p, lane, ids, Rewritten(p, lane, ids, body)) \in SUBSET Shard
<1>1. body \in SUBSET Mark BY StoreAssumption
<1>2. ASSUME NEW i \in Id PROVE Found(p, i, gen) \in SUBSET Mark BY DEF TypeOK, Image, Found
<1>3. ASSUME NEW i \in Id PROVE Merged(lane, Found(p, i, gen), body) \in SUBSET Mark
  BY <1>1, <1>2 DEF Merged, NoEntry
<1>4. Rewritten(p, lane, ids, body) \in Image BY <1>2, <1>3 DEF Rewritten, Image
<1> QED BY <1>4, ShardsType DEF ToWrite

\* What is memoized is entries, at a generation.
LEMMA MemoizeType ==
    ASSUME TypeOK, NEW p \in Proc, NEW shards, NEW g \in Nat, Memoize(p, shards, g)
    PROVE  /\ label' \in [Proc -> [Shard -> Nat]]
           /\ memo' \in [Proc -> Image]
<1>1. [s \in Shard |-> IF s \in Parsed(p, shards, g) THEN g ELSE label[p][s]] \in [Shard -> Nat]
  BY DEF TypeOK
<1>2. [i \in Id |-> IF ShardOf[i] \in Parsed(p, shards, g) THEN ledger[i] ELSE memo[p][i]] \in Image
  BY DEF TypeOK, Image
<1> QED BY <1>1, <1>2 DEF Memoize, TypeOK

\* What is acknowledged is entries.
LEMMA AckType ==
    ASSUME TypeOK, NEW lane, NEW ids, NEW body \in SUBSET Mark, NEW image \in Image,
           Ack(lane, ids, body, image)
    PROVE  acked' \in Image
BY DEF TypeOK, Ack, Said, Image

\* Who holds the lock is still told by the calls when one process takes it,
\* gives it up or keeps it.
LEMMA HoldsStep ==
    ASSUME TypeOK, NEW p \in Proc, NEW next \in Call, Become(p, next),
           \/ lock' = lock /\ (next.at \in {"write", "bump"} <=> Holds(p))
           \/ lock \in {p, Nobody} /\ lock' = p /\ next.at \in {"write", "bump"}
           \/ lock \in {p, Nobody} /\ lock' = Nobody /\ next.at \notin {"write", "bump"}
    PROVE  /\ call' \in [Proc -> Call]
           /\ lock' \in Proc \cup {Nobody}
           /\ \A q \in Proc : Holds(q)' <=> lock' = q
<1>1. call' \in [Proc -> Call] BY DEF Become, TypeOK
<1>2. \A q \in Proc : call'[q] = IF q = p THEN next ELSE call[q] BY DEF Become, TypeOK
<1>3. Nobody \notin Proc BY StoreAssumption
<1> QED BY <1>1, <1>2, <1>3 DEF TypeOK, Holds

\* The initial state is well typed.
LEMMA TypeInit == Init => TypeOK
<1> SUFFICES ASSUME Init PROVE TypeOK OBVIOUS
<1>1. [i \in Id |-> NoEntry] \in Image BY DEF Image, NoEntry
<1>2. ledger \in Image /\ acked \in Image /\ memo \in [Proc -> Image] BY <1>1 DEF Init
<1>3. label \in [Proc -> [Shard -> Nat]] BY DEF Init
<1>4. call \in [Proc -> Call] BY IdleType DEF Init
<1>5. lock \in Proc \cup {Nobody} BY DEF Init
<1>6. \A p \in Proc : Holds(p) <=> lock = p BY StoreAssumption DEF Init, Holds, Idle
<1> QED BY <1>2, <1>3, <1>4, <1>5, <1>6 DEF Init, TypeOK

\* Every step keeps the types, and the lock with its holder.
LEMMA TypeStep == TypeOK /\ [Next]_vars => TypeOK'
<1> SUFFICES ASSUME TypeOK, [Next]_vars PROVE TypeOK' OBVIOUS
<1>1. ASSUME NEW p \in Proc, StartPass(p) PROVE TypeOK'
  <2> DEFINE y == [Idle EXCEPT !.at = "read", !.pin = gen]
  <2>1. y \in Call /\ y.at = "read" BY IdleType DEF TypeOK, Call
  <2>2. Become(p, y) /\ lock' = lock /\ ~Holds(p) BY <1>1 DEF StartPass, Holds
  <2> HIDE DEF y
  <2> QED BY <1>1, <2>1, <2>2, HoldsStep DEF StartPass, TypeOK, disk, memory
<1>2. ASSUME NEW p \in Proc, NEW s \in Shard, ReadShard(p, s) PROVE TypeOK'
  <2>1. call[p].pin \in Nat BY DEF TypeOK, Call
  <2> QED BY <1>2, <2>1, MemoizeType DEF ReadShard, TypeOK, disk, Holds
<1>3. ASSUME NEW p \in Proc, EndPass(p) PROVE TypeOK'
  <2>1. Become(p, Idle) /\ lock' = lock /\ ~Holds(p) BY <1>3 DEF EndPass, Holds
  <2>2. Idle.at = "idle" BY DEF Idle
  <2> QED BY <1>3, <2>1, <2>2, IdleType, HoldsStep DEF EndPass, TypeOK, disk, memory
<1>4. ASSUME NEW p \in Proc, NEW lane \in Lanes, NEW ids \in SUBSET Id, NEW body \in Body,
             Skip(p, lane, ids, body)
      PROVE  TypeOK'
  <2>1. body \in SUBSET Mark BY StoreAssumption
  <2>2. acked' \in Image BY <1>4, <2>1, RewrittenType, AckType DEF Skip
  <2>3. gen \in Nat /\ Memoize(p, Shards(ids), gen) BY <1>4 DEF Skip, TypeOK
  <2>4. label' \in [Proc -> [Shard -> Nat]] /\ memo' \in [Proc -> Image] BY <2>3, MemoizeType
  <2> QED BY <1>4, <2>2, <2>4 DEF Skip, TypeOK, disk, Holds
<1>5. ASSUME NEW p \in Proc, NEW lane \in Lanes, NEW ids \in SUBSET Id, NEW body \in Body,
             Enter(p, lane, ids, body)
      PROVE  TypeOK'
  <2> DEFINE image == Rewritten(p, lane, ids, body)
             todo == ToWrite(p, lane, ids, image)
             y == Entered(lane, ids, body, image, todo)
  <2>1. lane \in {"upsert", "remove", "update", "submit"} BY StoreAssumption
  <2>2. image \in Image /\ todo \in SUBSET Shard BY RewrittenType
  <2> HIDE DEF image, todo
  <2>3. y \in Call BY <2>1, <2>2, CallType DEF Entered
  <2>4. y.at = "write" BY DEF Entered
  <2>5. Become(p, y) /\ lock = Nobody /\ lock' = p BY <1>5 DEF Enter, image, todo
  <2>6. gen \in Nat /\ Memoize(p, Shards(ids), gen) BY <1>5 DEF Enter, TypeOK
  <2>7. label' \in [Proc -> [Shard -> Nat]] /\ memo' \in [Proc -> Image] BY <2>6, MemoizeType
  <2> HIDE DEF y
  <2>8. /\ call' \in [Proc -> Call]
        /\ lock' \in Proc \cup {Nobody}
        /\ \A q \in Proc : Holds(q)' <=> lock' = q
    BY <2>3, <2>4, <2>5, HoldsStep
  <2> QED BY <1>5, <2>7, <2>8 DEF Enter, TypeOK, disk
<1>6. ASSUME NEW p \in Proc, NEW s \in Shard, Write(p, s) PROVE TypeOK'
  <2> DEFINE rest == call[p].todo \ {s}
             y == [call[p] EXCEPT !.todo = rest, !.dirty = @ \cup {s},
                       !.at = IF rest = {} \/ call[p].lane = "submit" THEN "bump" ELSE "write"]
  <2>1. y \in Call /\ y.at \in {"write", "bump"} BY DEF TypeOK, Call
  <2>2. Become(p, y) /\ lock' = lock /\ Holds(p) BY <1>6 DEF Write, Holds
  <2>3. ledger' \in Image BY <1>6 DEF Write, TypeOK, Call, Image
  <2> HIDE DEF y
  <2>4. /\ call' \in [Proc -> Call]
        /\ lock' \in Proc \cup {Nobody}
        /\ \A q \in Proc : Holds(q)' <=> lock' = q
    BY <2>1, <2>2, HoldsStep
  <2> QED BY <1>6, <2>3, <2>4 DEF Write, TypeOK, memory
<1>7. ASSUME NEW p \in Proc, Bump(p) PROVE TypeOK'
  <2>1. call[p].body \in SUBSET Mark /\ call[p].image \in Image
    BY StoreAssumption DEF TypeOK, Call, NoEntry
  <2>2. gen' \in Nat BY <1>7 DEF Bump, Bumped, TypeOK
  <2>3. Holds(p) /\ lock = p BY <1>7 DEF Bump, Holds, TypeOK
  <2>4. CASE call[p].todo = {}
    <3>1. acked' \in Image BY <1>7, <2>1, <2>4, AckType DEF Bump
    <3>2. Become(p, Idle) /\ lock' = Nobody BY <1>7, <2>4 DEF Bump
    <3>3. Idle.at = "idle" BY DEF Idle
    <3>4. /\ call' \in [Proc -> Call]
          /\ lock' \in Proc \cup {Nobody}
          /\ \A q \in Proc : Holds(q)' <=> lock' = q
      BY <2>3, <3>2, <3>3, IdleType, HoldsStep
    <3> QED BY <1>7, <2>2, <3>1, <3>4 DEF Bump, TypeOK, memory
  <2>5. CASE call[p].todo # {}
    <3> DEFINE y == [call[p] EXCEPT !.at = "write", !.dirty = {}]
    <3>1. y \in Call /\ y.at = "write" BY DEF TypeOK, Call
    <3>2. Become(p, y) /\ lock' = lock /\ acked' = acked BY <1>7, <2>5 DEF Bump
    <3> HIDE DEF y
    <3>3. /\ call' \in [Proc -> Call]
          /\ lock' \in Proc \cup {Nobody}
          /\ \A q \in Proc : Holds(q)' <=> lock' = q
      BY <2>3, <3>1, <3>2, HoldsStep
    <3> QED BY <1>7, <2>2, <3>2, <3>3 DEF Bump, TypeOK, memory
  <2> QED BY <2>4, <2>5
<1>8. ASSUME NEW p \in Proc, Die(p) PROVE TypeOK'
  <2>1. [i \in Id |-> NoEntry] \in Image BY DEF Image, NoEntry
  <2>2. label' \in [Proc -> [Shard -> Nat]] /\ memo' \in [Proc -> Image]
    BY <1>8, <2>1 DEF Die, TypeOK
  <2>3. Become(p, Idle) /\ Idle.at = "idle" BY <1>8 DEF Die, Idle
  <2>4. IF lock = p THEN lock' = Nobody ELSE lock' = lock /\ ~Holds(p)
    BY <1>8 DEF Die, Freed, TypeOK
  <2>5. /\ call' \in [Proc -> Call]
        /\ lock' \in Proc \cup {Nobody}
        /\ \A q \in Proc : Holds(q)' <=> lock' = q
    BY <2>3, <2>4, IdleType, HoldsStep
  <2> QED BY <1>8, <2>2, <2>5 DEF Die, TypeOK, disk
<1>9. ASSUME NEW p \in Proc, Throw(p) PROVE TypeOK'
  <2>1. Become(p, Idle) /\ Idle.at = "idle" /\ lock' = Nobody BY <1>9 DEF Throw, Idle
  <2>2. lock = p BY <1>9 DEF Throw, TypeOK, Holds
  <2>3. /\ call' \in [Proc -> Call]
        /\ lock' \in Proc \cup {Nobody}
        /\ \A q \in Proc : Holds(q)' <=> lock' = q
    BY <2>1, <2>2, IdleType, HoldsStep
  <2> QED BY <1>9, <2>3 DEF Throw, TypeOK, disk, memory
<1>10. ASSUME UNCHANGED vars PROVE TypeOK'
  BY <1>10 DEF vars, disk, memory, TypeOK, Holds
<1> QED
  BY <1>1, <1>2, <1>3, <1>4, <1>5, <1>6, <1>7, <1>8, <1>9, <1>10 DEF Next, Reads, Writes

\* The store is well typed, and the process in a hold has the lock.
THEOREM TypeCorrect == Spec => []TypeOK
BY TypeInit, TypeStep, PTL DEF Spec

-----------------------------------------------------------------------------
(* The inductive invariant. *)

\* Nothing is memoized, and no pass reads, at a generation still to come.
Past ==
    \A p \in Proc : call[p].pin <= gen /\ \A s \in Shard : label[p][s] <= gen

\* What the holder will write carries what is on disk for the entries that
\* are not its own, and what was acknowledged and what it brings for its own.
Planned(p) ==
    /\ Shards(call[p].ids) \subseteq IF call[p].lane = "submit" THEN Graph ELSE Shard \ Graph
    /\ call[p].todo \subseteq Shards(call[p].ids)
    /\ \A i \in Id \ call[p].ids :
          ShardOf[i] \in call[p].todo => call[p].image[i] = ledger[i]
    /\ \A i \in call[p].ids :
          ShardOf[i] \notin call[p].todo => call[p].image[i] = ledger[i]
    /\ call[p].lane = "submit" =>
          \A i \in call[p].ids : acked[i] \cup call[p].body \subseteq call[p].image[i]
    /\ call[p].lane # "submit" /\ call[p].dirty = {} =>
          \A i \in call[p].ids : ledger[i] = acked[i]
    /\ call[p].lane # "submit" /\ call[p].at = "bump" => call[p].todo = {}

Plans == \A p \in Proc : lock = p => Planned(p)

IInv == Past /\ CacheHonest /\ AckedKept /\ Plans

\* Who finds the lock free finds the disk, memoized or not.
LEMMA FoundIsDisk ==
    ASSUME CacheHonest, lock = Nobody, NEW p \in Proc, NEW i \in Id
    PROVE  Found(p, i, gen) = ledger[i]
BY DEF CacheHonest, Dirty, Found

\* With no hold, the disk holds exactly, or at least, what was acknowledged.
LEMMA AckedFree ==
    ASSUME AckedKept, lock = Nobody, NEW i \in Id
    PROVE  /\ ShardOf[i] \in Graph => acked[i] \subseteq ledger[i]
           /\ ShardOf[i] \notin Graph => ledger[i] = acked[i]
BY DEF AckedKept, InFlight

\* A read at the present generation memoizes the disk, one at an earlier
\* generation what no reader at the present one will take.
LEMMA MemoizeHonest ==
    ASSUME TypeOK, Past, CacheHonest, NEW p \in Proc, NEW shards, NEW g \in Nat, g <= gen,
           Memoize(p, shards, g), gen' = gen, ledger' = ledger, Dirty' = Dirty
    PROVE  /\ CacheHonest'
           /\ \A q \in Proc : \A s \in Shard : label'[q][s] <= gen
<1>1. \A q \in Proc : \A s \in Shard :
         label'[q][s] = IF q = p /\ s \in Parsed(p, shards, g) THEN g ELSE label[q][s]
  BY DEF Memoize, TypeOK
<1>2. \A q \in Proc : \A i \in Id :
         memo'[q][i] = IF q = p /\ ShardOf[i] \in Parsed(p, shards, g) THEN ledger[i] ELSE memo[q][i]
  BY DEF Memoize, TypeOK
<1>3. \A i \in Id : ShardOf[i] \in Shard BY StoreAssumption
<1>4. \A q \in Proc : \A s \in Shard : label'[q][s] <= gen BY <1>1 DEF Past
<1>5. ASSUME NEW q \in Proc, NEW i \in Id, Hit(q, ShardOf[i], gen)', ShardOf[i] \notin Dirty'
      PROVE  memo'[q][i] = ledger'[i]
  <2>1. CASE q = p /\ ShardOf[i] \in Parsed(p, shards, g) BY <1>2, <2>1
  <2>2. CASE ~(q = p /\ ShardOf[i] \in Parsed(p, shards, g))
    <3>1. Hit(q, ShardOf[i], gen) BY <1>1, <1>3, <1>5, <2>2 DEF Hit
    <3>2. memo'[q][i] = memo[q][i] BY <1>2, <2>2
    <3> QED BY <1>5, <3>1, <3>2 DEF CacheHonest
  <2> QED BY <2>1, <2>2
<1> QED BY <1>4, <1>5 DEF CacheHonest

\* The plan of a call that found the lock free.
LEMMA PlanMade ==
    ASSUME TypeOK, CacheHonest, AckedKept, lock = Nobody,
           NEW p \in Proc, NEW lane \in Lanes, NEW ids \in SUBSET Id, NEW body \in Body,
           Fits(lane, ids)
    PROVE  LET image == Rewritten(p, lane, ids, body)
               todo == ToWrite(p, lane, ids, image)
           IN  /\ todo \subseteq Shards(ids)
               /\ \A i \in Id \ ids : image[i] = ledger[i]
               /\ \A i \in ids : ShardOf[i] \notin todo => image[i] = ledger[i]
               /\ lane = "submit" => \A i \in ids : acked[i] \cup body \subseteq image[i]
               /\ lane # "submit" => \A i \in ids : ledger[i] = acked[i]
<1> DEFINE image == Rewritten(p, lane, ids, body)
           todo == ToWrite(p, lane, ids, image)
<1>1. \A i \in Id : Found(p, i, gen) = ledger[i] BY FoundIsDisk
<1>2. \A i \in Id : image[i] = IF i \in ids THEN Merged(lane, ledger[i], body) ELSE ledger[i]
  BY <1>1 DEF Rewritten
<1>3. \A i \in Id \ ids : image[i] = ledger[i] BY <1>2
<1> HIDE DEF image
<1>4. todo = {ShardOf[i] : i \in IF lane = "upsert" THEN ids ELSE {j \in ids : image[j] # ledger[j]}}
  BY <1>1 DEF ToWrite, Shards
<1> HIDE DEF todo
<1>5. todo \subseteq Shards(ids) BY <1>4 DEF Shards
<1>6. \A i \in ids : ShardOf[i] \notin todo => image[i] = ledger[i] BY <1>4
<1>7. ASSUME lane = "submit", NEW i \in ids PROVE acked[i] \cup body \subseteq image[i]
  <2>1. ShardOf[i] \in Graph BY <1>7 DEF Fits, Shards
  <2>2. acked[i] \subseteq ledger[i] BY <2>1, AckedFree
  <2>3. image[i] = ledger[i] \cup body BY <1>2, <1>7 DEF Merged
  <2> QED BY <2>2, <2>3
<1>8. ASSUME lane # "submit", NEW i \in ids PROVE ledger[i] = acked[i]
  <2>1. ShardOf[i] \notin Graph BY <1>8 DEF Fits, Shards
  <2> QED BY <2>1, AckedFree
<1> QED BY <1>3, <1>5, <1>6, <1>7, <1>8 DEF image, todo

\* The initial state satisfies it.
LEMMA InvInit == Init => IInv
BY StoreAssumption
   DEF Init, IInv, Past, CacheHonest, Hit, AckedKept, InFlight, Plans, Idle

\* What a process does without the lock leaves the holder and the disk alone.
LEMMA Aside ==
    ASSUME TypeOK, IInv, NEW p \in Proc, lock' = lock, lock # p,
           \A q \in Proc : q # p => call'[q] = call[q],
           UNCHANGED <<ledger, acked, gen>>
    PROVE  Dirty' = Dirty /\ AckedKept' /\ Plans'
<1>1. lock \in Proc \cup {Nobody} BY DEF TypeOK
<1>2. lock # Nobody => call'[lock] = call[lock] BY <1>1
<1>3. Dirty' = Dirty BY <1>2 DEF Dirty
<1>4. AckedKept' BY <1>2 DEF IInv, AckedKept, InFlight
<1>5. ASSUME NEW q \in Proc, lock' = q PROVE Planned(q)'
  <2>1. Planned(q) /\ call'[q] = call[q] BY <1>5 DEF IInv, Plans
  <2> QED BY <2>1 DEF Planned
<1> QED BY <1>3, <1>4, <1>5 DEF Plans

\* A hold that is given up with nothing written leaves what was acknowledged.
LEMMA GivenUp ==
    ASSUME TypeOK, IInv, NEW p \in Proc, lock = p, call[p].dirty = {}, lock' = Nobody,
           UNCHANGED <<ledger, acked, gen>>
    PROVE  Dirty' = Dirty /\ AckedKept' /\ Plans'
<1>1. Nobody \notin Proc BY StoreAssumption
<1>2. Dirty = {} /\ Dirty' = {} BY <1>1 DEF Dirty
<1>3. Plans' BY <1>1 DEF Plans
<1>4. Planned(p) BY DEF IInv, Plans
<1>5. ASSUME NEW i \in Id, ShardOf[i] \notin Graph PROVE ledger[i] = acked[i]
  <2>1. CASE i \in call[p].ids
    <3>1. call[p].lane # "submit" BY <1>4, <1>5, <2>1 DEF Planned, Shards
    <3> QED BY <1>4, <2>1, <3>1 DEF Planned
  <2>2. CASE i \notin call[p].ids BY <1>5, <2>2 DEF IInv, AckedKept, InFlight
  <2> QED BY <2>1, <2>2
<1>6. AckedKept' BY <1>5 DEF IInv, AckedKept
<1> QED BY <1>2, <1>3, <1>6

\* A pass that starts or ends.
LEMMA PassInv ==
    ASSUME TypeOK, IInv, NEW p \in Proc, StartPass(p) \/ EndPass(p)
    PROVE  IInv'
<1>1. lock # p BY DEF StartPass, EndPass, TypeOK, Holds
<1>2. /\ \A q \in Proc : q # p => call'[q] = call[q]
      /\ call'[p].pin <= gen
  <2>1. CASE StartPass(p)
    <3> DEFINE y == [Idle EXCEPT !.at = "read", !.pin = gen]
    <3>1. y.pin = gen BY DEF Idle
    <3>2. call' = [call EXCEPT ![p] = y] BY <2>1 DEF StartPass, Become
    <3> HIDE DEF y
    <3> QED BY <3>1, <3>2 DEF TypeOK
  <2>2. CASE EndPass(p)
    <3>1. Idle.pin = 0 BY DEF Idle
    <3>2. call' = [call EXCEPT ![p] = Idle] BY <2>2 DEF EndPass, Become
    <3> QED BY <3>1, <3>2 DEF TypeOK
  <2> QED BY <2>1, <2>2
<1>3. UNCHANGED <<ledger, acked, gen, lock, label, memo>> BY DEF StartPass, EndPass, disk, memory
<1>4. Dirty' = Dirty /\ AckedKept' /\ Plans' BY <1>1, <1>2, <1>3, Aside
<1>5. Past' BY <1>2, <1>3 DEF IInv, Past
<1>6. CacheHonest' BY <1>3, <1>4 DEF IInv, CacheHonest, Hit
<1> QED BY <1>4, <1>5, <1>6 DEF IInv

\* A shard that is read in a pass.
LEMMA ReadInv ==
    ASSUME TypeOK, IInv, NEW p \in Proc, NEW s \in Shard, ReadShard(p, s)
    PROVE  IInv'
<1>1. lock # p BY DEF ReadShard, TypeOK, Holds
<1>2. UNCHANGED <<ledger, acked, gen, lock, call>> BY DEF ReadShard, disk
<1>3. Dirty' = Dirty /\ AckedKept' /\ Plans' BY <1>1, <1>2, Aside
<1>4. call[p].pin \in Nat /\ call[p].pin <= gen BY DEF IInv, Past, TypeOK, Call
<1>5. CacheHonest' /\ \A q \in Proc : \A t \in Shard : label'[q][t] <= gen
  BY <1>2, <1>3, <1>4, MemoizeHonest DEF ReadShard, IInv
<1>6. Past' BY <1>2, <1>5 DEF IInv, Past
<1> QED BY <1>3, <1>5, <1>6 DEF IInv

\* A call that finds nothing to write.
LEMMA SkipInv ==
    ASSUME TypeOK, IInv, NEW p \in Proc, NEW lane \in Lanes, NEW ids \in SUBSET Id,
           NEW body \in Body, Fits(lane, ids), Skip(p, lane, ids, body)
    PROVE  IInv'
<1> DEFINE image == Rewritten(p, lane, ids, body)
<1>1. lock = Nobody /\ ToWrite(p, lane, ids, image) = {} BY DEF Skip
<1>2. UNCHANGED <<ledger, gen, lock, call>> BY DEF Skip, disk
<1>3. /\ \A i \in ids : image[i] = ledger[i]
      /\ lane = "submit" => \A i \in ids : acked[i] \cup body \subseteq image[i]
  BY <1>1, PlanMade DEF IInv
<1> HIDE DEF image
<1>4. Ack(lane, ids, body, image) BY DEF Skip, image
<1>5. AckedKept'
  <2>1. ASSUME NEW i \in Id, ShardOf[i] \in Graph PROVE acked'[i] \subseteq ledger[i]
    <3>1. acked[i] \subseteq ledger[i] BY <2>1 DEF IInv, AckedKept
    <3> QED BY <1>3, <1>4, <3>1 DEF Ack, Said
  <2>2. ASSUME NEW i \in Id, ShardOf[i] \notin Graph PROVE ledger[i] = acked'[i]
    <3>1. ledger[i] = acked[i] BY <1>1, <2>2, AckedFree DEF IInv
    <3>2. i \in ids => lane # "submit" BY <2>2 DEF Fits, Shards
    <3> QED BY <1>3, <1>4, <3>1, <3>2 DEF Ack, Said
  <2> QED BY <1>2, <2>1, <2>2 DEF AckedKept
<1>6. Dirty' = Dirty BY <1>2 DEF Dirty
<1>7. gen \in Nat BY DEF TypeOK
<1>8. CacheHonest' /\ \A q \in Proc : \A t \in Shard : label'[q][t] <= gen
  BY <1>2, <1>6, <1>7, MemoizeHonest DEF Skip, IInv
<1>9. Past' BY <1>2, <1>8 DEF IInv, Past
<1>10. Plans' BY <1>1, <1>2, StoreAssumption DEF Plans
<1> QED BY <1>5, <1>8, <1>9, <1>10 DEF IInv

\* A call that takes the lock and plans its writes.
LEMMA EnterInv ==
    ASSUME TypeOK, IInv, NEW p \in Proc, NEW lane \in Lanes, NEW ids \in SUBSET Id,
           NEW body \in Body, Fits(lane, ids), Enter(p, lane, ids, body)
    PROVE  IInv'
<1> DEFINE image == Rewritten(p, lane, ids, body)
           todo == ToWrite(p, lane, ids, image)
<1>1. lock = Nobody /\ lock' = p BY DEF Enter
<1>2. UNCHANGED <<ledger, gen, acked>> BY DEF Enter, disk
<1>3. /\ todo \subseteq Shards(ids)
      /\ \A i \in Id \ ids : image[i] = ledger[i]
      /\ \A i \in ids : ShardOf[i] \notin todo => image[i] = ledger[i]
      /\ lane = "submit" => \A i \in ids : acked[i] \cup body \subseteq image[i]
      /\ lane # "submit" => \A i \in ids : ledger[i] = acked[i]
  BY <1>1, PlanMade DEF IInv
<1> HIDE DEF image, todo
<1>4. call' = [call EXCEPT ![p] = Entered(lane, ids, body, image, todo)]
  BY DEF Enter, Become, image, todo
<1>5. /\ \A q \in Proc : q # p => call'[q] = call[q]
      /\ call'[p].at = "write" /\ call'[p].pin = 0 /\ call'[p].lane = lane
      /\ call'[p].ids = ids /\ call'[p].body = body /\ call'[p].image = image
      /\ call'[p].todo = todo /\ call'[p].dirty = {}
  BY <1>4 DEF Entered, TypeOK
<1>6. Nobody \notin Proc BY StoreAssumption
<1>7. Dirty' = Dirty BY <1>1, <1>5, <1>6 DEF Dirty
<1>8. gen \in Nat BY DEF TypeOK
<1>9. CacheHonest' /\ \A q \in Proc : \A t \in Shard : label'[q][t] <= gen
  BY <1>2, <1>7, <1>8, MemoizeHonest DEF Enter, IInv
<1>10. \A q \in Proc : call'[q].pin <= gen BY <1>5, <1>8 DEF IInv, Past
<1>11. Past' BY <1>2, <1>9, <1>10 DEF Past
<1>12. AckedKept' BY <1>1, <1>2, AckedFree DEF AckedKept, IInv
<1>13. Planned(p)' BY <1>2, <1>3, <1>5 DEF Planned, Fits
<1>14. Plans' BY <1>1, <1>13 DEF Plans
<1> QED BY <1>9, <1>11, <1>12, <1>14 DEF IInv

\* A file is written.
LEMMA WriteInv ==
    ASSUME TypeOK, IInv, NEW p \in Proc, NEW s \in Shard, Write(p, s)
    PROVE  IInv'
<1> DEFINE rest == call[p].todo \ {s}
           y == [call[p] EXCEPT !.todo = rest, !.dirty = @ \cup {s},
                     !.at = IF rest = {} \/ call[p].lane = "submit" THEN "bump" ELSE "write"]
<1>1. lock = p /\ lock' = p /\ s \in call[p].todo BY DEF Write, TypeOK, Holds
<1>2. Planned(p) BY <1>1 DEF IInv, Plans
<1>3. /\ y.pin = call[p].pin /\ y.lane = call[p].lane /\ y.ids = call[p].ids
      /\ y.body = call[p].body /\ y.image = call[p].image /\ y.todo = call[p].todo \ {s}
      /\ y.dirty = call[p].dirty \cup {s}
      /\ y.at = "bump" /\ y.lane # "submit" => y.todo = {}
  BY DEF TypeOK, Call
<1>4. call' = [call EXCEPT ![p] = y] BY DEF Write, Become
<1> HIDE DEF y
<1>5. call'[p] = y /\ \A q \in Proc : q # p => call'[q] = call[q] BY <1>4 DEF TypeOK
<1>6. UNCHANGED <<gen, acked, label, memo>> BY DEF Write, memory
<1>7. \A i \in Id : ledger'[i] = IF ShardOf[i] = s THEN call[p].image[i] ELSE ledger[i]
  BY DEF Write
<1>8. call[p].ids \subseteq Id BY DEF TypeOK, Call
<1>9. Past' BY <1>3, <1>5, <1>6 DEF IInv, Past
<1>10. CacheHonest'
  <2>1. Nobody \notin Proc BY StoreAssumption
  <2>2. Dirty' = Dirty \cup {s} BY <1>1, <1>3, <1>5, <2>1 DEF Dirty
  <2> QED BY <1>6, <1>7, <2>2 DEF IInv, CacheHonest, Hit
<1>11. AckedKept'
  <2>1. ASSUME NEW i \in Id, ShardOf[i] \in Graph PROVE acked[i] \subseteq ledger'[i]
    <3>1. acked[i] \subseteq ledger[i] BY <2>1 DEF IInv, AckedKept
    <3>2. CASE ShardOf[i] = s /\ i \in call[p].ids
      <4>1. call[p].lane = "submit" BY <1>2, <2>1, <3>2 DEF Planned, Shards
      <4> QED BY <1>2, <1>7, <3>2, <4>1 DEF Planned
    <3>3. CASE ShardOf[i] = s /\ i \notin call[p].ids
      <4>1. call[p].image[i] = ledger[i] BY <1>1, <1>2, <3>3 DEF Planned
      <4> QED BY <1>7, <3>1, <3>3, <4>1
    <3>4. CASE ShardOf[i] # s BY <1>7, <3>1, <3>4
    <3> QED BY <3>2, <3>3, <3>4
  <2>2. ASSUME NEW i \in Id, ShardOf[i] \notin Graph, ~InFlight(i)' PROVE ledger'[i] = acked[i]
    <3>1. Nobody \notin Proc BY StoreAssumption
    <3>2. i \notin call[p].ids BY <1>1, <1>3, <1>5, <2>2, <3>1 DEF InFlight
    <3>3. ledger[i] = acked[i] BY <1>1, <2>2, <3>2 DEF IInv, AckedKept, InFlight
    <3>4. ShardOf[i] = s => call[p].image[i] = ledger[i] BY <1>1, <1>2, <3>2 DEF Planned
    <3> QED BY <1>7, <3>3, <3>4
  <2> QED BY <1>6, <2>1, <2>2 DEF AckedKept
<1>12. Planned(p)'
  <2>1. \A i \in Id \ call[p].ids :
           ShardOf[i] \in call[p].todo \ {s} => call[p].image[i] = ledger'[i]
    BY <1>2, <1>7 DEF Planned
  <2>2. \A i \in call[p].ids :
           ShardOf[i] \notin call[p].todo \ {s} => call[p].image[i] = ledger'[i]
    BY <1>2, <1>7, <1>8 DEF Planned
  <2> QED BY <1>2, <1>3, <1>5, <1>6, <2>1, <2>2 DEF Planned
<1>13. Plans' BY <1>1, <1>12 DEF Plans
<1> QED BY <1>9, <1>10, <1>11, <1>13 DEF IInv

\* The generation moves on, and no memo is valid any more.
LEMMA BumpInv ==
    ASSUME TypeOK, IInv, NEW p \in Proc, Bump(p)
    PROVE  IInv'
<1>1. lock = p /\ Nobody \notin Proc BY StoreAssumption DEF Bump, TypeOK, Holds
<1>2. Planned(p) BY <1>1 DEF IInv, Plans
<1>3. gen' = gen + 1 /\ gen \in Nat BY DEF Bump, Bumped, TypeOK
<1>4. UNCHANGED <<ledger, label, memo>> BY DEF Bump, memory
<1>5. \A q \in Proc : \A s \in Shard : label[q][s] \in Nat /\ label[q][s] <= gen
  BY DEF IInv, Past, TypeOK
<1>6. CacheHonest'
  <2>1. \A i \in Id : ShardOf[i] \in Shard BY StoreAssumption
  <2>2. \A q \in Proc, i \in Id : label'[q][ShardOf[i]] # gen' BY <1>3, <1>4, <1>5, <2>1
  <2> QED BY <2>2 DEF CacheHonest, Hit
<1>7. call[p].ids \subseteq Id BY DEF TypeOK, Call
<1>8. CASE call[p].todo = {}
  <2>1. lock' = Nobody /\ Ack(call[p].lane, call[p].ids, call[p].body, call[p].image)
    BY <1>8 DEF Bump
  <2>2. call' = [call EXCEPT ![p] = Idle] BY <1>8 DEF Bump, Become
  <2>3. Idle.pin = 0 BY DEF Idle
  <2>4. \A q \in Proc : call'[q].pin <= gen'
    <3>1. ASSUME NEW q \in Proc PROVE call'[q].pin = 0 \/ call'[q].pin = call[q].pin
      BY <2>2, <2>3 DEF TypeOK
    <3>2. \A q \in Proc : call[q].pin \in Nat /\ call[q].pin <= gen
      BY DEF IInv, Past, TypeOK, Call
    <3> QED BY <1>3, <3>1, <3>2
  <2>5. Past' BY <1>3, <1>4, <1>5, <2>4 DEF Past
  <2>6. \A i \in call[p].ids : call[p].image[i] = ledger[i] BY <1>2, <1>8 DEF Planned
  <2>7. ASSUME NEW i \in Id, ShardOf[i] \in Graph PROVE acked'[i] \subseteq ledger[i]
    <3>1. acked[i] \subseteq ledger[i] BY <2>7 DEF IInv, AckedKept
    <3>2. CASE i \in call[p].ids
      <4>1. call[p].lane = "submit" BY <1>2, <2>7, <3>2 DEF Planned, Shards
      <4>2. acked[i] \cup call[p].body \subseteq call[p].image[i] BY <1>2, <3>2, <4>1 DEF Planned
      <4> QED BY <2>1, <2>6, <3>2, <4>1, <4>2 DEF Ack, Said
    <3>3. CASE i \notin call[p].ids BY <2>1, <3>1, <3>3 DEF Ack
    <3> QED BY <3>2, <3>3
  <2>8. ASSUME NEW i \in Id, ShardOf[i] \notin Graph PROVE ledger[i] = acked'[i]
    <3>1. CASE i \in call[p].ids
      <4>1. call[p].lane # "submit" BY <1>2, <2>8, <3>1 DEF Planned, Shards
      <4> QED BY <2>1, <2>6, <3>1, <4>1 DEF Ack, Said
    <3>2. CASE i \notin call[p].ids
      <4>1. ledger[i] = acked[i] BY <1>1, <2>8, <3>2 DEF IInv, AckedKept, InFlight
      <4> QED BY <2>1, <3>2, <4>1 DEF Ack
    <3> QED BY <3>1, <3>2
  <2>9. AckedKept' BY <1>4, <2>7, <2>8 DEF AckedKept
  <2>10. Plans' BY <1>1, <2>1 DEF Plans
  <2> QED BY <1>6, <2>5, <2>9, <2>10 DEF IInv
<1>9. CASE call[p].todo # {}
  <2> DEFINE y == [call[p] EXCEPT !.at = "write", !.dirty = {}]
  <2>1. /\ y.pin = call[p].pin /\ y.lane = call[p].lane /\ y.ids = call[p].ids
        /\ y.body = call[p].body /\ y.image = call[p].image /\ y.todo = call[p].todo
        /\ y.at = "write"
    BY DEF TypeOK, Call
  <2>2. call' = [call EXCEPT ![p] = y] /\ lock' = lock /\ acked' = acked
    BY <1>9 DEF Bump, Become
  <2> HIDE DEF y
  <2>3. call'[p] = y /\ \A q \in Proc : q # p => call'[q] = call[q] BY <2>2 DEF TypeOK
  <2>4. \A q \in Proc : call'[q].pin <= gen'
    <3>1. \A q \in Proc : call'[q].pin = call[q].pin BY <2>1, <2>3
    <3>2. \A q \in Proc : call[q].pin \in Nat /\ call[q].pin <= gen
      BY DEF IInv, Past, TypeOK, Call
    <3> QED BY <1>3, <3>1, <3>2
  <2>5. Past' BY <1>3, <1>4, <1>5, <2>4 DEF Past
  <2>6. AckedKept' BY <1>1, <1>4, <2>1, <2>2, <2>3 DEF IInv, AckedKept, InFlight
  <2>7. call[p].lane = "submit" BY <1>2, <1>9 DEF Planned, Bump
  <2>8. Planned(p)' BY <1>2, <1>4, <2>1, <2>2, <2>3, <2>7 DEF Planned
  <2>9. Plans' BY <1>1, <2>2, <2>8 DEF Plans
  <2> QED BY <1>6, <2>5, <2>6, <2>9 DEF IInv
<1> QED BY <1>8, <1>9

\* A process fails with its files bumped.
LEMMA FailInv ==
    ASSUME TypeOK, IInv, Torn = {}, NEW p \in Proc, Die(p) \/ Throw(p)
    PROVE  IInv'
<1>1. call[p].dirty = {} BY DEF Die, Throw, Covered
<1>2. call' = [call EXCEPT ![p] = Idle] BY DEF Die, Throw, Become
<1>3. /\ call'[p].pin = 0
      /\ \A q \in Proc : q # p => call'[q] = call[q]
  <2>1. Idle.pin = 0 BY DEF Idle
  <2> QED BY <1>2, <2>1 DEF TypeOK
<1>4. UNCHANGED <<ledger, gen, acked>> BY DEF Die, Throw, disk
<1>5. Dirty' = Dirty /\ AckedKept' /\ Plans'
  <2>1. CASE lock = p
    <3>1. lock' = Nobody BY <2>1 DEF Die, Throw, Freed
    <3> QED BY <1>1, <1>4, <2>1, <3>1, GivenUp
  <2>2. CASE lock # p
    <3>1. ~Throw(p) BY <2>2 DEF Throw, TypeOK, Holds
    <3>2. lock' = lock BY <2>2, <3>1 DEF Die, Freed
    <3> QED BY <1>3, <1>4, <2>2, <3>2, Aside
  <2> QED BY <2>1, <2>2
<1>6. \A q \in Proc : /\ label'[q] = label[q] /\ memo'[q] = memo[q]
                      \/ label'[q] = [s \in Shard |-> 0]
  BY DEF Die, Throw, memory, TypeOK
<1>7. gen \in Nat BY DEF TypeOK
<1>8. \A q \in Proc : \A s \in Shard : label'[q][s] <= gen BY <1>6, <1>7 DEF IInv, Past
<1>9. Past' BY <1>3, <1>4, <1>7, <1>8 DEF IInv, Past
<1>10. CacheHonest'
  <2>1. \A i \in Id : ShardOf[i] \in Shard BY StoreAssumption
  <2>2. ASSUME NEW q \in Proc, NEW i \in Id, Hit(q, ShardOf[i], gen)', ShardOf[i] \notin Dirty'
        PROVE  memo'[q][i] = ledger'[i]
    <3>1. label'[q] = label[q] /\ memo'[q] = memo[q] BY <1>6, <2>1, <2>2, <1>7, <1>4 DEF Hit
    <3>2. Hit(q, ShardOf[i], gen) BY <1>4, <2>2, <3>1 DEF Hit
    <3> QED BY <1>4, <1>5, <2>2, <3>1, <3>2 DEF IInv, CacheHonest
  <2> QED BY <2>2 DEF CacheHonest
<1> QED BY <1>5, <1>9, <1>10 DEF IInv

\* Every step keeps the invariant.
LEMMA InvStep == ASSUME Torn = {} PROVE TypeOK /\ IInv /\ [Next]_vars => IInv'
<1> SUFFICES ASSUME TypeOK, IInv, [Next]_vars PROVE IInv' OBVIOUS
<1>1. ASSUME UNCHANGED vars PROVE IInv'
  BY <1>1 DEF vars, disk, memory, IInv, Past, CacheHonest, Hit, Dirty, AckedKept, InFlight,
     Plans, Planned
<1>2. ASSUME Next PROVE IInv'
  <2>1. PICK p \in Proc : Reads(p) \/ Writes(p) \/ Die(p) \/ Throw(p) BY <1>2 DEF Next
  <2>2. ASSUME Reads(p) PROVE IInv' BY <2>2, PassInv, ReadInv DEF Reads
  <2>3. ASSUME Writes(p) PROVE IInv'
    BY <2>3, SkipInv, EnterInv, WriteInv, BumpInv DEF Writes
  <2>4. ASSUME Die(p) \/ Throw(p) PROVE IInv' BY <2>4, FailInv
  <2> QED BY <2>1, <2>2, <2>3, <2>4
<1> QED BY <1>1, <1>2

\* The invariant holds of every behaviour.
LEMMA InvAlways == ASSUME Torn = {} PROVE Spec => [](TypeOK /\ IInv)
BY TypeInit, InvInit, TypeStep, InvStep, PTL DEF Spec

-----------------------------------------------------------------------------
(* What follows. *)

\* What a process memoized and would serve is what is on disk, as long as no
\* call fails between a file and its bump.
THEOREM CacheIsHonest == ASSUME Torn = {} PROVE Spec => []CacheHonest
<1>1. IInv => CacheHonest BY DEF IInv
<1> QED BY <1>1, InvAlways, PTL

\* What completed calls said is on disk, under the same assumption.
THEOREM AckedIsKept == ASSUME Torn = {} PROVE Spec => []AckedKept
<1>1. IInv => AckedKept BY DEF IInv
<1> QED BY <1>1, InvAlways, PTL

\* A rewrite of a shard changes no entry but those of the call: no update is
\* lost to one that read before it.
THEOREM NoLostUpdate == ASSUME Torn = {} PROVE Spec => OnlyOwnEntries
<1> DEFINE Own == \A i \in Id : ledger'[i] # ledger[i] =>
                     \E p \in Proc : lock = p /\ i \in call[p].ids
<1>1. ASSUME TypeOK, IInv, Next PROVE Own
  <2>1. PICK p \in Proc : Reads(p) \/ Writes(p) \/ Die(p) \/ Throw(p) BY <1>1 DEF Next
  <2>2. CASE \E s \in Shard : Write(p, s)
    <3>1. PICK s \in Shard : Write(p, s) BY <2>2
    <3>2. lock = p /\ s \in call[p].todo BY <1>1, <3>1 DEF Write, TypeOK, Holds
    <3>3. Planned(p) BY <1>1, <3>2 DEF IInv, Plans
    <3>4. ASSUME NEW i \in Id, ledger'[i] # ledger[i] PROVE i \in call[p].ids
      <4>1. ShardOf[i] = s /\ ledger'[i] = call[p].image[i] BY <3>1, <3>4 DEF Write
      <4> QED BY <3>2, <3>3, <3>4, <4>1 DEF Planned
    <3> QED BY <3>2, <3>4
  <2>3. CASE ~\E s \in Shard : Write(p, s)
    <3>1. ledger' = ledger
      BY <2>1, <2>3 DEF Reads, Writes, StartPass, EndPass, ReadShard, Skip, Enter, Bump, Die,
         Throw, disk
    <3> QED BY <3>1
  <2> QED BY <2>2, <2>3
<1>2. TypeOK /\ IInv /\ [Next]_vars => [Own]_vars BY <1>1
<1> QED BY <1>2, InvAlways, PTL DEF Spec, OnlyOwnEntries

=============================================================================
