-------------------------- MODULE SyncEngineProofs --------------------------
(* Theorems about SyncEngine, for any devices, runners, commands and faults. *)
EXTENDS SyncEngine, TLAPS

\* The fields of a run.
LEMMA RunFields ==
    ASSUME NEW x \in Run
    PROVE  /\ x.at \in Phases /\ x.op \in Commands \cup {"idle"}
           /\ x.key \in Key /\ x.epoch \in Nat
           /\ {x.known, x.todo, x.done, x.rows, x.held} \subseteq SUBSET Entry
           /\ {x.unseen, x.opened} \subseteq SUBSET Batch
           /\ x.routes \subseteq Route
BY DEF Run

\* Idle is a run.
LEMMA IdleIsRun == Idle \in Run
<1>1. 1 \in Key
  BY SyncAssumption DEF Key
<1> QED
  BY <1>1 DEF Idle, Run, Phases

\* A command that has read its configuration is a run.
LEMMA LoadedIsRun ==
    ASSUME NEW k \in Key, NEW n \in Nat, NEW op \in Commands, NEW at \in Phases
    PROVE  [Idle EXCEPT !.at = at, !.op = op, !.key = k, !.epoch = n] \in Run
<1> DEFINE i == Idle
<1>1. i \in Run
  BY IdleIsRun
<1> HIDE DEF i
<1>2. [i EXCEPT !.at = at, !.op = op, !.key = k, !.epoch = n] \in Run
  BY <1>1 DEF Run
<1> QED
  BY <1>2 DEF i

\* Changing one field of a run leaves a run.
LEMMA RunUpdates ==
    ASSUME NEW x \in Run
    PROVE  /\ \A at \in Phases : [x EXCEPT !.at = at] \in Run
           /\ \A at \in Phases, todo, known \in SUBSET Entry :
                 [x EXCEPT !.at = at, !.todo = todo, !.known = known] \in Run
           /\ \A known \in SUBSET Entry : [x EXCEPT !.known = known] \in Run
           /\ \A todo, done \in SUBSET Entry :
                 [x EXCEPT !.todo = todo, !.done = done] \in Run
           /\ \A unseen \in SUBSET Batch : [x EXCEPT !.unseen = unseen] \in Run
           /\ \A routes \in SUBSET Route : [x EXCEPT !.routes = routes] \in Run
           /\ \A unseen, opened \in SUBSET Batch, routes \in SUBSET Route :
                 [x EXCEPT !.unseen = unseen, !.opened = opened, !.routes = routes] \in Run
           /\ \A routes \in SUBSET Route, done, held \in SUBSET Entry :
                 [x EXCEPT !.routes = routes, !.done = done, !.held = held] \in Run
           /\ \A routes \in SUBSET Route, done, rows \in SUBSET Entry :
                 [x EXCEPT !.routes = routes, !.done = done, !.rows = rows] \in Run
           /\ \A at \in Phases, todo \in SUBSET Entry : [x EXCEPT !.at = at, !.todo = todo] \in Run
           /\ \A at \in Phases, routes \in SUBSET Route, done, todo \in SUBSET Entry :
                 [x EXCEPT !.at = at, !.routes = routes, !.done = done, !.todo = todo] \in Run
           /\ \A at \in Phases, k \in Key, n \in Nat, todo, done \in SUBSET Entry :
                 [x EXCEPT !.at = at, !.key = k, !.epoch = n, !.todo = todo,
                           !.done = done] \in Run
<1>1. \A at \in Phases : [x EXCEPT !.at = at] \in Run
  BY DEF Run
<1>2. \A at \in Phases, todo, known \in SUBSET Entry :
        [x EXCEPT !.at = at, !.todo = todo, !.known = known] \in Run
  BY DEF Run
<1>3. \A known \in SUBSET Entry : [x EXCEPT !.known = known] \in Run
  BY DEF Run
<1>4. \A todo, done \in SUBSET Entry : [x EXCEPT !.todo = todo, !.done = done] \in Run
  BY DEF Run
<1>5. \A unseen \in SUBSET Batch : [x EXCEPT !.unseen = unseen] \in Run
  BY DEF Run
<1>6. \A routes \in SUBSET Route : [x EXCEPT !.routes = routes] \in Run
  BY DEF Run
<1>7. \A unseen, opened \in SUBSET Batch, routes \in SUBSET Route :
        [x EXCEPT !.unseen = unseen, !.opened = opened, !.routes = routes] \in Run
  BY DEF Run
<1>8. \A routes \in SUBSET Route, done, held \in SUBSET Entry :
        [x EXCEPT !.routes = routes, !.done = done, !.held = held] \in Run
  BY DEF Run
<1>9. \A routes \in SUBSET Route, done, rows \in SUBSET Entry :
        [x EXCEPT !.routes = routes, !.done = done, !.rows = rows] \in Run
  BY DEF Run
<1>10. \A at \in Phases, k \in Key, n \in Nat, todo, done \in SUBSET Entry :
         [x EXCEPT !.at = at, !.key = k, !.epoch = n, !.todo = todo, !.done = done] \in Run
  BY DEF Run
<1>11. \A at \in Phases, todo \in SUBSET Entry : [x EXCEPT !.at = at, !.todo = todo] \in Run
  BY DEF Run
<1>12. \A at \in Phases, routes \in SUBSET Route, done, todo \in SUBSET Entry :
         [x EXCEPT !.at = at, !.routes = routes, !.done = done, !.todo = todo] \in Run
  BY DEF Run
<1> QED
  BY <1>1, <1>2, <1>3, <1>4, <1>5, <1>6, <1>7, <1>8, <1>9, <1>10, <1>11, <1>12

\* What is on the disk of a runner's device is typed.
LEMMA HomeFields ==
    ASSUME TypeOK, NEW r \in Runner
    PROVE  /\ Home[r] \in Device
           /\ run[r] \in Run
           /\ key[Home[r]] \in Key
           /\ keyEpoch[Home[r]] \in Nat
           /\ {store[Home[r]], outbox[Home[r]], acked[Home[r]], flagged[Home[r]]}
                  \subseteq SUBSET Entry
           /\ pulled[Home[r]] \subseteq Batch
BY SyncAssumption DEF TypeOK

\* One runner moves to a typed run.
LEMMA RunType ==
    ASSUME TypeOK, NEW r \in Runner, NEW next \in Run, Become(r, next)
    PROVE  run' \in [Runner -> Run]
BY DEF TypeOK, Become

\* A command that starts is typed.
LEMMA LoadedType ==
    ASSUME TypeOK, NEW r \in Runner, NEW op \in Commands, NEW at \in Phases
    PROVE  Loaded(r, op, at) \in Run
BY HomeFields, LoadedIsRun DEF Loaded

\* The objects of a set of events under a key are a batch.
LEMMA RoutesType ==
    ASSUME NEW events \in SUBSET Entry, NEW k \in Key
    PROVE  /\ Routes(events, k) \in Batch
           /\ \A e \in Entry : RouteOf(e, k) \in Route
BY DEF Routes, RouteOf, Route, Batch

-----------------------------------------------------------------------------
(* Type correctness.  It needs that a rotation began below the last key.   *)

Below(x) ==
    \/ x.op = "rotate" /\ x.at \in {"sweep", "put", "batch", "ack"}
    \/ x.at = "roster"
    => x.key < MaxKey

BelowLast == \A r \in Runner : Below(run[r])

TypeInv == TypeOK /\ BelowLast

\* A fresh device is typed.
LEMMA TypeInit == Init => TypeInv
<1> SUFFICES ASSUME Init PROVE TypeInv
  OBVIOUS
<1>1. 1 \in Key
  BY SyncAssumption DEF Key
<1>2. run \in [Runner -> Run]
  BY IdleIsRun DEF Init
<1>3. TypeOK
  BY SyncAssumption, <1>1, <1>2 DEF Init, TypeOK
<1>4. \A r \in Runner : run[r].at = "idle" /\ run[r].op = "idle"
  BY DEF Init, Idle
<1> QED
  BY <1>3, <1>4 DEF TypeInv, BelowLast, Below

\* What the device does outside of a command.
LEMMA LiveType ==
    ASSUME TypeInv, NEW d \in Device, Live(d)
    PROVE  TypeInv'
<1> USE DEF TypeInv, TypeOK, remote
<1>1. run' = run
  BY DEF Live, Write, Rewrite, Upgrade, Compact, LoseOutbox
<1>2. BelowLast'
  BY <1>1 DEF BelowLast, Below
<1>3. ASSUME NEW e \in Entry, Write(d, e) PROVE TypeOK'
  BY <1>3 DEF Write
<1>4. ASSUME NEW e \in Entry, Rewrite(d, e) PROVE TypeOK'
  BY <1>4 DEF Rewrite, Versions
<1>5. ASSUME NEW e \in Entry, Upgrade(d, e) PROVE TypeOK'
  BY <1>5 DEF Upgrade
<1>6. CASE Compact(d)
  BY <1>2, <1>6 DEF Compact
<1>7. CASE LoseOutbox(d)
  BY <1>2, <1>7 DEF LoseOutbox
<1> QED
  BY <1>2, <1>3, <1>4, <1>5, <1>6, <1>7 DEF Live

\* What a runner turns to keeps the bound if its own key does.
LEMMA Becomes ==
    ASSUME TypeInv, NEW r \in Runner, NEW next \in Run, Become(r, next), Below(next)
    PROVE  run' \in [Runner -> Run] /\ BelowLast'
BY DEF TypeInv, TypeOK, BelowLast, Become

\* A command that ends keeps its epoch below the last key.
LEMMA Finishes ==
    ASSUME TypeInv, NEW r \in Runner, Finish(r)
    PROVE  run' \in [Runner -> Run] /\ BelowLast'
<1>1. Below(Idle)
  BY DEF Below, Idle
<1> QED
  BY <1>1, IdleIsRun, Becomes DEF Finish

\* Push keeps the types.
LEMMA PushType ==
    ASSUME TypeInv, NEW r \in Runner, Push(r)
    PROVE  TypeInv'
<1> DEFINE x == run[r]
<1> USE DEF TypeInv
<1>0. /\ x \in Run /\ Home[r] \in Device
      /\ x.at \in Phases /\ x.op \in Commands \cup {"idle"} /\ x.key \in Key
      /\ x.epoch \in Nat /\ x.todo \in SUBSET Entry /\ x.done \in SUBSET Entry
      /\ {} \in SUBSET Entry
  BY HomeFields, RunFields
<1>1. ASSUME NEW op \in {"push", "backfill"}, StartPush(r, op) PROVE TypeInv'
  <2> DEFINE l == Loaded(r, op, "sweep")
  <2>1. l \in Run /\ acked[Home[r]] \in SUBSET Entry
    BY LoadedType, HomeFields DEF Commands, Phases
  <2>2. [l EXCEPT !.known = acked[Home[r]]] \in Run
    BY <2>1, RunUpdates, <1>0
  <2>3. l.op = op /\ l.at = "sweep"
    BY DEF Loaded, Idle
  <2>4. Below([l EXCEPT !.known = acked[Home[r]]])
    <3> HIDE DEF l
    <3> QED
      BY <2>1, <2>3 DEF Run, Below
  <2>5. run' \in [Runner -> Run] /\ BelowLast'
    BY <1>1, <2>2, <2>4, Becomes DEF StartPush
  <2> QED
    BY <1>1, <2>5 DEF StartPush, TypeOK, device, remote
<1>2. ASSUME NEW plan \in SUBSET Pending(r), Sweep(r, plan) PROVE TypeInv'
  <2>1. plan \in SUBSET Entry /\ ToStage(Home[r], x.op) \subseteq Entry
    BY HomeFields DEF Pending, ToStage
  <2> DEFINE y == [x EXCEPT !.at = "put", !.todo = plan, !.known = {}]
  <2>2. y \in Run
    BY <2>1, <1>0, RunUpdates DEF Phases
  <2>3. Below(y)
    <3>1. x.at = "sweep" /\ Below(x)
      BY <1>2 DEF Sweep, BelowLast
    <3>2. y.op = x.op /\ y.key = x.key /\ y.at = "put"
      BY <1>0 DEF Run
    <3> QED
      BY <3>1, <3>2 DEF Below
  <2>4. run' \in [Runner -> Run] /\ BelowLast'
    BY <1>2, <2>2, <2>3, Becomes DEF Sweep
  <2> QED
    BY <1>2, <2>1, <2>4, <1>0 DEF Sweep, TypeOK, remote
<1>3. ASSUME NEW before \in SUBSET ToStage(Home[r], x.op), SweepAborts(r, before)
      PROVE  TypeInv'
  <2>1. before \in SUBSET Entry
    BY HomeFields DEF ToStage
  <2>2. run' \in [Runner -> Run] /\ BelowLast'
    BY <1>3, Finishes DEF SweepAborts
  <2> QED
    BY <1>3, <2>1, <2>2, <1>0 DEF SweepAborts, TypeOK, remote
<1>4. ASSUME NEW e \in x.todo, Put(r, e) PROVE TypeInv'
  <2> DEFINE y == [x EXCEPT !.todo = @ \ {e}, !.done = @ \cup {e}]
  <2>1. y \in Run
    BY <1>0, RunUpdates
  <2>2. y.op = x.op /\ y.key = x.key /\ y.at = x.at
    BY <1>0 DEF Run
  <2>3. Below(y)
    <3>1. x.at = "put" /\ Below(x)
      BY <1>4 DEF Put, BelowLast
    <3> HIDE DEF y
    <3> QED
      BY <2>2, <3>1 DEF Below
  <2>4. run' \in [Runner -> Run] /\ BelowLast'
    BY <1>4, <2>1, <2>3, Becomes DEF Put
  <2> QED
    BY <1>4, <2>4, <1>0, RoutesType DEF Put, TypeOK, device
<1>5. Stamped(r) \in [key : Key, epoch : Nat] \cup {NoManifest}
  BY <1>0 DEF Stamped, TypeOK
<1>6. ASSUME NEW e \in x.todo, PutAborts(r, e) PROVE TypeInv'
  <2>1. run' \in [Runner -> Run] /\ BelowLast'
    BY <1>6, Finishes DEF PutAborts
  <2> QED
    BY <1>5, <1>6, <2>1 DEF PutAborts, TypeOK, device
<1>7. ASSUME Stamp(r) PROVE TypeInv'
  <2> DEFINE a == IF x.done = {} THEN "ack" ELSE "batch"
             y == [x EXCEPT !.at = a]
  <2>1. y \in Run
    BY <1>0, RunUpdates DEF Phases
  <2>2. y.op = x.op /\ y.key = x.key /\ y.at = a
    BY <1>0 DEF Run
  <2>3. Below(y)
    <3>1. x.at = "put" /\ Below(x)
      BY <1>7 DEF Stamp, BelowLast
    <3> HIDE DEF y
    <3> QED
      BY <2>2, <3>1 DEF Below
  <2>4. run' \in [Runner -> Run] /\ BelowLast'
    BY <1>7, <2>1, <2>3, Becomes DEF Stamp
  <2> QED
    BY <1>5, <1>7, <2>4 DEF Stamp, TypeOK, device
<1>8. ASSUME PutBatch(r) PROVE TypeInv'
  <2> DEFINE y == [x EXCEPT !.at = "ack"]
  <2>1. y \in Run
    BY <1>0, RunUpdates DEF Phases
  <2>2. y.op = x.op /\ y.key = x.key /\ y.at = "ack"
    BY <1>0 DEF Run
  <2>3. Below(y)
    <3>1. x.at = "batch" /\ Below(x)
      BY <1>8 DEF PutBatch, BelowLast
    <3> HIDE DEF y
    <3> QED
      BY <2>2, <3>1 DEF Below
  <2>4. run' \in [Runner -> Run] /\ BelowLast'
    BY <1>8, <2>1, <2>3, Becomes DEF PutBatch
  <2> QED
    BY <1>0, <1>8, <2>4, RoutesType DEF PutBatch, TypeOK, device
<1>9. ASSUME Ack(r) PROVE TypeInv'
  <2> DEFINE y == [x EXCEPT !.at = "roster"]
  <2>1. y \in Run
    BY <1>0, RunUpdates DEF Phases
  <2>2. y.op = x.op /\ y.key = x.key /\ y.at = "roster"
    BY <1>0 DEF Run
  <2>3. x.op = "rotate" => Become(r, y) /\ Below(y)
    BY <1>9, <2>2 DEF Ack, BelowLast, Below
  <2>4. x.op # "rotate" => Finish(r)
    BY <1>9 DEF Ack
  <2>5. run' \in [Runner -> Run] /\ BelowLast'
    <3>1. CASE x.op = "rotate"
      BY <3>1, <2>1, <2>3, Becomes
    <3>2. CASE x.op # "rotate"
      BY <3>2, <2>4, Finishes
    <3> QED
      BY <3>1, <3>2
  <2> QED
    BY <1>0, <1>9, <2>5 DEF Ack, TypeOK, remote
<1> QED
  BY <1>1, <1>2, <1>3, <1>4, <1>6, <1>7, <1>8, <1>9 DEF Push

\* Pull keeps the types.
LEMMA PullType ==
    ASSUME TypeInv, NEW r \in Runner, Pull(r)
    PROVE  TypeInv'
<1> DEFINE x == run[r]
<1> USE DEF TypeInv
<1>0. /\ x \in Run /\ Home[r] \in Device /\ pulled[Home[r]] \subseteq Batch
      /\ x.unseen \in SUBSET Batch /\ x.opened \in SUBSET Batch
      /\ x.routes \in SUBSET Route /\ x.done \in SUBSET Entry
      /\ x.rows \in SUBSET Entry /\ x.held \in SUBSET Entry
  BY HomeFields, RunFields
<1>1. \A b \in x.unseen : b \in SUBSET Route
  BY <1>0 DEF Batch
<1>2. \A k \in x.routes : k.evt \in Entry
  BY <1>0 DEF Route
<1>3. \A k \in x.routes : k \in Route /\ x.done \cup {k.evt} \in SUBSET Entry
                        /\ x.rows \cup {k.evt} \in SUBSET Entry
                        /\ x.held \cup {k.evt} \in SUBSET Entry
                        /\ x.routes \ {k} \in SUBSET Route
  BY <1>0, <1>2
<1>4. ASSUME NEW op \in {"pull", "skip"}, StartPull(r, op) PROVE TypeInv'
  <2> DEFINE l == Loaded(r, op, "fetch")
             new == batches \ pulled[Home[r]]
  <2>1. l \in Run /\ new \in SUBSET Batch
    BY LoadedType, <1>0 DEF Commands, Phases, TypeOK
  <2>2. [l EXCEPT !.unseen = new] \in Run
    BY <2>1, RunUpdates
  <2>3. l.op = op /\ l.at = "fetch"
    BY DEF Loaded, Idle
  <2>4. Below([l EXCEPT !.unseen = new])
    <3> HIDE DEF l, new
    <3> QED
      BY <2>1, <2>3 DEF Run, Below
  <2>5. run' \in [Runner -> Run] /\ BelowLast'
    BY <1>4, <2>2, <2>4, Becomes DEF StartPull
  <2> QED
    BY <1>4, <2>5 DEF StartPull, TypeOK, device, remote
<1>5. ASSUME NEW b \in x.unseen, OpenBatch(r, b) PROVE TypeInv'
  <2> DEFINE y == [x EXCEPT !.unseen = @ \ {b}, !.opened = @ \cup {b}, !.routes = b]
  <2>1. y \in Run
    BY <1>0, <1>1, RunUpdates
  <2>2. Below(y)
    <3>1. x.at = "fetch"
      BY <1>5 DEF OpenBatch
    <3> QED
      BY <3>1, <1>0 DEF Run, Below
  <2>3. run' \in [Runner -> Run] /\ BelowLast'
    BY <1>5, <2>1, <2>2, Becomes DEF OpenBatch
  <2> QED
    BY <1>5, <2>3 DEF OpenBatch, TypeOK, device, remote
<1>6. ASSUME NEW b \in x.unseen, MissingBatch(r, b) PROVE TypeInv'
  <2> DEFINE y == [x EXCEPT !.unseen = @ \ {b}]
  <2>1. y \in Run
    BY <1>0, RunUpdates
  <2>2. Below(y)
    <3>1. x.at = "fetch"
      BY <1>6 DEF MissingBatch
    <3> QED
      BY <3>1, <1>0 DEF Run, Below
  <2>3. run' \in [Runner -> Run] /\ BelowLast'
    BY <1>6, <2>1, <2>2, Becomes DEF MissingBatch
  <2> QED
    BY <1>6, <2>3 DEF MissingBatch, TypeOK, device, remote
<1>7. ASSUME NEW k \in x.routes, Pass(r, k) PROVE TypeInv'
  <2> DEFINE y == [x EXCEPT !.routes = @ \ {k}]
  <2>1. y \in Run
    BY <1>0, <1>3, RunUpdates
  <2>2. Below(y)
    <3>1. x.at = "fetch"
      BY <1>7 DEF Pass, Fetching
    <3> QED
      BY <3>1, <1>0 DEF Run, Below
  <2>3. run' \in [Runner -> Run] /\ BelowLast'
    BY <1>7, <2>1, <2>2, Becomes DEF Pass
  <2> QED
    BY <1>7, <2>3 DEF Pass, TypeOK, device, remote
<1>8. ASSUME NEW k \in x.routes, Halt(r, k) PROVE TypeInv'
  <2>1. run' \in [Runner -> Run] /\ BelowLast'
    BY <1>8, Finishes DEF Halt
  <2> QED
    BY <1>8, <2>1 DEF Halt, TypeOK, device, remote
<1>9. ASSUME NEW k \in x.routes, Quarantine(r, k) PROVE TypeInv'
  <2> DEFINE y == [x EXCEPT !.routes = @ \ {k}, !.done = @ \cup {k.evt},
                         !.held = @ \cup {k.evt}]
  <2>1. y \in Run
    BY <1>0, <1>3, RunUpdates
  <2>2. Below(y)
    <3>1. x.at = "fetch"
      BY <1>9 DEF Quarantine, Readable, Fetching
    <3> QED
      BY <3>1, <1>0 DEF Run, Below
  <2>3. run' \in [Runner -> Run] /\ BelowLast'
    BY <1>9, <2>1, <2>2, Becomes DEF Quarantine
  <2> QED
    BY <1>9, <2>3 DEF Quarantine, TypeOK, device, remote
<1>10. ASSUME NEW k \in x.routes, Apply(r, k) PROVE TypeInv'
  <2>1. UNCHANGED <<device, remote>> /\ x.at = "fetch"
    BY <1>10 DEF Apply, Applicable, Readable, Fetching
  <2>2. CASE Become(r, Inserts(r, k))
    <3>1. Inserts(r, k) \in Run
      BY <1>0, <1>2, <1>3, RunUpdates DEF Inserts, Phases
    <3>2. Below(Inserts(r, k))
      BY <1>0 DEF Inserts, Run, Below
    <3>3. run' \in [Runner -> Run] /\ BelowLast'
      BY <2>2, <3>1, <3>2, Becomes
    <3> QED
      BY <2>1, <3>3 DEF TypeOK, device, remote
  <2>3. CASE Versions(Home[r], k.evt.id) # {}
    <3> DEFINE rows == IF Versions(Home[r], k.evt.id) = {k.evt}
                       THEN x.rows ELSE x.rows \cup {k.evt}
               y == [x EXCEPT !.routes = @ \ {k}, !.done = @ \cup {k.evt}, !.rows = rows]
    <3>1. y \in Run
      BY <1>0, <1>3, RunUpdates
    <3>2. Below(y)
      BY <2>1, <1>0 DEF Run, Below
    <3>3. Become(r, y)
      BY <1>10, <2>3 DEF Apply
    <3>4. run' \in [Runner -> Run] /\ BelowLast'
      BY <3>1, <3>2, <3>3, Becomes
    <3> QED
      BY <2>1, <3>4 DEF TypeOK, device, remote
  <2> QED
    BY <1>10, <2>2, <2>3 DEF Apply
<1>12. ASSUME NEW e \in x.todo, Upsert(r, e) PROVE TypeInv'
  <2> DEFINE y == [x EXCEPT !.at = "fetch", !.todo = {}]
  <2>1. y \in Run
    BY <1>0, RunUpdates DEF Phases
  <2>2. Below(y)
    BY <1>0 DEF Run, Below
  <2>3. run' \in [Runner -> Run] /\ BelowLast'
    BY <1>12, <2>1, <2>2, Becomes DEF Upsert
  <2>4. e \in Entry /\ Versions(Home[r], e.id) \subseteq Entry
    BY HomeFields, RunFields DEF Versions
  <2>5. {store', replaced'} \subseteq [Device -> SUBSET Entry]
    BY <1>0, <1>12, <2>4 DEF Upsert, TypeOK
  <2> QED
    BY <1>12, <2>3, <2>5 DEF Upsert, TypeOK, remote
<1>11. ASSUME SavePull(r) PROVE TypeInv'
  <2>1. run' \in [Runner -> Run] /\ BelowLast'
    BY <1>11, Finishes DEF SavePull
  <2> QED
    BY <1>0, <1>11, <2>1 DEF SavePull, TypeOK, remote
<1> QED
  BY <1>4, <1>5, <1>6, <1>7, <1>8, <1>9, <1>10, <1>11, <1>12 DEF Pull

\* Rotation keeps the types.
LEMMA RotateType ==
    ASSUME TypeInv, NEW r \in Runner, Rotate(r)
    PROVE  TypeInv'
<1> DEFINE x == run[r]
<1> USE DEF TypeInv
<1>0. /\ x \in Run /\ Home[r] \in Device /\ x.key \in Key /\ x.epoch \in Nat
      /\ x.todo \in SUBSET Entry /\ x.done \in SUBSET Entry
      /\ keyEpoch[Home[r]] \in Nat /\ acked[Home[r]] \in SUBSET Entry
      /\ outbox[Home[r]] \in SUBSET Entry /\ {} \in SUBSET Entry
  BY HomeFields, RunFields
<1>1. CASE StartRotate(r)
  <2> DEFINE l == Loaded(r, "rotate", "sweep")
             y == [l EXCEPT !.known = acked[Home[r]]]
  <2>1. l \in Run
    BY LoadedType DEF Commands, Phases
  <2>2. y \in Run
    BY <1>0, <2>1, RunUpdates
  <2>3. l.key = key[Home[r]]
    BY DEF Loaded, Idle
  <2>4. y.key = l.key
    <3> HIDE DEF l
    <3> QED
      BY <2>1 DEF Run
  <2>5. Below(y)
    <3>1. key[Home[r]] < MaxKey
      BY <1>1 DEF StartRotate
    <3> HIDE DEF y
    <3> QED
      BY <2>3, <2>4, <3>1 DEF Below
  <2>6. run' \in [Runner -> Run] /\ BelowLast'
    BY <1>1, <2>2, <2>5, Becomes DEF StartRotate
  <2> QED
    BY <1>1, <2>6 DEF StartRotate, TypeOK, device, remote
<1>2. CASE Roster(r)
  <2> DEFINE staged == outbox[Home[r]] \cap acked[Home[r]]
             y == [x EXCEPT !.at = "reput", !.key = @ + 1, !.epoch = keyEpoch[Home[r]],
                            !.todo = staged, !.done = {}]
  <2>1. x.key + 1 \in Key
    BY <1>0, <1>2, SyncAssumption DEF Roster, BelowLast, Below, Key
  <2>2. y \in Run
    <3>1. staged \in SUBSET Entry /\ "reput" \in Phases
      BY <1>0 DEF Phases
    <3> HIDE DEF staged
    <3> QED
      BY <1>0, <2>1, <3>1, RunUpdates
  <2>3. Below(y)
    <3>1. y.at = "reput"
      BY <1>0 DEF Run
    <3> QED
      BY <3>1 DEF Below
  <2>4. run' \in [Runner -> Run] /\ BelowLast'
    BY <1>2, <2>2, <2>3, Becomes DEF Roster
  <2> QED
    BY <1>2, <2>4 DEF Roster, TypeOK, device, remote
<1>3. ASSUME NEW e \in x.todo, Reput(r, e) PROVE TypeInv'
  <2> DEFINE y == [x EXCEPT !.todo = @ \ {e}, !.done = @ \cup {e}]
  <2>0. x.todo \ {e} \in SUBSET Entry /\ x.done \cup {e} \in SUBSET Entry
    BY <1>0
  <2>1. y \in Run
    BY <1>0, <2>0, RunUpdates
  <2>2. Below(y)
    <3>1. y.at = "reput"
      BY <1>3, <1>0 DEF Reput, Run
    <3> QED
      BY <3>1 DEF Below
  <2>3. run' \in [Runner -> Run] /\ BelowLast'
    BY <1>3, <2>1, <2>2, Becomes DEF Reput
  <2> QED
    BY <1>3, <1>0, <2>3, RoutesType DEF Reput, TypeOK, device, remote
<1>4. ASSUME Rebatch(r) PROVE TypeInv'
  <2> DEFINE y == [x EXCEPT !.at = "manifest"]
  <2>1. y \in Run
    BY <1>0, RunUpdates DEF Phases
  <2>2. Below(y)
    <3>1. y.at = "manifest"
      BY <1>4, <1>0 DEF Rebatch, Run
    <3> QED
      BY <3>1 DEF Below
  <2>3. run' \in [Runner -> Run] /\ BelowLast'
    BY <1>4, <2>1, <2>2, Becomes DEF Rebatch
  <2> QED
    BY <1>4, <1>0, <2>3, RoutesType DEF Rebatch, TypeOK, device, remote
<1>5. ASSUME PutManifest(r) PROVE TypeInv'
  <2> DEFINE y == [x EXCEPT !.at = "save"]
  <2>1. y \in Run
    BY <1>0, RunUpdates DEF Phases
  <2>2. Below(y)
    <3>1. y.at = "save"
      BY <1>5, <1>0 DEF PutManifest, Run
    <3> QED
      BY <3>1 DEF Below
  <2>3. run' \in [Runner -> Run] /\ BelowLast'
    BY <1>5, <2>1, <2>2, Becomes DEF PutManifest
  <2> QED
    BY <1>5, <1>0, <2>3 DEF PutManifest, TypeOK, device, remote
<1>6. ASSUME SaveEpoch(r) PROVE TypeInv'
  <2> DEFINE y == [x EXCEPT !.at = "config"]
  <2>1. y \in Run
    BY <1>0, RunUpdates DEF Phases
  <2>2. Below(y)
    <3>1. y.at = "config"
      BY <1>6, <1>0 DEF SaveEpoch, Run
    <3> QED
      BY <3>1 DEF Below
  <2>3. run' \in [Runner -> Run] /\ BelowLast'
    BY <1>6, <2>1, <2>2, Becomes DEF SaveEpoch
  <2> QED
    BY <1>6, <1>0, <2>3 DEF SaveEpoch, TypeOK, device, remote
<1>7. CASE WriteConfig(r)
  <2>1. run' \in [Runner -> Run] /\ BelowLast'
    BY <1>7, Finishes DEF WriteConfig
  <2> QED
    BY <1>0, <1>7, <2>1 DEF WriteConfig, TypeOK, remote
<1> QED
  BY <1>1, <1>2, <1>3, <1>4, <1>5, <1>6, <1>7 DEF Rotate

\* Purge keeps the types.
LEMMA PurgeType ==
    ASSUME TypeInv, NEW r \in Runner, Purge(r)
    PROVE  TypeInv'
<1> DEFINE x == run[r]
<1> USE DEF TypeInv
<1>0. x \in Run /\ x.routes \in SUBSET Route
  BY HomeFields, RunFields
<1>1. CASE StartPurge(r)
  <2> DEFINE l == Loaded(r, "purge", "delete")
             y == [l EXCEPT !.routes = blobs]
  <2>1. l \in Run
    BY LoadedType DEF Commands, Phases
  <2>2. y \in Run
    BY <2>1, RunUpdates DEF TypeOK
  <2>3. l.at = "delete"
    BY DEF Loaded, Idle
  <2>4. Below(y)
    <3> HIDE DEF l
    <3>1. y.at = l.at
      BY <2>1 DEF Run
    <3> QED
      BY <2>3, <3>1 DEF Below
  <2>5. run' \in [Runner -> Run] /\ BelowLast'
    BY <1>1, <2>2, <2>4, Becomes DEF StartPurge
  <2> QED
    BY <1>1, <2>5 DEF StartPurge, TypeOK, device, remote
<1>2. ASSUME NEW k \in x.routes, DeleteStale(r, k) PROVE TypeInv'
  <2> DEFINE y == [x EXCEPT !.routes = @ \ {k}]
  <2>1. y \in Run
    BY <1>0, RunUpdates DEF Phases
  <2>2. Below(y)
    <3>1. y.at = "delete"
      BY <1>2, <1>0 DEF DeleteStale, Run
    <3> QED
      BY <3>1 DEF Below
  <2>3. run' \in [Runner -> Run] /\ BelowLast'
    BY <1>2, <2>1, <2>2, Becomes DEF DeleteStale
  <2> QED
    BY <1>2, <1>0, <2>3 DEF DeleteStale, TypeOK, device, remote
<1>3. CASE EndPurge(r)
  <2>1. run' \in [Runner -> Run] /\ BelowLast'
    BY <1>3, Finishes DEF EndPurge
  <2> QED
    BY <1>3, <2>1 DEF EndPurge, TypeOK, device, remote
<1> QED
  BY <1>1, <1>2, <1>3 DEF Purge

\* A crash keeps the types.
LEMMA CrashType ==
    ASSUME TypeInv, NEW r \in Runner, NEW some \in SUBSET Entry, Crash(r, some)
    PROVE  TypeInv'
<1>1. run' \in [Runner -> Run] /\ BelowLast'
  BY Finishes DEF Crash
<1> QED
  BY <1>1, HomeFields DEF Crash, TypeInv, TypeOK, remote

\* Every step keeps the types.
LEMMA TypeStep == TypeInv /\ [Next]_vars => TypeInv'
<1> SUFFICES ASSUME TypeInv, [Next]_vars PROVE TypeInv'
  OBVIOUS
<1>1. CASE UNCHANGED vars
  BY <1>1 DEF TypeInv, TypeOK, BelowLast, vars, device, remote
<1>2. CASE Next
  BY <1>2, LiveType, PushType, PullType, RotateType, PurgeType, CrashType DEF Next
<1> QED
  BY <1>1, <1>2

\* TypeInv in every reachable state: the types, and that no run uses a key
\* epoch beyond the last one created.
THEOREM TypeAlways == Spec => []TypeInv
BY TypeInit, TypeStep, PTL DEF Spec

\* Every variable keeps its type (TypeOK), whatever the commands and the
\* faults: what is on disk and on the remote are entries, keys and batches.
THEOREM TypeCorrect == Spec => []TypeOK
<1>1. TypeInv => TypeOK
  BY DEF TypeInv
<1> QED
  BY <1>1, TypeAlways, PTL

-----------------------------------------------------------------------------
(* The ledgers. *)

Grows ==
    \A d \in Device :
        /\ acked[d] \subseteq acked'[d]
        /\ pulled[d] \subseteq pulled'[d]
        /\ conflicts[d] \subseteq conflicts'[d]
        /\ quarantine[d] \subseteq quarantine'[d]

\* No step takes anything off a device's ledgers.
LEMMA GrowStep == TypeOK /\ Next => Grows
<1> SUFFICES ASSUME TypeOK, Next PROVE Grows
  OBVIOUS
<1> USE DEF Grows, TypeOK
<1>1. ASSUME NEW d \in Device, Live(d) PROVE Grows
  BY <1>1 DEF Live, Write, Rewrite, Upgrade, Compact, LoseOutbox
<1>2. ASSUME NEW r \in Runner, Push(r) PROVE Grows
  BY <1>2 DEF Push, StartPush, Sweep, SweepAborts, Put, PutAborts, Stamp, PutBatch, Ack, device
<1>3. ASSUME NEW r \in Runner, Pull(r) PROVE Grows
  <2>1. CASE SavePull(r)
    BY <2>1 DEF SavePull
  <2>2. CASE ~SavePull(r)
    BY <1>3, <2>2 DEF Pull, StartPull, OpenBatch, MissingBatch, Pass, Halt, Quarantine, Apply,
                      Upsert, device
  <2> QED
    BY <2>1, <2>2
<1>4. ASSUME NEW r \in Runner, Rotate(r) PROVE Grows
  BY <1>4 DEF Rotate, StartRotate, Roster, Reput, Rebatch, PutManifest, SaveEpoch, WriteConfig,
              device
<1>5. ASSUME NEW r \in Runner, Purge(r) PROVE Grows
  BY <1>5 DEF Purge, StartPurge, DeleteStale, EndPurge, device
<1>6. ASSUME NEW r \in Runner, NEW some \in SUBSET Entry, Crash(r, some) PROVE Grows
  BY <1>6 DEF Crash
<1> QED
  BY <1>1, <1>2, <1>3, <1>4, <1>5, <1>6 DEF Next

\* Two commands on one device never lose each other's acks, cursor, conflict
\* or quarantine rows (LedgersGrow), in any interleaving and with crashes.
THEOREM LedgersOnlyGrow == Spec => LedgersGrow
<1>1. TypeOK /\ [Next]_vars => [Grows]_vars
  BY GrowStep
<1> QED
  BY <1>1, TypeCorrect, PTL DEF Spec, LedgersGrow, Grows

-----------------------------------------------------------------------------
(***************************************************************************)
(* Durability, while nobody purges.  An ack is kept honest by what the run *)
(* that writes it did before: the objects, then the batch that lists them. *)
(***************************************************************************)
NoPurge == "purge" \notin Ops

Promise(x, objects, listed) ==
    /\ x.at = "sweep" => x.done = {}
    /\ x.at \in {"put", "batch", "ack"} => Routes(x.done, x.key) \subseteq objects
    /\ x.at = "ack" /\ x.done # {} => Routes(x.done, x.key) \in listed
    /\ x.at = "reput" => Routes(x.done, x.key) \subseteq objects
    /\ x.at # "delete"

\* Every batch lists objects that are there.
Backed == \A b \in batches : b \subseteq blobs

DurableInv ==
    /\ \A r \in Runner : Promise(run[r], blobs, batches)
    /\ Backed
    /\ AckedIsDurable

RemoteGrows == blobs \subseteq blobs' /\ batches \subseteq batches'

\* One runner moves, the others keep their promise as the remote grows.
LEMMA PromiseStep ==
    ASSUME TypeOK, \A r \in Runner : Promise(run[r], blobs, batches), RemoteGrows,
           NEW r \in Runner, NEW next, Become(r, next), Promise(next, blobs', batches')
    PROVE  \A s \in Runner : Promise(run'[s], blobs', batches')
BY DEF TypeOK, Become, RemoteGrows, Promise

\* An idle runner promises nothing.
LEMMA IdlePromise ==
    ASSUME NEW objects, NEW listed
    PROVE  Promise(Idle, objects, listed)
BY DEF Promise, Idle

\* A device acks what is durable.
LEMMA DurableStep ==
    ASSUME AckedIsDurable, RemoteGrows,
           NEW d \in Device, NEW more, acked' = [acked EXCEPT ![d] = @ \cup more],
           TypeOK, \A e \in more : Durable(e)
    PROVE  AckedIsDurable'
BY DEF AckedIsDurable, Durable, RemoteGrows, TypeOK

\* What is durable stays so while the remote grows.
LEMMA DurableKept ==
    ASSUME AckedIsDurable, RemoteGrows, UNCHANGED acked
    PROVE  AckedIsDurable'
BY DEF AckedIsDurable, Durable, RemoteGrows

\* The step only moves a run, and leaves the remote and the acks.
LEMMA QuietStep ==
    ASSUME TypeOK, DurableInv, NEW r \in Runner, NEW next, Become(r, next),
           Promise(next, blobs, batches), UNCHANGED <<acked, blobs, batches>>
    PROVE  DurableInv'
<1>1. RemoteGrows
  BY DEF RemoteGrows
<1>2. Promise(next, blobs', batches')
  OBVIOUS
<1>3. \A s \in Runner : Promise(run'[s], blobs', batches')
  BY <1>1, <1>2, PromiseStep DEF DurableInv
<1>4. AckedIsDurable'
  BY <1>1, DurableKept DEF DurableInv
<1>5. Backed'
  BY DEF Backed, DurableInv
<1> QED
  BY <1>3, <1>4, <1>5 DEF DurableInv

\* Nothing is acked at the start.
LEMMA DurableInit == Init => DurableInv
<1> SUFFICES ASSUME Init PROVE DurableInv
  OBVIOUS
<1>1. \A r \in Runner : Promise(run[r], blobs, batches)
  BY IdlePromise DEF Init
<1>2. Backed /\ AckedIsDurable
  BY DEF Init, Backed, AckedIsDurable
<1> QED
  BY <1>1, <1>2 DEF DurableInv

\* Push preserves DurableInv: objects, batch, acks, in that order.
LEMMA PushDurable ==
    ASSUME TypeOK, DurableInv, NEW r \in Runner, Push(r)
    PROVE  DurableInv'
<1> DEFINE x == run[r]
<1>0. /\ x \in Run /\ Home[r] \in Device /\ x.key \in Key
      /\ x.todo \in SUBSET Entry /\ x.done \in SUBSET Entry /\ {} \in SUBSET Entry
      /\ Promise(x, blobs, batches)
  BY HomeFields, RunFields DEF DurableInv
<1>1. ASSUME NEW op \in {"push", "backfill"}, StartPush(r, op) PROVE DurableInv'
  <2> DEFINE l == Loaded(r, op, "sweep")
             y == [l EXCEPT !.known = acked[Home[r]]]
  <2>0. l \in Run
    BY LoadedType DEF Commands, Phases
  <2>1. l.at = "sweep" /\ l.done = {}
    BY DEF Loaded, Idle
  <2>2. Promise(y, blobs, batches)
    <3> HIDE DEF l
    <3>1. y.at = "sweep" /\ y.done = {}
      BY <2>0, <2>1 DEF Run
    <3> QED
      BY <3>1 DEF Promise
  <2> QED
    BY <1>1, <2>2, QuietStep DEF StartPush, device, remote
<1>2. ASSUME NEW plan \in SUBSET Pending(r), Sweep(r, plan) PROVE DurableInv'
  <2> DEFINE y == [x EXCEPT !.at = "put", !.todo = plan, !.known = {}]
  <2>1. y.at = "put" /\ y.done = {}
    BY <1>0, <1>2 DEF Sweep, Promise, Run
  <2>2. Promise(y, blobs, batches)
    BY <2>1 DEF Promise, Routes
  <2> QED
    BY <1>2, <2>2, QuietStep DEF Sweep, remote
<1>3. ASSUME NEW before \in SUBSET ToStage(Home[r], x.op), SweepAborts(r, before)
      PROVE  DurableInv'
  BY <1>3, IdlePromise, QuietStep DEF SweepAborts, Finish, remote
<1>4. ASSUME NEW e \in x.todo, Put(r, e) PROVE DurableInv'
  <2> DEFINE y == [x EXCEPT !.todo = @ \ {e}, !.done = @ \cup {e}]
  <2>0. x.at = "put"
    BY <1>4 DEF Put
  <2>1. y.at = "put" /\ y.done = x.done \cup {e} /\ y.key = x.key
    BY <1>0, <2>0 DEF Run
  <2>2. RemoteGrows
    BY <1>4 DEF Put, RemoteGrows
  <2>3. Promise(y, blobs', batches')
    <3>1. Routes(x.done, x.key) \subseteq blobs
      BY <1>0, <1>4 DEF Put, Promise
    <3>2. blobs' = blobs \cup {RouteOf(e, x.key)}
      BY <1>4 DEF Put
    <3> HIDE DEF y
    <3> QED
      BY <2>1, <3>1, <3>2 DEF Promise, Routes
  <2>4. \A s \in Runner : Promise(run'[s], blobs', batches')
    BY <1>4, <2>2, <2>3, PromiseStep DEF Put, DurableInv
  <2>5. AckedIsDurable'
    BY <1>4, <2>2, DurableKept DEF Put, device, DurableInv
  <2>6. Backed'
    BY <1>4, <2>2 DEF Put, Backed, DurableInv, RemoteGrows
  <2> QED
    BY <2>4, <2>5, <2>6 DEF DurableInv
<1>5. ASSUME NEW e \in x.todo, PutAborts(r, e) PROVE DurableInv'
  BY <1>5, IdlePromise, QuietStep DEF PutAborts, Finish, device
<1>6. CASE Stamp(r)
  <2> DEFINE y == [x EXCEPT !.at = IF x.done = {} THEN "ack" ELSE "batch"]
  <2>1. y.at = (IF x.done = {} THEN "ack" ELSE "batch") /\ y.done = x.done /\ y.key = x.key
    BY <1>0 DEF Run
  <2>2. Promise(y, blobs, batches)
    <3>1. Routes(x.done, x.key) \subseteq blobs
      BY <1>0, <1>6 DEF Stamp, Promise
    <3> HIDE DEF y
    <3> QED
      BY <2>1, <3>1 DEF Promise
  <2> QED
    BY <1>6, <2>2, QuietStep DEF Stamp, device
<1>7. CASE PutBatch(r)
  <2> DEFINE y == [x EXCEPT !.at = "ack"]
  <2>1. y.at = "ack" /\ y.done = x.done /\ y.key = x.key
    BY <1>0 DEF Run
  <2>2. RemoteGrows
    BY <1>7 DEF PutBatch, RemoteGrows
  <2>3. Routes(x.done, x.key) \subseteq blobs
    BY <1>0, <1>7 DEF PutBatch, Promise
  <2>4. Promise(y, blobs', batches')
    <3>1. batches' = batches \cup {Routes(x.done, x.key)} /\ blobs' = blobs
      BY <1>7 DEF PutBatch
    <3> HIDE DEF y
    <3> QED
      BY <2>1, <2>3, <3>1 DEF Promise
  <2>5. \A s \in Runner : Promise(run'[s], blobs', batches')
    BY <1>7, <2>2, <2>4, PromiseStep DEF PutBatch, DurableInv
  <2>6. AckedIsDurable'
    BY <1>7, <2>2, DurableKept DEF PutBatch, device, DurableInv
  <2>7. Backed'
    BY <1>7, <2>3 DEF PutBatch, Backed, DurableInv
  <2> QED
    BY <2>5, <2>6, <2>7 DEF DurableInv
<1>8. CASE Ack(r)
  <2>1. RemoteGrows
    BY <1>8 DEF Ack, remote, RemoteGrows
  <2>2. \A e \in x.done : Durable(e)
    <3> SUFFICES ASSUME NEW e \in x.done PROVE Durable(e)
      OBVIOUS
    <3>1. Routes(x.done, x.key) \in batches /\ Routes(x.done, x.key) \subseteq blobs
      BY <1>0, <1>8 DEF Ack, Promise
    <3>2. RouteOf(e, x.key) \in Routes(x.done, x.key) /\ RouteOf(e, x.key).evt = e
      BY DEF Routes, RouteOf
    <3> QED
      BY <3>1, <3>2 DEF Durable
  <2>3. AckedIsDurable'
    BY <1>0, <1>8, <2>1, <2>2, DurableStep DEF Ack, DurableInv
  <2>4. \A s \in Runner : Promise(run'[s], blobs', batches')
    <3> DEFINE y == [x EXCEPT !.at = "roster"]
    <3>1. CASE x.op = "rotate"
      <4>1. y.at = "roster"
        BY <1>0 DEF Run
      <4>2. Promise(y, blobs', batches')
        <5> HIDE DEF y
        <5> QED
          BY <4>1 DEF Promise
      <4> QED
        BY <1>8, <2>1, <3>1, <4>2, PromiseStep DEF Ack, DurableInv
    <3>2. CASE x.op # "rotate"
      BY <1>8, <2>1, <3>2, IdlePromise, PromiseStep DEF Ack, DurableInv, Finish
    <3> QED
      BY <3>1, <3>2
  <2>5. Backed'
    BY <1>8 DEF Ack, remote, Backed, DurableInv
  <2> QED
    BY <2>3, <2>4, <2>5 DEF DurableInv
<1> QED
  BY <1>1, <1>2, <1>3, <1>4, <1>5, <1>6, <1>7, <1>8 DEF Push

\* Where the run goes it promises nothing of the remote.
LEMMA IdleStep ==
    ASSUME TypeOK, DurableInv, NEW r \in Runner, NEW next, Become(r, next),
           next.at \in {"idle", "fetch", "upsert", "roster", "manifest", "save", "config"},
           UNCHANGED <<acked, blobs, batches>>
    PROVE  DurableInv'
BY QuietStep DEF Promise

\* A command that ends.
LEMMA EndStep ==
    ASSUME TypeOK, DurableInv, NEW r \in Runner, Finish(r),
           UNCHANGED <<acked, blobs, batches>>
    PROVE  DurableInv'
BY QuietStep, IdlePromise DEF Finish

\* Pull preserves DurableInv.
LEMMA PullDurable ==
    ASSUME TypeOK, DurableInv, NEW r \in Runner, Pull(r)
    PROVE  DurableInv'
<1> DEFINE x == run[r]
<1>0. x \in Run
  BY HomeFields
<1>1. ASSUME NEW op \in {"pull", "skip"}, StartPull(r, op) PROVE DurableInv'
  <2> DEFINE l == Loaded(r, op, "fetch")
             y == [l EXCEPT !.unseen = batches \ pulled[Home[r]]]
  <2>1. l \in Run
    BY LoadedType DEF Commands, Phases
  <2>2. l.at = "fetch"
    BY DEF Loaded, Idle
  <2>3. y.at = "fetch"
    <3> HIDE DEF l
    <3> QED
      BY <2>1, <2>2 DEF Run
  <2>4. Become(r, y)
    BY <1>1 DEF StartPull
  <2> HIDE DEF y
  <2> QED
    BY <1>1, <2>3, <2>4, IdleStep DEF StartPull, device, remote
<1>2. ASSUME NEW b \in x.unseen, OpenBatch(r, b) PROVE DurableInv'
  <2> DEFINE y == [x EXCEPT !.unseen = @ \ {b}, !.opened = @ \cup {b}, !.routes = b]
  <2>1. y.at = "fetch"
    BY <1>0, <1>2 DEF OpenBatch, Run
  <2>2. Become(r, y)
    BY <1>2 DEF OpenBatch
  <2> HIDE DEF y
  <2> QED
    BY <1>2, <2>1, <2>2, IdleStep DEF OpenBatch, device, remote
<1>3. ASSUME NEW b \in x.unseen, MissingBatch(r, b) PROVE DurableInv'
  <2> DEFINE y == [x EXCEPT !.unseen = @ \ {b}]
  <2>1. y.at = "fetch"
    BY <1>0, <1>3 DEF MissingBatch, Run
  <2>2. Become(r, y)
    BY <1>3 DEF MissingBatch
  <2> HIDE DEF y
  <2> QED
    BY <1>3, <2>1, <2>2, IdleStep DEF MissingBatch, device, remote
<1>4. ASSUME NEW k \in x.routes, Pass(r, k) PROVE DurableInv'
  <2> DEFINE y == [x EXCEPT !.routes = @ \ {k}]
  <2>1. y.at = "fetch"
    BY <1>0, <1>4 DEF Pass, Fetching, Run
  <2>2. Become(r, y)
    BY <1>4 DEF Pass
  <2> HIDE DEF y
  <2> QED
    BY <1>4, <2>1, <2>2, IdleStep DEF Pass, device, remote
<1>5. ASSUME NEW k \in x.routes, Halt(r, k) PROVE DurableInv'
  BY <1>5, EndStep DEF Halt, device, remote
<1>6. ASSUME NEW k \in x.routes, Quarantine(r, k) PROVE DurableInv'
  <2> DEFINE y == [x EXCEPT !.routes = @ \ {k}, !.done = @ \cup {k.evt},
                         !.held = @ \cup {k.evt}]
  <2>1. y.at = "fetch"
    BY <1>0, <1>6 DEF Quarantine, Readable, Fetching, Run
  <2>2. Become(r, y)
    BY <1>6 DEF Quarantine
  <2> HIDE DEF y
  <2> QED
    BY <1>6, <2>1, <2>2, IdleStep DEF Quarantine, device, remote
<1>7. ASSUME NEW k \in x.routes, Apply(r, k) PROVE DurableInv'
  <2> DEFINE y == [x EXCEPT !.routes = @ \ {k}, !.done = @ \cup {k.evt},
                         !.rows = IF Versions(Home[r], k.evt.id) = {k.evt}
                                  THEN @ ELSE @ \cup {k.evt}]
  <2>1. y.at = "fetch" /\ Inserts(r, k).at = "upsert"
    BY <1>0, <1>7 DEF Apply, Applicable, Readable, Fetching, Inserts, Run
  <2>2. Become(r, y) \/ Become(r, Inserts(r, k))
    BY <1>7 DEF Apply
  <2> HIDE DEF y
  <2> QED
    BY <1>7, <2>1, <2>2, IdleStep DEF Apply, device, remote
<1>9. ASSUME NEW e \in x.todo, Upsert(r, e) PROVE DurableInv'
  <2> DEFINE y == [x EXCEPT !.at = "fetch", !.todo = {}]
  <2>1. y.at = "fetch"
    BY <1>0 DEF Run
  <2>2. Become(r, y)
    BY <1>9 DEF Upsert
  <2> HIDE DEF y
  <2> QED
    BY <1>9, <2>1, <2>2, IdleStep DEF Upsert, remote
<1>8. CASE SavePull(r)
  BY <1>8, EndStep DEF SavePull, remote
<1> QED
  BY <1>1, <1>2, <1>3, <1>4, <1>5, <1>6, <1>7, <1>8, <1>9 DEF Pull

\* Rotation preserves DurableInv: it re-uploads before it switches.
LEMMA RotateDurable ==
    ASSUME TypeInv, DurableInv, NEW r \in Runner, Rotate(r)
    PROVE  DurableInv'
<1> DEFINE x == run[r]
<1> USE DEF TypeInv
<1>0. /\ x \in Run /\ Home[r] \in Device /\ x.key \in Key
      /\ x.todo \in SUBSET Entry /\ x.done \in SUBSET Entry
      /\ Promise(x, blobs, batches)
  BY HomeFields, RunFields DEF DurableInv
<1>1. CASE StartRotate(r)
  <2> DEFINE l == Loaded(r, "rotate", "sweep")
             y == [l EXCEPT !.known = acked[Home[r]]]
  <2>1. l \in Run
    BY LoadedType DEF Commands, Phases
  <2>2. l.at = "sweep" /\ l.done = {}
    BY DEF Loaded, Idle
  <2>3. Promise(y, blobs, batches)
    <3> HIDE DEF l
    <3>1. y.at = "sweep" /\ y.done = {}
      BY <2>1, <2>2 DEF Run
    <3> QED
      BY <3>1 DEF Promise
  <2> QED
    BY <1>1, <2>3, QuietStep DEF StartRotate, device, remote
<1>2. CASE Roster(r)
  <2> DEFINE y == [x EXCEPT !.at = "reput", !.key = @ + 1, !.epoch = keyEpoch[Home[r]],
                            !.todo = outbox[Home[r]] \cap acked[Home[r]], !.done = {}]
  <2>1. y.at = "reput" /\ y.done = {}
    BY <1>0 DEF Run
  <2>2. Promise(y, blobs, batches)
    BY <2>1 DEF Promise, Routes
  <2> QED
    BY <1>2, <2>2, QuietStep DEF Roster, device, remote
<1>3. ASSUME NEW e \in x.todo, Reput(r, e) PROVE DurableInv'
  <2> DEFINE y == [x EXCEPT !.todo = @ \ {e}, !.done = @ \cup {e}]
  <2>0. x.at = "reput"
    BY <1>3 DEF Reput
  <2>1. y.at = "reput" /\ y.done = x.done \cup {e} /\ y.key = x.key
    BY <1>0, <2>0 DEF Run
  <2>2. RemoteGrows
    BY <1>3 DEF Reput, RemoteGrows
  <2>3. Promise(y, blobs', batches')
    <3>1. Routes(x.done, x.key) \subseteq blobs
      BY <1>0, <2>0 DEF Promise
    <3>2. blobs' = blobs \cup {RouteOf(e, x.key)}
      BY <1>3 DEF Reput
    <3> HIDE DEF y
    <3> QED
      BY <2>1, <3>1, <3>2 DEF Promise, Routes
  <2>4. \A s \in Runner : Promise(run'[s], blobs', batches')
    BY <1>3, <2>2, <2>3, PromiseStep DEF Reput, DurableInv
  <2>5. AckedIsDurable'
    BY <1>3, <2>2, DurableKept DEF Reput, device, DurableInv
  <2>6. Backed'
    BY <1>3, <2>2 DEF Reput, Backed, DurableInv, RemoteGrows
  <2> QED
    BY <2>4, <2>5, <2>6 DEF DurableInv
<1>4. CASE Rebatch(r)
  <2> DEFINE y == [x EXCEPT !.at = "manifest"]
  <2>1. y.at = "manifest"
    BY <1>0 DEF Run
  <2>2. RemoteGrows
    BY <1>4 DEF Rebatch, RemoteGrows
  <2>3. Promise(y, blobs', batches')
    <3> HIDE DEF y
    <3> QED
      BY <2>1 DEF Promise
  <2>4. \A s \in Runner : Promise(run'[s], blobs', batches')
    BY <1>4, <2>2, <2>3, PromiseStep DEF Rebatch, DurableInv
  <2>5. AckedIsDurable'
    BY <1>4, <2>2, DurableKept DEF Rebatch, device, DurableInv
  <2>6. Routes(x.done, x.key) \subseteq blobs
    BY <1>0, <1>4 DEF Rebatch, Promise
  <2>7. Backed'
    BY <1>4, <2>6 DEF Rebatch, Backed, DurableInv
  <2> QED
    BY <2>4, <2>5, <2>7 DEF DurableInv
<1>5. CASE PutManifest(r)
  <2> DEFINE y == [x EXCEPT !.at = "save"]
  <2>1. y.at = "save" /\ Become(r, y)
    BY <1>0, <1>5 DEF PutManifest, Run
  <2> HIDE DEF y
  <2> QED
    BY <1>5, <2>1, IdleStep DEF PutManifest, device
<1>6. CASE SaveEpoch(r)
  <2> DEFINE y == [x EXCEPT !.at = "config"]
  <2>1. y.at = "config" /\ Become(r, y)
    BY <1>0, <1>6 DEF SaveEpoch, Run
  <2> HIDE DEF y
  <2> QED
    BY <1>6, <2>1, IdleStep DEF SaveEpoch, remote
<1>7. CASE WriteConfig(r)
  BY <1>7, EndStep DEF WriteConfig, remote
<1> QED
  BY <1>1, <1>2, <1>3, <1>4, <1>5, <1>6, <1>7 DEF Rotate

\* A crash preserves DurableInv.
LEMMA CrashDurable ==
    ASSUME TypeOK, DurableInv, NEW r \in Runner, NEW some \in SUBSET Entry, Crash(r, some)
    PROVE  DurableInv'
<1> DEFINE x == run[r]
<1>1. x \in Run /\ Home[r] \in Device /\ x.done \in SUBSET Entry /\ Promise(x, blobs, batches)
  BY HomeFields, RunFields DEF DurableInv
<1>2. RemoteGrows
  BY DEF Crash, remote, RemoteGrows
<1>3. \A e \in some : Durable(e)
  <2> SUFFICES ASSUME NEW e \in some PROVE Durable(e)
    OBVIOUS
  <2>1. x.at = "ack" /\ e \in x.done
    BY DEF Crash
  <2>2. Routes(x.done, x.key) \in batches /\ Routes(x.done, x.key) \subseteq blobs
    BY <1>1, <2>1 DEF Promise
  <2>3. RouteOf(e, x.key) \in Routes(x.done, x.key) /\ RouteOf(e, x.key).evt = e
    BY <2>1 DEF Routes, RouteOf
  <2> QED
    BY <2>2, <2>3 DEF Durable
<1>4. AckedIsDurable'
  BY <1>1, <1>2, <1>3, DurableStep DEF Crash, DurableInv
<1>5. \A s \in Runner : Promise(run'[s], blobs', batches')
  BY <1>2, IdlePromise, PromiseStep DEF Crash, DurableInv, Finish
<1>6. Backed'
  BY DEF Crash, remote, Backed, DurableInv
<1> QED
  BY <1>4, <1>5, <1>6 DEF DurableInv

\* What a device records of its own preserves DurableInv.
LEMMA LiveDurable ==
    ASSUME TypeOK, DurableInv, NEW d \in Device, Live(d)
    PROVE  DurableInv'
<1>1. UNCHANGED <<run, acked, blobs, batches>>
  BY DEF Live, Write, Rewrite, Upgrade, Compact, LoseOutbox, remote
<1> QED
  BY <1>1 DEF DurableInv, Backed, AckedIsDurable, Durable

\* Every step preserves DurableInv while nobody purges.
LEMMA DurableNext == NoPurge /\ TypeInv /\ DurableInv /\ [Next]_vars => DurableInv'
<1> SUFFICES ASSUME NoPurge, TypeInv, DurableInv, [Next]_vars PROVE DurableInv'
  OBVIOUS
<1>1. ASSUME NEW r \in Runner PROVE ~Purge(r)
  BY DEF Purge, StartPurge, DeleteStale, EndPurge, NoPurge, DurableInv, Promise
<1>2. CASE UNCHANGED vars
  BY <1>2 DEF DurableInv, Backed, AckedIsDurable, Durable, vars, device, remote
<1>3. CASE Next
  BY <1>1, <1>3, LiveDurable, PushDurable, PullDurable, RotateDurable, CrashDurable
     DEF Next, TypeInv
<1> QED
  BY <1>2, <1>3

\* DurableInv in every reachable state while nobody purges: the promise of
\* each run (engine.ts, pushSync: objects before the batch manifest, the
\* manifest before the acks) holds at each of its steps.
THEOREM DurableAlways ==
    ASSUME NoPurge
    PROVE  Spec => [](TypeInv /\ DurableInv)
<1>1. Init => TypeInv /\ DurableInv
  BY TypeInit, DurableInit
<1>2. TypeInv /\ DurableInv /\ [Next]_vars => (TypeInv /\ DurableInv)'
  BY DurableNext, TypeStep
<1> QED
  BY <1>1, <1>2, PTL DEF Spec

\* While nobody purges, whatever a device acked since its baseline is on the
\* remote and in a batch its peers list (AckedIsDurable): for any number of
\* concurrent commands, rotations included, crashes, and a lost outbox.
THEOREM AcksAreDurable ==
    ASSUME NoPurge
    PROVE  Spec => []AckedIsDurable
<1>1. DurableInv => AckedIsDurable
  BY DEF DurableInv
<1> QED
  BY <1>1, DurableAlways, PTL

-----------------------------------------------------------------------------
(***************************************************************************)
(* The cursor, while nobody purges and the remote returns what it lists.   *)
(* During a pull every event of an opened batch is still to be fetched, or *)
(* the device settled it, or the run holds the row it will save.           *)
(***************************************************************************)
NoLate == "late" \notin Faults

SettledSet(d) == store[d] \cup conflicts[d] \cup quarantine[d] \cup replaced[d]

Pulling(x) == x.at \in {"fetch", "upsert"}

Fetched(x, settled, objects, listed) ==
    Pulling(x) =>
        /\ x.unseen \cup x.opened \subseteq listed
        /\ x.routes \subseteq objects
        /\ \A b \in x.opened : \A k \in b :
               k \in x.routes \/ k.evt \in settled \cup x.rows \cup x.held \cup Aim(x)
        /\ x.done \subseteq settled \cup x.rows \cup x.held \cup Aim(x)
        /\ x.at = "upsert" => \E e \in x.todo : x.todo = {e}

CursorFull == \A d \in Device : \A b \in pulled[d] : \A k \in b : k.evt \in SettledSet(d)

HonestInv ==
    /\ \A r \in Runner : Fetched(run[r], SettledSet(Home[r]), blobs, batches)
    /\ CursorFull

\* Nothing that is settled becomes unsettled, and the remote loses nothing.
AllGrows ==
    /\ \A d \in Device : SettledSet(d) \subseteq SettledSet(d)'
    /\ RemoteGrows

\* No batch is pulled at the start.
LEMMA HonestInit == Init => HonestInv
BY DEF Init, HonestInv, Fetched, CursorFull, Idle, Pulling

\* What a pull knows stays true as everything grows.
LEMMA FetchedKept ==
    ASSUME AllGrows, NEW x, NEW d \in Device, Fetched(x, SettledSet(d), blobs, batches)
    PROVE  Fetched(x, SettledSet(d)', blobs', batches')
BY DEF AllGrows, RemoteGrows, Fetched

\* One runner moves to a run that knows what it fetched.
LEMMA FetchedStep ==
    ASSUME TypeOK, HonestInv, AllGrows, NEW r \in Runner, NEW next, Become(r, next),
           Fetched(next, SettledSet(Home[r])', blobs', batches')
    PROVE  \A s \in Runner : Fetched(run'[s], SettledSet(Home[s])', blobs', batches')
<1> SUFFICES ASSUME NEW s \in Runner
             PROVE  Fetched(run'[s], SettledSet(Home[s])', blobs', batches')
  OBVIOUS
<1>1. CASE s = r
  BY <1>1 DEF TypeOK, Become
<1>2. CASE s # r
  <2>1. run'[s] = run[s] /\ Home[s] \in Device
    BY <1>2, SyncAssumption DEF TypeOK, Become
  <2> QED
    BY <2>1, FetchedKept DEF HonestInv
<1> QED
  BY <1>1, <1>2

\* A cursor that does not move stays covered.
LEMMA CursorKept ==
    ASSUME HonestInv, AllGrows, UNCHANGED pulled
    PROVE  CursorFull'
BY DEF HonestInv, CursorFull, AllGrows

\* A step of a runner that is not fetching, and does not move the cursor.
LEMMA AwayStep ==
    ASSUME TypeOK, HonestInv, AllGrows, NEW r \in Runner, UNCHANGED pulled,
           \E y : Become(r, y) /\ ~Pulling(y)
    PROVE  HonestInv'
<1> PICK y : Become(r, y) /\ ~Pulling(y)
  OBVIOUS
<1>1. Fetched(y, SettledSet(Home[r])', blobs', batches')
  BY DEF Fetched
<1>2. \A s \in Runner : Fetched(run'[s], SettledSet(Home[s])', blobs', batches')
  BY <1>1, FetchedStep
<1> QED
  BY <1>2, CursorKept DEF HonestInv

\* Push never leaves its runner in the middle of a pull.
LEMMA PushAway ==
    ASSUME TypeOK, NEW r \in Runner, Push(r)
    PROVE  \E y : Become(r, y) /\ ~Pulling(y)
<1> DEFINE x == run[r]
<1> USE DEF Pulling
<1>0. x \in Run
  BY HomeFields
<1>e. Finish(r) => \E y : Become(r, y) /\ ~Pulling(y)
  BY DEF Finish, Idle
<1>1. ASSUME NEW op \in {"push", "backfill"}, StartPush(r, op) PROVE \E y : Become(r, y) /\ ~Pulling(y)
  <2> DEFINE l == Loaded(r, op, "sweep")
             y == [l EXCEPT !.known = acked[Home[r]]]
  <2>1. l \in Run
    BY LoadedType DEF Commands, Phases
  <2>2. l.at = "sweep"
    BY DEF Loaded, Idle
  <2>3. ~Pulling(y)
    <3> HIDE DEF l
    <3> QED
      BY <2>1, <2>2 DEF Run
  <2>4. Become(r, y)
    BY <1>1 DEF StartPush
  <2> HIDE DEF y
  <2> QED
    BY <2>3, <2>4
<1>2. ASSUME NEW plan \in SUBSET Pending(r), Sweep(r, plan) PROVE \E y : Become(r, y) /\ ~Pulling(y)
  <2> DEFINE y == [x EXCEPT !.at = "put", !.todo = plan, !.known = {}]
  <2>1. ~Pulling(y)
    BY <1>0, <1>2 DEF Sweep, Run
  <2>2. Become(r, y)
    BY <1>2 DEF Sweep
  <2> HIDE DEF y
  <2> QED
    BY <2>1, <2>2
<1>3. ASSUME NEW before, SweepAborts(r, before) PROVE \E y : Become(r, y) /\ ~Pulling(y)
  BY <1>e, <1>3 DEF SweepAborts
<1>4. ASSUME NEW e \in x.todo, Put(r, e) PROVE \E y : Become(r, y) /\ ~Pulling(y)
  <2> DEFINE y == [x EXCEPT !.todo = @ \ {e}, !.done = @ \cup {e}]
  <2>1. ~Pulling(y)
    BY <1>0, <1>4 DEF Put, Run
  <2>2. Become(r, y)
    BY <1>4 DEF Put
  <2> HIDE DEF y
  <2> QED
    BY <2>1, <2>2
<1>5. ASSUME NEW e \in x.todo, PutAborts(r, e) PROVE \E y : Become(r, y) /\ ~Pulling(y)
  BY <1>e, <1>5 DEF PutAborts
<1>6. ASSUME Stamp(r) PROVE \E y : Become(r, y) /\ ~Pulling(y)
  <2> DEFINE y == [x EXCEPT !.at = IF x.done = {} THEN "ack" ELSE "batch"]
  <2>1. ~Pulling(y)
    BY <1>0, <1>6 DEF Stamp, Run
  <2>2. Become(r, y)
    BY <1>6 DEF Stamp
  <2> HIDE DEF y
  <2> QED
    BY <2>1, <2>2
<1>7. ASSUME PutBatch(r) PROVE \E y : Become(r, y) /\ ~Pulling(y)
  <2> DEFINE y == [x EXCEPT !.at = "ack"]
  <2>1. ~Pulling(y)
    BY <1>0, <1>7 DEF PutBatch, Run
  <2>2. Become(r, y)
    BY <1>7 DEF PutBatch
  <2> HIDE DEF y
  <2> QED
    BY <2>1, <2>2
<1>8. ASSUME Ack(r) PROVE \E y : Become(r, y) /\ ~Pulling(y)
  <2> DEFINE y == [x EXCEPT !.at = "roster"]
  <2>1. ~Pulling(y)
    BY <1>0 DEF Run
  <2>2. Become(r, y) \/ Finish(r)
    BY <1>8 DEF Ack
  <2> HIDE DEF y
  <2> QED
    BY <1>e, <2>1, <2>2
<1> QED
  BY <1>1, <1>2, <1>3, <1>4, <1>5, <1>6, <1>7, <1>8 DEF Push

\* Nor does rotation.
LEMMA RotateAway ==
    ASSUME TypeOK, NEW r \in Runner, Rotate(r)
    PROVE  \E y : Become(r, y) /\ ~Pulling(y)
<1> DEFINE x == run[r]
<1> USE DEF Pulling
<1>0. x \in Run
  BY HomeFields
<1>1. ASSUME StartRotate(r) PROVE \E y : Become(r, y) /\ ~Pulling(y)
  <2> DEFINE l == Loaded(r, "rotate", "sweep")
             y == [l EXCEPT !.known = acked[Home[r]]]
  <2>1. l \in Run
    BY LoadedType DEF Commands, Phases
  <2>2. l.at = "sweep"
    BY DEF Loaded, Idle
  <2>3. ~Pulling(y)
    <3> HIDE DEF l
    <3> QED
      BY <2>1, <2>2 DEF Run
  <2>4. Become(r, y)
    BY <1>1 DEF StartRotate
  <2> HIDE DEF y
  <2> QED
    BY <2>3, <2>4
<1>2. ASSUME Roster(r) PROVE \E y : Become(r, y) /\ ~Pulling(y)
  <2> DEFINE y == [x EXCEPT !.at = "reput", !.key = @ + 1, !.epoch = keyEpoch[Home[r]],
                         !.todo = outbox[Home[r]] \cap acked[Home[r]], !.done = {}]
  <2>1. ~Pulling(y)
    BY <1>0, <1>2 DEF Roster, Run
  <2>2. Become(r, y)
    BY <1>2 DEF Roster
  <2> HIDE DEF y
  <2> QED
    BY <2>1, <2>2
<1>3. ASSUME NEW e \in x.todo, Reput(r, e) PROVE \E y : Become(r, y) /\ ~Pulling(y)
  <2> DEFINE y == [x EXCEPT !.todo = @ \ {e}, !.done = @ \cup {e}]
  <2>1. ~Pulling(y)
    BY <1>0, <1>3 DEF Reput, Run
  <2>2. Become(r, y)
    BY <1>3 DEF Reput
  <2> HIDE DEF y
  <2> QED
    BY <2>1, <2>2
<1>4. ASSUME Rebatch(r) PROVE \E y : Become(r, y) /\ ~Pulling(y)
  <2> DEFINE y == [x EXCEPT !.at = "manifest"]
  <2>1. ~Pulling(y)
    BY <1>0, <1>4 DEF Rebatch, Run
  <2>2. Become(r, y)
    BY <1>4 DEF Rebatch
  <2> HIDE DEF y
  <2> QED
    BY <2>1, <2>2
<1>5. ASSUME PutManifest(r) PROVE \E y : Become(r, y) /\ ~Pulling(y)
  <2> DEFINE y == [x EXCEPT !.at = "save"]
  <2>1. ~Pulling(y)
    BY <1>0, <1>5 DEF PutManifest, Run
  <2>2. Become(r, y)
    BY <1>5 DEF PutManifest
  <2> HIDE DEF y
  <2> QED
    BY <2>1, <2>2
<1>6. ASSUME SaveEpoch(r) PROVE \E y : Become(r, y) /\ ~Pulling(y)
  <2> DEFINE y == [x EXCEPT !.at = "config"]
  <2>1. ~Pulling(y)
    BY <1>0, <1>6 DEF SaveEpoch, Run
  <2>2. Become(r, y)
    BY <1>6 DEF SaveEpoch
  <2> HIDE DEF y
  <2> QED
    BY <2>1, <2>2
<1>7. ASSUME WriteConfig(r) PROVE \E y : Become(r, y) /\ ~Pulling(y)
  BY <1>7 DEF WriteConfig, Finish, Idle
<1> QED
  BY <1>1, <1>2, <1>3, <1>4, <1>5, <1>6, <1>7 DEF Rotate

\* While nobody purges, no step unsettles an event or shrinks the remote.
LEMMA AllGrow == NoPurge /\ TypeOK /\ DurableInv /\ Next => AllGrows
<1> SUFFICES ASSUME NoPurge, TypeOK, DurableInv, Next PROVE AllGrows
  OBVIOUS
<1>0. ASSUME NEW r \in Runner PROVE ~Purge(r)
  BY DEF Purge, StartPurge, DeleteStale, EndPurge, NoPurge, DurableInv, Promise
<1> USE DEF AllGrows, RemoteGrows, SettledSet, TypeOK
<1>1. ASSUME NEW d \in Device, Live(d) PROVE AllGrows
  <2>1. ASSUME NEW e \in Entry, Write(d, e) PROVE AllGrows
    BY <2>1 DEF Write, remote
  <2>2. ASSUME NEW e \in Entry, Rewrite(d, e) PROVE AllGrows
    BY <2>2 DEF Rewrite, remote
  <2> QED
    BY <1>1, <2>1, <2>2 DEF Live, Upgrade, Compact, LoseOutbox, remote
<1>2. ASSUME NEW r \in Runner, Push(r) PROVE AllGrows
  BY <1>2 DEF Push, StartPush, Sweep, SweepAborts, Put, PutAborts, Stamp, PutBatch, Ack, device,
              remote
<1>3. ASSUME NEW r \in Runner, Pull(r) PROVE AllGrows
  <2>1. CASE SavePull(r)
    BY <2>1 DEF SavePull, remote
  <2>2. ASSUME NEW e \in run[r].todo, Upsert(r, e) PROVE AllGrows
    <3>1. Home[r] \in Device
      BY HomeFields
    <3>2. \A d \in Device :
            store[d] \cup replaced[d] \subseteq store'[d] \cup replaced'[d]
      BY <2>2, <3>1 DEF Upsert
    <3> QED
      BY <2>2, <3>2 DEF Upsert, remote
  <2>3. CASE ~SavePull(r) /\ ~\E e \in run[r].todo : Upsert(r, e)
    BY <1>3, <2>3 DEF Pull, StartPull, OpenBatch, MissingBatch, Pass, Halt, Quarantine, Apply,
                      device, remote
  <2> QED
    BY <2>1, <2>2, <2>3
<1>4. ASSUME NEW r \in Runner, Rotate(r) PROVE AllGrows
  BY <1>4 DEF Rotate, StartRotate, Roster, Reput, Rebatch, PutManifest, SaveEpoch, WriteConfig,
              device, remote
<1>5. ASSUME NEW r \in Runner, NEW some \in SUBSET Entry, Crash(r, some) PROVE AllGrows
  BY <1>5 DEF Crash, remote
<1> QED
  BY <1>0, <1>1, <1>2, <1>3, <1>4, <1>5 DEF Next

\* A step of a runner that goes on fetching.
LEMMA FetchingStep ==
    ASSUME TypeOK, HonestInv, AllGrows, NEW r \in Runner, UNCHANGED pulled,
           NEW next, Become(r, next),
           Fetched(next, SettledSet(Home[r])', blobs', batches')
    PROVE  HonestInv'
BY FetchedStep, CursorKept DEF HonestInv

\* Pull preserves HonestInv if the remote returns what it lists.
LEMMA PullHonest ==
    ASSUME NoLate, TypeOK, DurableInv, HonestInv, AllGrows, NEW r \in Runner, Pull(r)
    PROVE  HonestInv'
<1> DEFINE x == run[r]
           d == Home[r]
           settled == SettledSet(d)
<1>0. /\ x \in Run /\ d \in Device /\ x.done \in SUBSET Entry /\ x.routes \in SUBSET Route
      /\ Fetched(x, settled, blobs, batches)
      /\ settled \subseteq settled'
  BY HomeFields, RunFields DEF HonestInv, AllGrows
<1>f. x.at = "fetch" =>
        /\ x.unseen \cup x.opened \subseteq batches
        /\ x.routes \subseteq blobs
        /\ \A b \in x.opened : \A k \in b :
               k \in x.routes \/ k.evt \in settled' \cup x.rows \cup x.held
        /\ x.done \subseteq settled' \cup x.rows \cup x.held
  <2> HIDE DEF x, settled
  <2> QED
    BY <1>0 DEF Fetched, Pulling, Aim
<1>u. x.at = "upsert" =>
        /\ x.unseen \cup x.opened \subseteq batches
        /\ x.routes \subseteq blobs
        /\ \A b \in x.opened : \A k \in b :
               k \in x.routes \/ k.evt \in settled' \cup x.rows \cup x.held \cup x.todo
        /\ x.done \subseteq settled' \cup x.rows \cup x.held \cup x.todo
        /\ \E e \in x.todo : x.todo = {e}
  <2> HIDE DEF x, settled
  <2> QED
    BY <1>0 DEF Fetched, Pulling, Aim
<1>1. ASSUME NEW op \in {"pull", "skip"}, StartPull(r, op) PROVE HonestInv'
  <2> DEFINE l == Loaded(r, op, "fetch")
             y == [l EXCEPT !.unseen = batches \ pulled[Home[r]]]
  <2>1. l \in Run
    BY LoadedType DEF Commands, Phases
  <2>2. l.at = "fetch" /\ l.opened = {} /\ l.routes = {} /\ l.done = {}
    BY DEF Loaded, Idle
  <2>3. /\ y.at = "fetch" /\ y.unseen \subseteq batches /\ y.opened = {}
        /\ y.routes = {} /\ y.done = {}
    <3> HIDE DEF l
    <3> QED
      BY <2>1, <2>2 DEF Run
  <2>4. Become(r, y) /\ UNCHANGED pulled /\ batches' = batches
    BY <1>1 DEF StartPull, device, remote
  <2> HIDE DEF y
  <2>5. Fetched(y, settled', blobs', batches')
    BY <2>3, <2>4 DEF Fetched, Aim
  <2> QED
    BY <2>4, <2>5, FetchingStep
<1>2. ASSUME NEW b \in x.unseen, OpenBatch(r, b) PROVE HonestInv'
  <2> DEFINE y == [x EXCEPT !.unseen = @ \ {b}, !.opened = @ \cup {b}, !.routes = b]
  <2>1. /\ y.unseen = x.unseen \ {b} /\ y.opened = x.opened \cup {b} /\ y.routes = b
        /\ y.at = x.at /\ y.done = x.done /\ y.rows = x.rows /\ y.held = x.held
    BY <1>0 DEF Run
  <2>2. Become(r, y) /\ UNCHANGED <<pulled, blobs, batches>> /\ x.at = "fetch" /\ x.routes = {}
    BY <1>2 DEF OpenBatch, device, remote
  <2>3. b \subseteq blobs
    BY <1>f, <2>2 DEF DurableInv, Backed
  <2> HIDE DEF y, x, settled
  <2>4. Fetched(y, settled', blobs', batches')
    BY <1>f, <1>2, <2>1, <2>2, <2>3 DEF Fetched, Aim
  <2> QED
    BY <2>2, <2>4, FetchingStep DEF settled
<1>3. ASSUME NEW b \in x.unseen, MissingBatch(r, b) PROVE HonestInv'
  BY <1>3 DEF MissingBatch, NoLate
<1>4. ASSUME NEW k \in x.routes, Pass(r, k) PROVE HonestInv'
  <2> DEFINE y == [x EXCEPT !.routes = @ \ {k}]
  <2>1. /\ y.unseen = x.unseen /\ y.opened = x.opened /\ y.routes = x.routes \ {k}
        /\ y.at = x.at /\ y.done = x.done /\ y.rows = x.rows /\ y.held = x.held
    BY <1>0 DEF Run
  <2>2. Become(r, y) /\ UNCHANGED <<pulled, blobs, batches>> /\ x.at = "fetch"
    BY <1>4 DEF Pass, Fetching, device, remote
  <2>3. k.evt \in x.done
    BY <1>f, <1>4, <2>2 DEF Pass, NoLate
  <2> HIDE DEF y, x, settled
  <2>4. Fetched(y, settled', blobs', batches')
    BY <1>f, <2>1, <2>2, <2>3 DEF Fetched, Aim
  <2> QED
    BY <2>2, <2>4, FetchingStep DEF settled
<1>5. ASSUME NEW k \in x.routes, Halt(r, k) PROVE HonestInv'
  BY <1>5, AwayStep DEF Halt, Finish, Idle, Pulling, device
<1>6. ASSUME NEW k \in x.routes, Quarantine(r, k) PROVE HonestInv'
  <2> DEFINE y == [x EXCEPT !.routes = @ \ {k}, !.done = @ \cup {k.evt},
                            !.held = @ \cup {k.evt}]
  <2>1. /\ y.unseen = x.unseen /\ y.opened = x.opened /\ y.routes = x.routes \ {k}
        /\ y.at = x.at /\ y.done = x.done \cup {k.evt} /\ y.rows = x.rows
        /\ y.held = x.held \cup {k.evt}
    BY <1>0 DEF Run
  <2>2. Become(r, y) /\ UNCHANGED <<pulled, blobs, batches>> /\ x.at = "fetch"
    BY <1>6 DEF Quarantine, Readable, Fetching, device, remote
  <2> HIDE DEF y, x, settled
  <2>3. Fetched(y, settled', blobs', batches')
    BY <1>f, <2>1, <2>2 DEF Fetched, Aim
  <2> QED
    BY <2>2, <2>3, FetchingStep DEF settled
<1>7. ASSUME NEW k \in x.routes, Apply(r, k) PROVE HonestInv'
  <2> DEFINE local == Versions(d, k.evt.id)
             i == Inserts(r, k)
             y == [x EXCEPT !.routes = @ \ {k}, !.done = @ \cup {k.evt},
                            !.rows = IF local = {k.evt} THEN @ ELSE @ \cup {k.evt}]
  <2>1. /\ UNCHANGED <<pulled, blobs, batches>> /\ x.at = "fetch"
        /\ Become(r, IF local = {} THEN i ELSE y)
    BY <1>7 DEF Apply, Applicable, Readable, Fetching, device, remote
  <2>2. /\ i.at = "upsert" /\ i.unseen = x.unseen /\ i.opened = x.opened
        /\ i.routes = x.routes \ {k} /\ i.done = x.done \cup {k.evt}
        /\ i.rows = x.rows /\ i.held = x.held /\ i.todo = {k.evt}
    BY <1>0 DEF Inserts, Run
  <2>3. /\ y.at = x.at /\ y.unseen = x.unseen /\ y.opened = x.opened
        /\ y.routes = x.routes \ {k} /\ y.done = x.done \cup {k.evt} /\ y.held = x.held
        /\ y.rows = (IF local = {k.evt} THEN x.rows ELSE x.rows \cup {k.evt})
    BY <1>0 DEF Run
  <2>4. local = {k.evt} => k.evt \in settled'
    BY <1>0 DEF Versions, SettledSet
  <2> HIDE DEF i, y, x, settled, local
  <2>5. Fetched(i, settled', blobs', batches')
    BY <1>f, <2>1, <2>2 DEF Fetched, Aim
  <2>6. Fetched(y, settled', blobs', batches')
    BY <1>f, <2>1, <2>3, <2>4 DEF Fetched, Aim
  <2> QED
    BY <2>1, <2>5, <2>6, FetchingStep DEF settled
<1>9. ASSUME NEW e \in x.todo, Upsert(r, e) PROVE HonestInv'
  <2> DEFINE y == [x EXCEPT !.at = "fetch", !.todo = {}]
  <2>1. /\ y.at = "fetch" /\ y.unseen = x.unseen /\ y.opened = x.opened
        /\ y.routes = x.routes /\ y.done = x.done /\ y.held = x.held /\ y.rows = x.rows
    BY <1>0 DEF Run
  <2>2. Become(r, y) /\ UNCHANGED <<pulled, blobs, batches>> /\ x.at = "upsert"
    BY <1>9 DEF Upsert, remote
  <2>3. e \in settled'
    BY <1>0, <1>9 DEF Upsert, SettledSet, TypeOK
  <2>4. x.todo = {e}
    BY <1>u, <1>9, <2>2
  <2> HIDE DEF y, x, settled
  <2>5. Fetched(y, settled', blobs', batches')
    BY <1>u, <2>1, <2>2, <2>3, <2>4 DEF Fetched, Aim
  <2> QED
    BY <2>2, <2>5, FetchingStep DEF settled
<1>8. ASSUME SavePull(r) PROVE HonestInv'
  <2>1. x.at = "fetch" /\ x.routes = {}
    BY <1>8 DEF SavePull
  <2>2. \A s \in Runner : Fetched(run'[s], SettledSet(Home[s])', blobs', batches')
    <3>1. Fetched(Idle, SettledSet(Home[r])', blobs', batches')
      BY DEF Fetched, Idle, Pulling
    <3> QED
      BY <1>8, <3>1, FetchedStep DEF SavePull, Finish
  <2>3. x.rows \cup x.held \subseteq settled'
    BY <1>0, <1>8 DEF SavePull, SettledSet, TypeOK
  <2>4. \A b \in x.opened : \A k \in b : k.evt \in settled'
    BY <1>f, <2>1, <2>3
  <2>5. CursorFull'
    <3> SUFFICES ASSUME NEW c \in Device, NEW b \in pulled'[c], NEW k \in b
                 PROVE  k.evt \in SettledSet(c)'
      BY DEF CursorFull
    <3>1. CASE b \in pulled[c]
      BY <3>1 DEF HonestInv, CursorFull, AllGrows
    <3>2. CASE b \notin pulled[c]
      <4>1. c = d /\ b \in x.opened
        BY <1>0, <1>8, <3>2 DEF SavePull, TypeOK
      <4> QED
        BY <2>4, <4>1
    <3> QED
      BY <3>1, <3>2
  <2> QED
    BY <2>2, <2>5 DEF HonestInv
<1> QED
  BY <1>1, <1>2, <1>3, <1>4, <1>5, <1>6, <1>7, <1>8, <1>9 DEF Pull

\* Every step preserves HonestInv.
LEMMA HonestNext ==
    NoPurge /\ NoLate /\ TypeInv /\ DurableInv /\ HonestInv /\ [Next]_vars => HonestInv'
<1> SUFFICES ASSUME NoPurge, NoLate, TypeInv, DurableInv, HonestInv, [Next]_vars
             PROVE  HonestInv'
  OBVIOUS
<1> USE DEF TypeInv
<1>1. CASE UNCHANGED vars
  BY <1>1 DEF HonestInv, Fetched, CursorFull, SettledSet, vars, device, remote
<1>2. CASE Next
  <2>1. AllGrows
    BY <1>2, AllGrow
  <2>2. ASSUME NEW d \in Device, Live(d) PROVE HonestInv'
    <3>1. UNCHANGED <<run, pulled>>
      BY <2>2 DEF Live, Write, Rewrite, Upgrade, Compact, LoseOutbox
    <3>2. \A r \in Runner : Home[r] \in Device
      BY SyncAssumption
    <3> QED
      BY <2>1, <3>1, <3>2, CursorKept, FetchedKept DEF HonestInv
  <2>3. ASSUME NEW r \in Runner, Push(r) PROVE HonestInv'
    <3>1. UNCHANGED pulled
      BY <2>3 DEF Push, StartPush, Sweep, SweepAborts, Put, PutAborts, Stamp, PutBatch, Ack,
                  device
    <3> QED
      BY <2>1, <2>3, <3>1, PushAway, AwayStep
  <2>4. ASSUME NEW r \in Runner, Pull(r) PROVE HonestInv'
    BY <2>1, <2>4, PullHonest
  <2>5. ASSUME NEW r \in Runner, Rotate(r) PROVE HonestInv'
    <3>1. UNCHANGED pulled
      BY <2>5 DEF Rotate, StartRotate, Roster, Reput, Rebatch, PutManifest, SaveEpoch,
                  WriteConfig, device
    <3> QED
      BY <2>1, <2>5, <3>1, RotateAway, AwayStep
  <2>6. ASSUME NEW r \in Runner, NEW some \in SUBSET Entry, Crash(r, some) PROVE HonestInv'
    <3>1. UNCHANGED pulled /\ \E y : Become(r, y) /\ ~Pulling(y)
      BY <2>6 DEF Crash, Finish, Idle, Pulling
    <3> QED
      BY <2>1, <3>1, AwayStep
  <2>7. ASSUME NEW r \in Runner PROVE ~Purge(r)
    BY DEF Purge, StartPurge, DeleteStale, EndPurge, NoPurge, DurableInv, Promise
  <2> QED
    BY <1>2, <2>2, <2>3, <2>4, <2>5, <2>6, <2>7 DEF Next
<1> QED
  BY <1>1, <1>2

\* Of every batch a device recorded as pulled it holds, or has on its ledgers,
\* every event (CursorHonest): whatever crashes, halts and concurrent commands
\* there are, if nobody purges and the remote returns what it lists.
THEOREM CursorIsHonest ==
    ASSUME NoPurge, NoLate
    PROVE  Spec => []CursorHonest
<1>1. Init => TypeInv /\ DurableInv /\ HonestInv
  BY TypeInit, DurableInit, HonestInit
<1>2. TypeInv /\ DurableInv /\ HonestInv /\ [Next]_vars
        => (TypeInv /\ DurableInv /\ HonestInv)'
  BY TypeStep, DurableNext, HonestNext
<1>3. HonestInv => CursorHonest
  BY DEF HonestInv, CursorFull, CursorHonest, Settled, SettledSet
<1> QED
  BY <1>1, <1>2, <1>3, PTL DEF Spec

-----------------------------------------------------------------------------
(***************************************************************************)
(* The refinement.  Whatever is staged, uploaded, or about to be uploaded  *)
(* or recorded was written by some device.                                 *)
(***************************************************************************)
WrittenInv ==
    /\ \A d \in Device : outbox[d] \subseteq Written
    /\ \A k \in blobs : k.evt \in Written
    /\ \A r \in Runner : run[r].todo \cup run[r].rows \subseteq Written

\* Nothing is on the remote at the start.
LEMMA WrittenInit == Init => WrittenInv
BY DEF Init, WrittenInv, Idle

\* What a device stores was written by some device.
LEMMA StoreWritten ==
    ASSUME NEW d \in Device
    PROVE  store[d] \subseteq Written /\ replaced[d] \subseteq Written
BY DEF Written

\* A step of a runner that leaves the store alone.
LEMMA RunnerStep ==
    ASSUME TypeOK, WrittenInv, NEW r \in Runner, NEW next, Become(r, next),
           next.todo \cup next.rows \subseteq Written, UNCHANGED <<store, replaced>>,
           \A d \in Device : outbox'[d] \subseteq Written,
           \A k \in blobs' : k.evt \in Written
    PROVE  WrittenInv'
<1>1. Written' = Written
  BY DEF Written
<1> QED
  BY <1>1 DEF WrittenInv, TypeOK, Become

\* A step that writes nothing.
LEMMA KeptStep ==
    ASSUME TypeOK, WrittenInv, NEW r \in Runner, NEW next, Become(r, next),
           next.todo \cup next.rows \subseteq Written,
           UNCHANGED <<store, replaced, outbox, blobs>>
    PROVE  WrittenInv'
BY RunnerStep DEF WrittenInv

\* A command that ends.
LEMMA DoneStep ==
    ASSUME TypeOK, WrittenInv, NEW r \in Runner, Finish(r), UNCHANGED <<store, replaced>>,
           \A d \in Device : outbox'[d] \subseteq Written,
           \A k \in blobs' : k.evt \in Written
    PROVE  WrittenInv'
<1>1. Idle.todo \cup Idle.rows \subseteq Written
  BY DEF Idle
<1> QED
  BY <1>1, RunnerStep DEF Finish

\* Push uploads only what was written.
LEMMA PushWritten ==
    ASSUME TypeOK, WrittenInv, NEW r \in Runner, Push(r)
    PROVE  WrittenInv'
<1> DEFINE x == run[r]
<1>0. /\ x \in Run /\ Home[r] \in Device /\ x.todo \subseteq Written /\ x.rows \subseteq Written
      /\ outbox[Home[r]] \subseteq Written /\ store[Home[r]] \subseteq Written
      /\ outbox \in [Device -> SUBSET Entry]
  BY HomeFields, StoreWritten DEF WrittenInv, TypeOK
<1>1. ASSUME NEW op \in {"push", "backfill"}, StartPush(r, op) PROVE WrittenInv'
  <2> DEFINE l == Loaded(r, op, "sweep")
             y == [l EXCEPT !.known = acked[Home[r]]]
  <2>1. l \in Run
    BY LoadedType DEF Commands, Phases
  <2>2. l.todo = {} /\ l.rows = {}
    BY DEF Loaded, Idle
  <2>3. y.todo \cup y.rows \subseteq Written
    <3> HIDE DEF l
    <3> QED
      BY <2>1, <2>2 DEF Run
  <2>4. Become(r, y) /\ UNCHANGED <<store, replaced, outbox, blobs>>
    BY <1>1 DEF StartPush, device, remote
  <2> HIDE DEF y
  <2> QED
    BY <2>3, <2>4, KeptStep
<1>2. ASSUME NEW plan \in SUBSET Pending(r), Sweep(r, plan) PROVE WrittenInv'
  <2> DEFINE y == [x EXCEPT !.at = "put", !.todo = plan, !.known = {}]
  <2>1. plan \subseteq Written /\ ToStage(Home[r], x.op) \subseteq Written
    BY <1>0 DEF Pending, ToStage
  <2>2. y.todo = plan /\ y.rows = x.rows
    BY <1>0 DEF Run
  <2>3. Become(r, y) /\ UNCHANGED <<store, replaced, blobs>>
    BY <1>2 DEF Sweep, remote
  <2>4. \A d \in Device : outbox'[d] \subseteq Written
    BY <1>0, <1>2, <2>1 DEF Sweep, WrittenInv
  <2> HIDE DEF y
  <2> QED
    BY <1>0, <2>1, <2>2, <2>3, <2>4, RunnerStep DEF WrittenInv
<1>3. ASSUME NEW before \in SUBSET ToStage(Home[r], x.op), SweepAborts(r, before)
      PROVE  WrittenInv'
  <2>1. before \subseteq Written
    BY <1>0 DEF ToStage
  <2>2. \A d \in Device : outbox'[d] \subseteq Written
    BY <1>0, <1>3, <2>1 DEF SweepAborts, WrittenInv
  <2> QED
    BY <1>3, <2>2, DoneStep DEF SweepAborts, remote, WrittenInv
<1>4. ASSUME NEW e \in x.todo, Put(r, e) PROVE WrittenInv'
  <2> DEFINE y == [x EXCEPT !.todo = @ \ {e}, !.done = @ \cup {e}]
  <2>1. y.todo = x.todo \ {e} /\ y.rows = x.rows
    BY <1>0 DEF Run
  <2>2. Become(r, y) /\ UNCHANGED <<store, replaced, outbox>>
    BY <1>4 DEF Put, device
  <2>3. \A k \in blobs' : k.evt \in Written
    BY <1>0, <1>4 DEF Put, RouteOf, WrittenInv
  <2> HIDE DEF y
  <2> QED
    BY <1>0, <2>1, <2>2, <2>3, RunnerStep DEF WrittenInv
<1>5. ASSUME NEW e \in x.todo, PutAborts(r, e) PROVE WrittenInv'
  BY <1>5, DoneStep DEF PutAborts, device, WrittenInv
<1>6. ASSUME Stamp(r) PROVE WrittenInv'
  <2> DEFINE y == [x EXCEPT !.at = IF x.done = {} THEN "ack" ELSE "batch"]
  <2>1. y.todo \cup y.rows \subseteq Written
    BY <1>0, <1>6 DEF Stamp, Run
  <2>2. Become(r, y) /\ UNCHANGED <<store, replaced, outbox, blobs>>
    BY <1>6 DEF Stamp, device, remote
  <2> HIDE DEF y
  <2> QED
    BY <2>1, <2>2, KeptStep
<1>7. ASSUME PutBatch(r) PROVE WrittenInv'
  <2> DEFINE y == [x EXCEPT !.at = "ack"]
  <2>1. y.todo \cup y.rows \subseteq Written
    BY <1>0, <1>7 DEF PutBatch, Run
  <2>2. Become(r, y) /\ UNCHANGED <<store, replaced, outbox, blobs>>
    BY <1>7 DEF PutBatch, device
  <2> HIDE DEF y
  <2> QED
    BY <2>1, <2>2, KeptStep
<1>8. ASSUME Ack(r) PROVE WrittenInv'
  <2> DEFINE y == [x EXCEPT !.at = "roster"]
  <2>1. y.todo \cup y.rows \subseteq Written
    BY <1>0 DEF Run
  <2>2. Become(r, y) \/ Finish(r)
    BY <1>8 DEF Ack
  <2>3. UNCHANGED <<store, replaced, outbox, blobs>>
    BY <1>8 DEF Ack, remote
  <2> HIDE DEF y
  <2> QED
    BY <2>1, <2>2, <2>3, KeptStep, DoneStep DEF WrittenInv
<1> QED
  BY <1>1, <1>2, <1>3, <1>4, <1>5, <1>6, <1>7, <1>8 DEF Push

\* The insertion of a pull moves versions between the store and the history.
LEMMA UpsertWrites ==
    ASSUME TypeOK, WrittenInv, NEW r \in Runner, NEW e \in run[r].todo, Upsert(r, e)
    PROVE  Written' = Written
<1> DEFINE d == Home[r]
           Own(c) == store[c] \cup replaced[c]
<1>1. d \in Device /\ e \in Written
  BY HomeFields DEF WrittenInv
<1>2. Own(d)' = Own(d) \cup {e} /\ \A c \in Device \ {d} : Own(c)' = Own(c)
  BY <1>1 DEF Upsert, Versions, TypeOK
<1> QED
  BY <1>1, <1>2 DEF Written

\* Pull stores only what was written.
LEMMA PullWritten ==
    ASSUME TypeOK, WrittenInv, NEW r \in Runner, Pull(r)
    PROVE  WrittenInv'
<1> DEFINE x == run[r]
<1>0. x \in Run /\ Home[r] \in Device /\ x.todo \subseteq Written /\ x.rows \subseteq Written
  BY HomeFields DEF WrittenInv
<1>1. ASSUME NEW op \in {"pull", "skip"}, StartPull(r, op) PROVE WrittenInv'
  <2> DEFINE l == Loaded(r, op, "fetch")
             y == [l EXCEPT !.unseen = batches \ pulled[Home[r]]]
  <2>1. l \in Run
    BY LoadedType DEF Commands, Phases
  <2>2. l.todo = {} /\ l.rows = {}
    BY DEF Loaded, Idle
  <2>3. y.todo \cup y.rows \subseteq Written
    <3> HIDE DEF l
    <3> QED
      BY <2>1, <2>2 DEF Run
  <2>4. Become(r, y) /\ UNCHANGED <<store, replaced, outbox, blobs>>
    BY <1>1 DEF StartPull, device, remote
  <2> HIDE DEF y
  <2> QED
    BY <2>3, <2>4, KeptStep
<1>2. ASSUME NEW b \in x.unseen, OpenBatch(r, b) PROVE WrittenInv'
  <2> DEFINE y == [x EXCEPT !.unseen = @ \ {b}, !.opened = @ \cup {b}, !.routes = b]
  <2>1. y.todo \cup y.rows \subseteq Written
    BY <1>0, <1>2 DEF OpenBatch, Run
  <2>2. Become(r, y) /\ UNCHANGED <<store, replaced, outbox, blobs>>
    BY <1>2 DEF OpenBatch, device, remote
  <2> HIDE DEF y
  <2> QED
    BY <2>1, <2>2, KeptStep
<1>3. ASSUME NEW b \in x.unseen, MissingBatch(r, b) PROVE WrittenInv'
  <2> DEFINE y == [x EXCEPT !.unseen = @ \ {b}]
  <2>1. y.todo \cup y.rows \subseteq Written
    BY <1>0, <1>3 DEF MissingBatch, Run
  <2>2. Become(r, y) /\ UNCHANGED <<store, replaced, outbox, blobs>>
    BY <1>3 DEF MissingBatch, device, remote
  <2> HIDE DEF y
  <2> QED
    BY <2>1, <2>2, KeptStep
<1>4. ASSUME NEW k \in x.routes, Pass(r, k) PROVE WrittenInv'
  <2> DEFINE y == [x EXCEPT !.routes = @ \ {k}]
  <2>1. y.todo \cup y.rows \subseteq Written
    BY <1>0, <1>4 DEF Pass, Run
  <2>2. Become(r, y) /\ UNCHANGED <<store, replaced, outbox, blobs>>
    BY <1>4 DEF Pass, device, remote
  <2> HIDE DEF y
  <2> QED
    BY <2>1, <2>2, KeptStep
<1>5. ASSUME NEW k \in x.routes, Halt(r, k) PROVE WrittenInv'
  BY <1>5, DoneStep DEF Halt, device, remote, WrittenInv
<1>6. ASSUME NEW k \in x.routes, Quarantine(r, k) PROVE WrittenInv'
  <2> DEFINE y == [x EXCEPT !.routes = @ \ {k}, !.done = @ \cup {k.evt},
                         !.held = @ \cup {k.evt}]
  <2>1. y.todo \cup y.rows \subseteq Written
    BY <1>0, <1>6 DEF Quarantine, Run
  <2>2. Become(r, y) /\ UNCHANGED <<store, replaced, outbox, blobs>>
    BY <1>6 DEF Quarantine, device, remote
  <2> HIDE DEF y
  <2> QED
    BY <2>1, <2>2, KeptStep
<1>7. ASSUME NEW k \in x.routes, Apply(r, k) PROVE WrittenInv'
  <2> DEFINE local == Versions(Home[r], k.evt.id)
             i == Inserts(r, k)
             y == [x EXCEPT !.routes = @ \ {k}, !.done = @ \cup {k.evt},
                            !.rows = IF local = {k.evt} THEN @ ELSE @ \cup {k.evt}]
  <2>1. i.todo = {k.evt} /\ i.rows = x.rows
    BY <1>0 DEF Inserts, Run
  <2>2. y.todo = x.todo /\ y.rows \subseteq x.rows \cup {k.evt}
    BY <1>0 DEF Run
  <2>3. /\ UNCHANGED <<store, replaced, outbox, blobs>>
        /\ Become(r, IF local = {} THEN i ELSE y)
    BY <1>7 DEF Apply, device, remote
  <2>4. k.evt \in Written
    BY <1>7 DEF Apply, Applicable, Readable, WrittenInv
  <2> HIDE DEF i, y, local
  <2>5. i.todo \cup i.rows \subseteq Written /\ y.todo \cup y.rows \subseteq Written
    BY <1>0, <2>1, <2>2, <2>4
  <2> QED
    BY <2>3, <2>5, KeptStep
<1>9. ASSUME NEW e \in x.todo, Upsert(r, e) PROVE WrittenInv'
  <2> DEFINE y == [x EXCEPT !.at = "fetch", !.todo = {}]
  <2>1. y.todo = {} /\ y.rows = x.rows
    BY <1>0 DEF Run
  <2>2. Become(r, y) /\ UNCHANGED <<outbox, blobs>>
    BY <1>9 DEF Upsert, remote
  <2>3. Written' = Written
    BY <1>0, <1>9, UpsertWrites
  <2> HIDE DEF y
  <2> QED
    BY <1>0, <2>1, <2>2, <2>3 DEF WrittenInv, TypeOK, Become
<1>8. ASSUME SavePull(r) PROVE WrittenInv'
  BY <1>8, DoneStep DEF SavePull, remote, WrittenInv
<1> QED
  BY <1>1, <1>2, <1>3, <1>4, <1>5, <1>6, <1>7, <1>8, <1>9 DEF Pull

\* Rotation re-uploads only what was written.
LEMMA RotateWritten ==
    ASSUME TypeOK, WrittenInv, NEW r \in Runner, Rotate(r)
    PROVE  WrittenInv'
<1> DEFINE x == run[r]
<1>0. /\ x \in Run /\ Home[r] \in Device /\ x.todo \subseteq Written /\ x.rows \subseteq Written
      /\ outbox[Home[r]] \subseteq Written
  BY HomeFields DEF WrittenInv
<1>1. ASSUME StartRotate(r) PROVE WrittenInv'
  <2> DEFINE l == Loaded(r, "rotate", "sweep")
             y == [l EXCEPT !.known = acked[Home[r]]]
  <2>1. l \in Run
    BY LoadedType DEF Commands, Phases
  <2>2. l.todo = {} /\ l.rows = {}
    BY DEF Loaded, Idle
  <2>3. y.todo \cup y.rows \subseteq Written
    <3> HIDE DEF l
    <3> QED
      BY <2>1, <2>2 DEF Run
  <2>4. Become(r, y) /\ UNCHANGED <<store, replaced, outbox, blobs>>
    BY <1>1 DEF StartRotate, device, remote
  <2> HIDE DEF y
  <2> QED
    BY <2>3, <2>4, KeptStep
<1>2. ASSUME Roster(r) PROVE WrittenInv'
  <2> DEFINE y == [x EXCEPT !.at = "reput", !.key = @ + 1, !.epoch = keyEpoch[Home[r]],
                         !.todo = outbox[Home[r]] \cap acked[Home[r]], !.done = {}]
  <2>1. y.todo \cup y.rows \subseteq Written
    BY <1>0, <1>2 DEF Roster, Run
  <2>2. Become(r, y) /\ UNCHANGED <<store, replaced, outbox, blobs>>
    BY <1>2 DEF Roster, device, remote
  <2> HIDE DEF y
  <2> QED
    BY <2>1, <2>2, KeptStep
<1>3. ASSUME NEW e \in x.todo, Reput(r, e) PROVE WrittenInv'
  <2> DEFINE y == [x EXCEPT !.todo = @ \ {e}, !.done = @ \cup {e}]
  <2>1. y.todo = x.todo \ {e} /\ y.rows = x.rows
    BY <1>0 DEF Run
  <2>2. Become(r, y) /\ UNCHANGED <<store, replaced, outbox>>
    BY <1>3 DEF Reput, device
  <2>3. \A k \in blobs' : k.evt \in Written
    BY <1>0, <1>3 DEF Reput, RouteOf, WrittenInv
  <2> HIDE DEF y
  <2> QED
    BY <1>0, <2>1, <2>2, <2>3, RunnerStep DEF WrittenInv
<1>4. ASSUME Rebatch(r) PROVE WrittenInv'
  <2> DEFINE y == [x EXCEPT !.at = "manifest"]
  <2>1. y.todo \cup y.rows \subseteq Written
    BY <1>0, <1>4 DEF Rebatch, Run
  <2>2. Become(r, y) /\ UNCHANGED <<store, replaced, outbox, blobs>>
    BY <1>4 DEF Rebatch, device, remote
  <2> HIDE DEF y
  <2> QED
    BY <2>1, <2>2, KeptStep
<1>5. ASSUME PutManifest(r) PROVE WrittenInv'
  <2> DEFINE y == [x EXCEPT !.at = "save"]
  <2>1. y.todo \cup y.rows \subseteq Written
    BY <1>0, <1>5 DEF PutManifest, Run
  <2>2. Become(r, y) /\ UNCHANGED <<store, replaced, outbox, blobs>>
    BY <1>5 DEF PutManifest, device, remote
  <2> HIDE DEF y
  <2> QED
    BY <2>1, <2>2, KeptStep
<1>6. ASSUME SaveEpoch(r) PROVE WrittenInv'
  <2> DEFINE y == [x EXCEPT !.at = "config"]
  <2>1. y.todo \cup y.rows \subseteq Written
    BY <1>0, <1>6 DEF SaveEpoch, Run
  <2>2. Become(r, y) /\ UNCHANGED <<store, replaced, outbox, blobs>>
    BY <1>6 DEF SaveEpoch, device, remote
  <2> HIDE DEF y
  <2> QED
    BY <2>1, <2>2, KeptStep
<1>7. ASSUME WriteConfig(r) PROVE WrittenInv'
  BY <1>7, DoneStep DEF WriteConfig, remote, WrittenInv
<1> QED
  BY <1>1, <1>2, <1>3, <1>4, <1>5, <1>6, <1>7 DEF Rotate

\* Purge uploads nothing.
LEMMA PurgeWritten ==
    ASSUME TypeOK, WrittenInv, NEW r \in Runner, Purge(r)
    PROVE  WrittenInv'
<1> DEFINE x == run[r]
<1>0. x \in Run /\ x.todo \subseteq Written /\ x.rows \subseteq Written
  BY HomeFields DEF WrittenInv
<1>1. ASSUME StartPurge(r) PROVE WrittenInv'
  <2> DEFINE l == Loaded(r, "purge", "delete")
             y == [l EXCEPT !.routes = blobs]
  <2>1. l \in Run
    BY LoadedType DEF Commands, Phases
  <2>2. l.todo = {} /\ l.rows = {}
    BY DEF Loaded, Idle
  <2>3. y.todo \cup y.rows \subseteq Written
    <3> HIDE DEF l
    <3> QED
      BY <2>1, <2>2 DEF Run
  <2>4. Become(r, y) /\ UNCHANGED <<store, replaced, outbox, blobs>>
    BY <1>1 DEF StartPurge, device, remote
  <2> HIDE DEF y
  <2> QED
    BY <2>3, <2>4, KeptStep
<1>2. ASSUME NEW k \in x.routes, DeleteStale(r, k) PROVE WrittenInv'
  <2> DEFINE y == [x EXCEPT !.routes = @ \ {k}]
  <2>1. y.todo = x.todo /\ y.rows = x.rows
    BY <1>0 DEF Run
  <2>2. Become(r, y) /\ UNCHANGED <<store, replaced, outbox>> /\ blobs' \subseteq blobs
    BY <1>2 DEF DeleteStale, device
  <2> HIDE DEF y
  <2> QED
    BY <1>0, <2>1, <2>2, RunnerStep DEF WrittenInv
<1>3. ASSUME EndPurge(r) PROVE WrittenInv'
  BY <1>3, DoneStep DEF EndPurge, device, remote, WrittenInv
<1> QED
  BY <1>1, <1>2, <1>3 DEF Purge

\* A device writes.
LEMMA LiveWritten ==
    ASSUME TypeOK, WrittenInv, NEW d \in Device, Live(d)
    PROVE  WrittenInv'
<1>1. UNCHANGED <<run, blobs>>
  BY DEF Live, Write, Rewrite, Upgrade, Compact, LoseOutbox, remote
<1>2. Written \subseteq Written' /\ \A c \in Device : outbox'[c] \subseteq Written'
  <2>1. ASSUME NEW e \in Entry, Write(d, e)
        PROVE  Written' = Written \cup {e} /\ \A c \in Device : outbox'[c] \subseteq outbox[c] \cup {e}
    BY <2>1 DEF Write, Written, TypeOK
  <2>2. ASSUME NEW e \in Entry, Rewrite(d, e)
        PROVE  Written' = Written \cup {e} /\ UNCHANGED outbox
    BY <2>2 DEF Rewrite, Versions, Written, TypeOK
  <2>3. CASE ~\E e \in Entry : Write(d, e) \/ Rewrite(d, e)
    <3>1. UNCHANGED <<store, replaced>> /\ \A c \in Device : outbox'[c] \subseteq outbox[c]
      BY <2>3 DEF Live, Upgrade, Compact, LoseOutbox, TypeOK
    <3>2. Written' = Written
      BY <3>1 DEF Written
    <3> QED
      BY <3>1, <3>2 DEF WrittenInv
  <2> QED
    BY <2>1, <2>2, <2>3 DEF WrittenInv
<1> QED
  BY <1>1, <1>2 DEF WrittenInv

\* Every step preserves WrittenInv.
LEMMA WrittenNext == TypeOK /\ WrittenInv /\ [Next]_vars => WrittenInv'
<1> SUFFICES ASSUME TypeOK, WrittenInv, [Next]_vars PROVE WrittenInv'
  OBVIOUS
<1>1. CASE UNCHANGED vars
  BY <1>1 DEF WrittenInv, Written, vars, device, remote
<1>2. ASSUME NEW r \in Runner, NEW some \in SUBSET Entry, Crash(r, some) PROVE WrittenInv'
  BY <1>2, DoneStep DEF Crash, remote, WrittenInv
<1>3. CASE Next
  BY <1>2, <1>3, LiveWritten, PushWritten, PullWritten, RotateWritten, PurgeWritten DEF Next
<1> QED
  BY <1>1, <1>3

\* Whose step it is tells what its device decides to insert.
LEMMA AimStep ==
    ASSUME TypeOK, NEW r \in Runner, NEW next, Become(r, next)
    PROVE  /\ \A d \in Device \ {Home[r]} : Inserting(d)' = Inserting(d)
           /\ Inserting(Home[r])' \subseteq Inserting(Home[r]) \cup Aim(next)
           /\ Inserting(Home[r]) \subseteq Inserting(Home[r])' \cup Aim(run[r])
           /\ Aim(next) \subseteq Inserting(Home[r])'
<1>1. run'[r] = next /\ \A s \in Runner \ {r} : run'[s] = run[s]
  BY DEF Become, TypeOK
<1> HIDE DEF Aim
<1> QED
  BY <1>1 DEF Inserting

\* A step of a runner that decides nothing and carries nothing out.
LEMMA AimKept ==
    ASSUME TypeOK, NEW r \in Runner, NEW next, Become(r, next),
           run[r].at # "upsert", next.at # "upsert"
    PROVE  \A d \in Device : Inserting(d)' = Inserting(d)
<1>1. Aim(run[r]) = {} /\ Aim(next) = {}
  BY DEF Aim
<1> QED
  BY <1>1, AimStep

\* Push decides nothing about the store.
LEMMA PushAim ==
    ASSUME TypeOK, NEW r \in Runner, Push(r)
    PROVE  \A d \in Device : Inserting(d)' = Inserting(d)
<1>1. run[r].at # "upsert"
  BY DEF Push, StartPush, Sweep, SweepAborts, Put, PutAborts, Stamp, PutBatch, Ack
<1>2. PICK y : Become(r, y) /\ ~Pulling(y)
  BY PushAway
<1> QED
  BY <1>1, <1>2, AimKept DEF Pulling

\* Nor does rotation.
LEMMA RotateAim ==
    ASSUME TypeOK, NEW r \in Runner, Rotate(r)
    PROVE  \A d \in Device : Inserting(d)' = Inserting(d)
<1>1. run[r].at # "upsert"
  BY DEF Rotate, StartRotate, Roster, Reput, Rebatch, PutManifest, SaveEpoch, WriteConfig
<1>2. PICK y : Become(r, y) /\ ~Pulling(y)
  BY RotateAway
<1> QED
  BY <1>1, <1>2, AimKept DEF Pulling

\* Nor does a purge.
LEMMA PurgeAim ==
    ASSUME TypeOK, NEW r \in Runner, Purge(r)
    PROVE  \A d \in Device : Inserting(d)' = Inserting(d)
<1> DEFINE x == run[r]
<1>0. x \in Run
  BY HomeFields
<1>1. x.at # "upsert"
  BY DEF Purge, StartPurge, DeleteStale, EndPurge
<1>2. CASE StartPurge(r)
  <2> DEFINE w == Loaded(r, "purge", "delete")
             l == [w EXCEPT !.routes = blobs]
  <2>1. w \in Run /\ w.at = "delete"
    BY LoadedType DEF Loaded, Idle, Commands, Phases
  <2>2. Become(r, l)
    BY <1>2 DEF StartPurge
  <2> HIDE DEF w
  <2>3. l.at # "upsert"
    BY <2>1 DEF Run
  <2> QED
    BY <1>1, <2>2, <2>3, AimKept
<1>3. ASSUME NEW k \in x.routes, DeleteStale(r, k)
      PROVE  \A d \in Device : Inserting(d)' = Inserting(d)
  <2> DEFINE y == [x EXCEPT !.routes = @ \ {k}]
  <2>1. Become(r, y) /\ y.at # "upsert"
    BY <1>0, <1>1, <1>3 DEF DeleteStale, Run
  <2> QED
    BY <1>1, <2>1, AimKept
<1>4. CASE EndPurge(r)
  BY <1>1, <1>4, AimKept DEF EndPurge, Finish, Idle
<1> QED
  BY <1>2, <1>3, <1>4 DEF Purge

\* A step of a pull: where its runner is afterwards, and how it came to be
\* about to insert.
LEMMA PullMoves ==
    ASSUME TypeOK, NEW r \in Runner, Pull(r)
    PROVE  /\ Become(r, run'[r])
           /\ \A s \in Runner \ {r} : run'[s] = run[s]
           /\ run'[r].at \in {"idle", "fetch", "upsert"}
           /\ run'[r].op \in {run[r].op, "idle"} \cup Ops
           /\ run[r].at = "upsert" => \E e \in run[r].todo : Upsert(r, e)
           /\ run'[r].at = "upsert" =>
                 \E k \in run[r].routes :
                     /\ Apply(r, k)
                     /\ Versions(Home[r], k.evt.id) = {}
                     /\ Aim(run'[r]) = {k.evt}
<1> DEFINE x == run[r]
           z == run'[r]
           Stays == z.at \in {"idle", "fetch"} /\ z.op \in {x.op, "idle"} \cup Ops
<1>0. x \in Run
  BY HomeFields
<1>b. \A next : Become(r, next) => /\ z = next /\ Become(r, z)
                                   /\ \A s \in Runner \ {r} : run'[s] = run[s]
  BY DEF Become, TypeOK
<1>m. \E next : Become(r, next)
  BY DEF Pull, StartPull, OpenBatch, MissingBatch, Pass, Halt, Quarantine, Apply, Upsert,
         SavePull, Finish
<1>1. ASSUME NEW op \in {"pull", "skip"}, StartPull(r, op) PROVE Stays /\ x.at = "idle"
  <2> DEFINE w == Loaded(r, op, "fetch")
             l == [w EXCEPT !.unseen = batches \ pulled[Home[r]]]
  <2>1. w \in Run
    BY LoadedType DEF Commands, Phases
  <2>2. w.op = op /\ w.at = "fetch"
    BY DEF Loaded, Idle
  <2>3. op \in Ops /\ x.at = "idle" /\ z = l
    BY <1>1, <1>b DEF StartPull
  <2> HIDE DEF w
  <2>4. l.op = op /\ l.at = "fetch"
    BY <2>1, <2>2 DEF Run
  <2> QED
    BY <2>3, <2>4
<1>2. ASSUME Finish(r) PROVE Stays
  BY <1>2, <1>b DEF Finish, Idle
<1>3. ASSUME NEW b \in x.unseen, OpenBatch(r, b) PROVE Stays /\ x.at = "fetch"
  <2> DEFINE y == [x EXCEPT !.unseen = @ \ {b}, !.opened = @ \cup {b}, !.routes = b]
  <2>1. y.at = x.at /\ y.op = x.op
    BY <1>0 DEF Run
  <2>2. x.at = "fetch" /\ z = y
    BY <1>3, <1>b DEF OpenBatch
  <2> QED
    BY <2>1, <2>2
<1>4. ASSUME NEW b \in x.unseen, MissingBatch(r, b) PROVE Stays /\ x.at = "fetch"
  <2> DEFINE y == [x EXCEPT !.unseen = @ \ {b}]
  <2>1. y.at = x.at /\ y.op = x.op
    BY <1>0 DEF Run
  <2>2. x.at = "fetch" /\ z = y
    BY <1>4, <1>b DEF MissingBatch
  <2> QED
    BY <2>1, <2>2
<1>5. ASSUME NEW k \in x.routes, Pass(r, k) PROVE Stays /\ x.at = "fetch"
  <2> DEFINE y == [x EXCEPT !.routes = @ \ {k}]
  <2>1. y.at = x.at /\ y.op = x.op
    BY <1>0 DEF Run
  <2>2. x.at = "fetch" /\ z = y
    BY <1>5, <1>b DEF Pass, Fetching
  <2> QED
    BY <2>1, <2>2
<1>6. ASSUME NEW k \in x.routes, Quarantine(r, k) PROVE Stays /\ x.at = "fetch"
  <2> DEFINE y == [x EXCEPT !.routes = @ \ {k}, !.done = @ \cup {k.evt},
                            !.held = @ \cup {k.evt}]
  <2>1. y.at = x.at /\ y.op = x.op
    BY <1>0 DEF Run
  <2>2. x.at = "fetch" /\ z = y
    BY <1>6, <1>b DEF Quarantine, Readable, Fetching
  <2> QED
    BY <2>1, <2>2
<1>7. ASSUME NEW k \in x.routes, Apply(r, k)
      PROVE  /\ x.at = "fetch" /\ z.op = x.op
             /\ Stays \/ /\ Versions(Home[r], k.evt.id) = {}
                         /\ z.at = "upsert"
                         /\ Aim(z) = {k.evt}
  <2> DEFINE local == Versions(Home[r], k.evt.id)
             i == Inserts(r, k)
             y == [x EXCEPT !.routes = @ \ {k}, !.done = @ \cup {k.evt},
                            !.rows = IF local = {k.evt} THEN @ ELSE @ \cup {k.evt}]
  <2>1. i.at = "upsert" /\ i.todo = {k.evt} /\ i.op = x.op
    BY <1>0 DEF Inserts, Run
  <2>2. y.at = x.at /\ y.op = x.op
    BY <1>0 DEF Run
  <2>3. x.at = "fetch" /\ z = IF local = {} THEN i ELSE y
    BY <1>7, <1>b DEF Apply, Applicable, Readable, Fetching
  <2> HIDE DEF i, y
  <2> QED
    BY <2>1, <2>2, <2>3 DEF Aim
<1>8. ASSUME NEW e \in x.todo, Upsert(r, e) PROVE Stays
  <2> DEFINE y == [x EXCEPT !.at = "fetch", !.todo = {}]
  <2>1. y.at = "fetch" /\ y.op = x.op
    BY <1>0 DEF Run
  <2>2. z = y
    BY <1>8, <1>b DEF Upsert
  <2> QED
    BY <2>1, <2>2
<1>9. ASSUME SavePull(r) PROVE Stays /\ x.at = "fetch"
  BY <1>2, <1>9 DEF SavePull
<1>10. ASSUME NEW k \in x.routes, Halt(r, k) PROVE Stays /\ x.at = "fetch"
  BY <1>2, <1>10 DEF Halt, Fetching
<1> HIDE DEF x, z
<1> QED
  BY <1>b, <1>m, <1>1, <1>3, <1>4, <1>5, <1>6, <1>7, <1>8, <1>9, <1>10 DEF Pull, x, z

\* Initial states map to initial states.
LEMMA AbstractInit == Init => Replicas!Init
<1> SUFFICES ASSUME Init PROVE Replicas!Init
  OBVIOUS
<1>1. \A d \in Device : Inserting(d) = {}
  BY DEF Init, Inserting, Aim, Idle
<1> QED
  BY <1>1, SyncAssumption DEF Init, Replicas!Init, Written

\* A step that leaves stores, objects and decisions alone is a stutter.
LEMMA AbstractStutter ==
    ASSUME UNCHANGED <<store, replaced, blobs, conflicts>>,
           \A d \in Device : Inserting(d)' = Inserting(d)
    PROVE  UNCHANGED Replicas!vars
<1>1. Written' = Written
  BY DEF Written
<1> QED
  BY <1>1 DEF Replicas!vars

\* What no runner does leaves every decision alone.
LEMMA AimUnchanged ==
    ASSUME UNCHANGED run
    PROVE  \A d \in Device : Inserting(d)' = Inserting(d)
BY DEF Inserting

\* Uploading an object is an Offer.
LEMMA AbstractOffer ==
    ASSUME WrittenInv, NEW e \in Entry, NEW k, e \in Written,
           blobs' = blobs \cup {RouteOf(e, k)}, UNCHANGED <<store, replaced, conflicts>>,
           \A d \in Device : Inserting(d)' = Inserting(d)
    PROVE  Replicas!Next
<1>1. Written' = Written
  BY DEF Written
<1>2. {l.evt : l \in blobs'} = {l.evt : l \in blobs} \cup {e}
  <2>1. RouteOf(e, k).evt = e
    BY DEF RouteOf
  <2> QED
    BY <2>1
<1>3. Replicas!Offer(e)
  BY <1>1, <1>2 DEF Replicas!Offer
<1> QED
  BY <1>3 DEF Replicas!Next

\* A device that writes takes a Write step.
LEMMA LiveRefines ==
    ASSUME TypeOK, NEW d \in Device, Live(d)
    PROVE  [Replicas!Next]_(Replicas!vars)
<1>1. ASSUME NEW e \in Entry, Write(d, e) \/ Rewrite(d, e) PROVE Replicas!Next
  <2>1. store' = [store EXCEPT ![d] = {f \in @ : f.id # e.id} \cup {e}]
    BY <1>1 DEF Write, Rewrite, Versions, TypeOK
  <2>2. Written' = Written \cup {e}
    <3>1. CASE Write(d, e)
      BY <3>1 DEF Write, Written, TypeOK
    <3>2. CASE Rewrite(d, e)
      BY <3>2 DEF Rewrite, Versions, Written, TypeOK
    <3> QED
      BY <1>1, <3>1, <3>2
  <2>3. UNCHANGED <<blobs, conflicts>> /\ \A c \in Device : Inserting(c)' = Inserting(c)
    BY <1>1, AimUnchanged DEF Write, Rewrite, remote
  <2>4. Replicas!Write(d, e)
    BY <2>1, <2>2, <2>3 DEF Replicas!Write, Replicas!Put
  <2> QED
    BY <2>4 DEF Replicas!Next
<1>2. CASE ~\E e \in Entry : Write(d, e) \/ Rewrite(d, e)
  BY <1>2, AbstractStutter, AimUnchanged DEF Live, Upgrade, Compact, LoseOutbox, remote
<1> QED
  BY <1>1, <1>2

\* Push offers, or stutters.
LEMMA PushRefines ==
    ASSUME TypeOK, WrittenInv, NEW r \in Runner, Push(r)
    PROVE  [Replicas!Next]_(Replicas!vars)
<1>1. ASSUME NEW e \in run[r].todo, Put(r, e) PROVE Replicas!Next
  <2>1. e \in Entry /\ e \in Written
    BY HomeFields, RunFields DEF WrittenInv
  <2> QED
    BY <1>1, <2>1, PushAim, AbstractOffer DEF Put, device
<1>2. CASE ~\E e \in run[r].todo : Put(r, e)
  BY <1>2, PushAim, AbstractStutter
     DEF Push, StartPush, Sweep, SweepAborts, PutAborts, Stamp, PutBatch, Ack, device, remote
<1> QED
  BY <1>1, <1>2

\* Pull decides, inserts, records, or stutters.
LEMMA PullRefines ==
    ASSUME TypeOK, WrittenInv, NEW r \in Runner, Pull(r)
    PROVE  [Replicas!Next]_(Replicas!vars)
<1> DEFINE d == Home[r]
           Same == \A c \in Device : Inserting(c)' = Inserting(c)
<1>0. d \in Device /\ run[r].rows \in SUBSET Entry /\ run[r].rows \subseteq Written
      /\ run[r].routes \subseteq Route /\ run[r].todo \subseteq Entry
  BY HomeFields, RunFields DEF WrittenInv
<1>s. run[r].at # "upsert" /\ run'[r].at # "upsert" => Same
  BY PullMoves, AimKept
<1>1. CASE run'[r].at = "upsert"
  <2>1. PICK k \in run[r].routes : /\ Apply(r, k) /\ Versions(d, k.evt.id) = {}
                                   /\ Aim(run'[r]) = {k.evt}
    BY <1>1, PullMoves
  <2>2. k \in blobs /\ k.evt \in Entry /\ Aim(run[r]) = {}
    BY <1>0, <2>1 DEF Apply, Applicable, Readable, Fetching, Route, Aim
  <2>3. UNCHANGED <<store, replaced, blobs, conflicts>>
    BY <2>1 DEF Apply, device, remote
  <2>4. Written' = Written
    BY <2>3 DEF Written
  <2>5. /\ Inserting(d)' = Inserting(d) \cup {k.evt}
        /\ \A c \in Device \ {d} : Inserting(c)' = Inserting(c)
    BY <2>1, <2>2, PullMoves, AimStep
  <2>6. ~Replicas!Holds(d, k.evt.id)
    BY <2>1 DEF Replicas!Holds, Versions
  <2>7. Replicas!Decide(d, k.evt)
    BY <1>0, <2>2, <2>3, <2>4, <2>5, <2>6 DEF Replicas!Decide
  <2> QED
    BY <1>0, <2>2, <2>7 DEF Replicas!Next
<1>2. CASE run[r].at = "upsert"
  <2>1. PICK e \in run[r].todo : Upsert(r, e)
    BY <1>2, PullMoves
  <2>2. /\ store' = [store EXCEPT ![d] = {f \in @ : f.id # e.id} \cup {e}]
        /\ UNCHANGED <<blobs, conflicts>>
    BY <1>0, <2>1 DEF Upsert, Versions, remote, TypeOK
  <2>3. Written' = Written
    BY <2>1, UpsertWrites
  <2>4. run'[r].at # "upsert"
    BY <1>0, <2>1, HomeFields DEF Upsert, Become, TypeOK, Run
  <2>5. Aim(run'[r]) = {} /\ e \in Aim(run[r]) /\ e \in Entry
    BY <1>0, <1>2, <2>4 DEF Aim
  <2>6. /\ Inserting(d)' \subseteq Inserting(d)
        /\ \A c \in Device \ {d} : Inserting(c)' = Inserting(c)
    BY <2>5, PullMoves, AimStep
  <2>7. e \in Inserting(d)
    BY <2>5 DEF Inserting
  <2>8. Replicas!Deliver(d, e)
    BY <1>0, <2>2, <2>3, <2>6, <2>7 DEF Replicas!Deliver, Replicas!Put, Replicas!Settle
  <2> QED
    BY <1>0, <2>5, <2>8 DEF Replicas!Next
<1>3. CASE SavePull(r)
  <2>1. /\ UNCHANGED <<store, replaced, blobs>>
        /\ conflicts' = [conflicts EXCEPT ![d] = @ \cup run[r].rows]
        /\ run[r].at = "fetch" /\ Finish(r)
    BY <1>3 DEF SavePull, remote
  <2>2. Written' = Written
    BY <2>1 DEF Written
  <2>3. Same
    BY <2>1, AimKept DEF Finish, Idle
  <2>4. Replicas!Record(d, run[r].rows)
    BY <1>0, <2>1, <2>2, <2>3 DEF Replicas!Record
  <2> QED
    BY <1>0, <2>4 DEF Replicas!Next
<1>4. CASE run[r].at # "upsert" /\ run'[r].at # "upsert" /\ ~SavePull(r)
  <2>1. UNCHANGED <<store, replaced, blobs, conflicts>>
    BY <1>4 DEF Pull, StartPull, OpenBatch, MissingBatch, Pass, Halt, Quarantine, Apply, Upsert,
                device, remote
  <2> QED
    BY <1>4, <1>s, <2>1, AbstractStutter
<1> QED
  BY <1>1, <1>2, <1>3, <1>4

\* Rotation offers, withdraws, or stutters.
LEMMA RotateRefines ==
    ASSUME TypeOK, WrittenInv, NEW r \in Runner, Rotate(r)
    PROVE  [Replicas!Next]_(Replicas!vars)
<1>1. ASSUME NEW e \in run[r].todo, Reput(r, e) PROVE Replicas!Next
  <2>1. e \in Entry /\ e \in Written
    BY HomeFields, RunFields DEF WrittenInv
  <2> QED
    BY <1>1, <2>1, RotateAim, AbstractOffer DEF Reput, device
<1>2. CASE ~\E e \in run[r].todo : Reput(r, e)
  BY <1>2, RotateAim, AbstractStutter
     DEF Rotate, StartRotate, Roster, Rebatch, PutManifest, SaveEpoch, WriteConfig, device,
         remote
<1> QED
  BY <1>1, <1>2

\* Purge withdraws, or stutters.
LEMMA PurgeRefines ==
    ASSUME TypeOK, NEW r \in Runner, Purge(r)
    PROVE  [Replicas!Next]_(Replicas!vars)
<1>1. ASSUME NEW k \in run[r].routes, DeleteStale(r, k) PROVE Replicas!Next
  <2> DEFINE events(s) == {l.evt : l \in s}
             gone == events(blobs) \ events(blobs')
  <2>1. /\ UNCHANGED <<store, replaced, conflicts>> /\ blobs' \subseteq blobs
        /\ \A c \in Device : Inserting(c)' = Inserting(c)
    BY <1>1, PurgeAim DEF DeleteStale, device
  <2>2. Written' = Written
    BY <2>1 DEF Written
  <2>3. events(blobs') = events(blobs) \ gone
    BY <2>1
  <2>4. gone \in SUBSET Entry
    BY DEF TypeOK, Route
  <2>5. Replicas!Withdraw(gone)
    BY <2>1, <2>2, <2>3 DEF Replicas!Withdraw
  <2> HIDE DEF gone
  <2>6. \E g \in SUBSET Entry : Replicas!Withdraw(g)
    BY <2>4, <2>5 DEF Replicas!Withdraw
  <2> QED
    BY <2>6 DEF Replicas!Next
<1>2. CASE ~\E k \in run[r].routes : DeleteStale(r, k)
  BY <1>2, PurgeAim, AbstractStutter DEF Purge, StartPurge, EndPurge, device, remote
<1> QED
  BY <1>1, <1>2

\* Every step is an abstract step or a stutter.
LEMMA StepRefines ==
    TypeOK /\ WrittenInv /\ [Next]_vars => [Replicas!Next]_(Replicas!vars)
<1> SUFFICES ASSUME TypeOK, WrittenInv, [Next]_vars
             PROVE  [Replicas!Next]_(Replicas!vars)
  OBVIOUS
<1>1. CASE UNCHANGED vars
  BY <1>1, AimUnchanged, AbstractStutter DEF vars, device, remote
<1>2. ASSUME NEW r \in Runner, NEW some \in SUBSET Entry, Crash(r, some)
      PROVE  [Replicas!Next]_(Replicas!vars)
  <2>1. UNCHANGED <<store, replaced, blobs, conflicts>>
    BY <1>2 DEF Crash, remote
  <2>2. Written' = Written
    BY <2>1 DEF Written
  <2>3. Become(r, Idle) /\ Aim(Idle) = {}
    BY <1>2 DEF Crash, Finish, Aim, Idle
  <2>4. /\ Inserting(Home[r])' \subseteq Inserting(Home[r])
        /\ \A c \in Device \ {Home[r]} : Inserting(c)' = Inserting(c)
    BY <2>3, AimStep
  <2>5. Home[r] \in Device
    BY HomeFields
  <2>6. Replicas!Forget(Home[r])
    BY <2>1, <2>2, <2>4, <2>5 DEF Replicas!Forget, Replicas!Settle
  <2> QED
    BY <2>5, <2>6 DEF Replicas!Next
<1>3. CASE Next
  BY <1>2, <1>3, LiveRefines, PushRefines, PullRefines, RotateRefines, PurgeRefines DEF Next
<1> QED
  BY <1>1, <1>3

\* The engine implements ReplicaSet (ImplementsReplicaSet), for any devices,
\* keys, commands and faults.  A pull decides to insert only a version whose id
\* it found absent, and what it inserts was written by some device and uploaded;
\* a version it replaces was written between its look and its insertion.
THEOREM EngineImplementsReplicaSet == Spec => ImplementsReplicaSet
<1>1. TypeInv => TypeOK
  BY DEF TypeInv
<1>2. TypeOK /\ WrittenInv /\ [Next]_vars => WrittenInv'
  BY WrittenNext
<1> QED
  BY <1>1, <1>2, TypeAlways, WrittenInit, AbstractInit, StepRefines, PTL
     DEF Spec, ImplementsReplicaSet, Replicas!Spec

-----------------------------------------------------------------------------
(* RosterCurrent: the roster follows the key.  One command at a time on a  *)
(* device, purges as docs/memory-sync.md asks for them, and no backfill of *)
(* what was compacted or lost: it stages acked events that no rotation     *)
(* since has re-encrypted.  What is acked and staged is on the remote and  *)
(* listed under the device's key, because a push acks last, a rotation     *)
(* covers the whole roster before it changes keys, and a purge deletes     *)
(* only what is older than every device's key.                             *)

Alone == \A r, s \in Runner : Home[r] = Home[s] => r = s
PurgesFollowDocs == "purge" \in Ops => Disciplined
NothingDropped == "compact" \notin Ops /\ "lose" \notin Faults
NothingReturns == "backfill" \in Ops => NothingDropped

RosterAssumption == Alone /\ PurgesFollowDocs /\ NothingReturns

Had(d) == store[d] \cup replaced[d]
Available(e, k) == RouteOf(e, k) \in blobs
Listed(e, k) == \E b \in batches : RouteOf(e, k) \in b

\* What was written over left a version of its id: no id comes back as new.
Outlived(d) == \A e \in replaced[d] : Versions(d, e.id) # {}

\* What is staged or acked is from this device.
Origin(d) ==
    /\ acked[d] \cup outbox[d] \subseteq Had(d)
    /\ Outlived(d)
    /\ NothingDropped => acked[d] \ Baseline[d] \subseteq outbox[d]

Covered(d) ==
    \A e \in (acked[d] \cap outbox[d]) \ Baseline[d] :
        Available(e, key[d]) /\ Listed(e, key[d])

\* A push, or the drain of a rotation: objects, batch, acks.
Pushing(x, d) ==
    x.at \in {"put", "batch", "ack"} =>
        /\ x.todo \cup x.done \subseteq Had(d)
        /\ NothingDropped => x.todo \cup x.done \subseteq outbox[d]
        /\ \A e \in x.done : Available(e, x.key)
        /\ x.at = "ack" => \A e \in x.done : Listed(e, x.key)

\* A rotation past its drain: what is put and what is to put is the roster.
Rostering(x, d) ==
    x.at \in {"reput", "manifest", "save", "config"} =>
        /\ outbox[d] \cap acked[d] \subseteq x.todo \cup x.done
        /\ \A e \in x.done : Available(e, x.key)
        /\ x.at # "reput" => x.todo = {} /\ \A e \in x.done : Listed(e, x.key)

\* The key a command works with, and the keys a purge may delete.
Keyed(x, d) ==
    /\ x.op \in Ops \cup {"idle"}
    /\ x.at = "sweep" => x.done = {}
    /\ x.at \in {"sweep", "put", "batch", "ack", "roster"} => x.key = key[d]
    /\ x.at \in {"reput", "manifest", "save", "config"} => x.key = key[d] + 1
    /\ x.at = "delete" => /\ \A y \in Device : x.key <= key[y]
                          /\ \A k \in x.routes : k.key <= x.key

RunOK(x, d) == Pushing(x, d) /\ Rostering(x, d) /\ Keyed(x, d)

RosterInv ==
    /\ \A d \in Device : Origin(d) /\ Covered(d)
    /\ \A r \in Runner : RunOK(run[r], Home[r])

\* Keys only go up, batches stay, and only objects of old keys disappear.
Spared ==
    /\ \A d \in Device : key[d] <= key'[d]
    /\ batches \subseteq batches'
    /\ \A k \in blobs \ blobs' : \A d \in Device : k.key < key[d]

\* An object of a key some device uses, or of a later one, stays.
LEMMA ObjectsSpared ==
    ASSUME TypeOK, Spared
    PROVE  /\ \A d \in Device : \A e \in Entry, k \in Nat :
                  key[d] <= k /\ Available(e, k) => Available(e, k)'
           /\ \A e \in Entry, k \in Nat : Listed(e, k) => Listed(e, k)'
<1>1. ASSUME NEW d \in Device, NEW e \in Entry, NEW k \in Nat, key[d] <= k,
             RouteOf(e, k) \in blobs
      PROVE  RouteOf(e, k) \in blobs'
  <2>1. RouteOf(e, k).key = k
    BY DEF RouteOf
  <2>2. key[d] \in Nat
    BY SyncAssumption DEF TypeOK, Key
  <2> QED
    BY <1>1, <2>1, <2>2 DEF Spared
<1> QED
  BY <1>1 DEF Available, Listed, Spared

\* A device whose staged and acked events and whose key stay the same.
LEMMA DeviceKept ==
    ASSUME TypeOK, Spared, NEW d \in Device, Origin(d), Covered(d),
           Had(d) \subseteq Had(d)', Outlived(d)',
           acked'[d] = acked[d], outbox'[d] = outbox[d], key'[d] = key[d]
    PROVE  Origin(d)' /\ Covered(d)'
<1>1. Origin(d)'
  BY DEF Origin, NothingDropped
<1>2. ASSUME NEW e \in (acked'[d] \cap outbox'[d]) \ Baseline[d]
      PROVE  Available(e, key[d])' /\ Listed(e, key[d])'
  <2>1. e \in Entry /\ key[d] \in Nat
    BY <1>2, SyncAssumption DEF TypeOK, Key
  <2> DEFINE k == key[d]
  <2>2. Available(e, k) /\ Listed(e, k) /\ key[d] <= k
    BY <1>2, <2>1 DEF Covered
  <2>3. RouteOf(e, k) \in blobs' /\ \E b \in batches' : RouteOf(e, k) \in b
    BY <2>1, <2>2, ObjectsSpared DEF Available, Listed
  <2> QED
    BY <2>3 DEF Available, Listed
<1> QED
  BY <1>1, <1>2 DEF Covered

\* A command whose device keeps its key, and loses nothing it counts on.
LEMMA RunKept ==
    ASSUME TypeOK, TypeOK', Spared,
           NEW r \in Runner, RunOK(run[r], Home[r]), run'[r] = run[r],
           Had(Home[r]) \subseteq Had(Home[r])', key'[Home[r]] = key[Home[r]],
           outbox'[Home[r]] \cap acked'[Home[r]] \subseteq outbox[Home[r]] \cap acked[Home[r]],
           NothingDropped => outbox[Home[r]] \subseteq outbox'[Home[r]]
    PROVE  RunOK(run[r], Home[r])'
<1> DEFINE x == run[r]
           d == Home[r]
<1>0. /\ d \in Device /\ x \in Run /\ x.key \in Nat /\ x.done \subseteq Entry
      /\ key[d] \in Nat
  BY HomeFields, RunFields, SyncAssumption DEF Key
<1>1. \A e \in x.done : x.key >= key[d] =>
        /\ Available(e, x.key) => RouteOf(e, x.key) \in blobs'
        /\ Listed(e, x.key) => \E b \in batches' : RouteOf(e, x.key) \in b
  BY <1>0, ObjectsSpared DEF Available, Listed
<1>2. x.at \in {"put", "batch", "ack", "reput", "manifest", "save", "config"}
        => x.key >= key[d]
  BY <1>0 DEF RunOK, Keyed
<1>3. Pushing(x, d)'
  <2> SUFFICES ASSUME x.at \in {"put", "batch", "ack"}
               PROVE  Pushing(x, d)'
    BY DEF Pushing
  <2> QED
    BY <1>1, <1>2 DEF RunOK, Pushing, Available, Listed, NothingDropped
<1>4. Rostering(x, d)'
  <2> SUFFICES ASSUME x.at \in {"reput", "manifest", "save", "config"}
               PROVE  Rostering(x, d)'
    BY DEF Rostering
  <2> QED
    BY <1>1, <1>2 DEF RunOK, Rostering, Available, Listed
<1>5. Keyed(x, d)'
  <2>1. \A y \in Device : key[y] \in Nat /\ key'[y] \in Nat
    BY SyncAssumption DEF TypeOK, Key
  <2>2. (\A y \in Device : x.key <= key[y]) => \A y \in Device : x.key <= key'[y]
    BY <1>0, <2>1 DEF Spared
  <2>3. Keyed(x, d)
    BY DEF RunOK
  <2> QED
    BY <2>2, <2>3 DEF Keyed
<1> QED
  BY <1>3, <1>4, <1>5 DEF RunOK

\* One command moves, and no other device is touched.
LEMMA OneRosterStep ==
    ASSUME RosterAssumption, TypeOK, TypeOK', RosterInv, Spared, NEW r \in Runner,
           \A s \in Runner \ {r} : run'[s] = run[s],
           \A d \in Device \ {Home[r]} :
               /\ store'[d] = store[d] /\ replaced'[d] = replaced[d]
               /\ outbox'[d] = outbox[d] /\ acked'[d] = acked[d] /\ key'[d] = key[d],
           (Origin(Home[r]) /\ Covered(Home[r]))', RunOK(run[r], Home[r])'
    PROVE  RosterInv'
<1>1. ASSUME NEW d \in Device \ {Home[r]} PROVE (Origin(d) /\ Covered(d))'
  <2>1. Origin(d) /\ Covered(d)
    BY DEF RosterInv
  <2>2. Had(d) = Had(d)' /\ Outlived(d)'
    BY <2>1 DEF Had, Origin, Outlived, Versions
  <2> QED
    BY <2>1, <2>2, DeviceKept
<1>2. ASSUME NEW s \in Runner \ {r} PROVE RunOK(run[s], Home[s])'
  <2>1. Home[s] \in Device \ {Home[r]}
    BY HomeFields DEF RosterAssumption, Alone
  <2>2. Had(Home[s]) = Had(Home[s])'
    BY <2>1 DEF Had
  <2> QED
    BY <2>1, <2>2, RunKept DEF RosterInv
<1> QED
  BY <1>1, <1>2 DEF RosterInv

\* One command moves, no device changes, and the remote only grows.
LEMMA QuietRosterStep ==
    ASSUME RosterAssumption, TypeOK, TypeOK', RosterInv, NEW r \in Runner,
           \A s \in Runner \ {r} : run'[s] = run[s],
           UNCHANGED <<store, replaced, outbox, acked, key>>,
           blobs \subseteq blobs', batches \subseteq batches',
           RunOK(run[r], Home[r])'
    PROVE  RosterInv'
<1>1. Spared
  <2>1. \A d \in Device : key[d] \in Nat
    BY SyncAssumption DEF TypeOK, Key
  <2> QED
    BY <2>1 DEF Spared
<1>2. (Origin(Home[r]) /\ Covered(Home[r]))'
  <2>1. Home[r] \in Device
    BY HomeFields
  <2>2. Origin(Home[r]) /\ Covered(Home[r])
    BY <2>1 DEF RosterInv
  <2>3. Had(Home[r]) = Had(Home[r])' /\ Outlived(Home[r])'
    BY <2>1, <2>2 DEF Had, Origin, Outlived, Versions
  <2> QED
    BY <1>1, <2>1, <2>2, <2>3, DeviceKept
<1> QED
  BY <1>1, <1>2, OneRosterStep

\* A run that is idle, or in the middle of a pull, promises nothing here.
LEMMA AwayOK ==
    ASSUME NEW r \in Runner, run'[r].at \in {"idle", "fetch", "upsert"},
           run'[r].op \in Ops \cup {"idle"}
    PROVE  RunOK(run[r], Home[r])'
BY DEF RunOK, Pushing, Rostering, Keyed

\* The run that moves, and the others.
LEMMA BecomeRuns ==
    ASSUME TypeOK, NEW r \in Runner, NEW next \in Run, Become(r, next)
    PROVE  run'[r] = next /\ \A s \in Runner \ {r} : run'[s] = run[s]
BY DEF Become, TypeOK

\* A command that ends, and the others.
LEMMA FinishRuns ==
    ASSUME TypeOK, NEW r \in Runner, Finish(r)
    PROVE  /\ RunOK(run[r], Home[r])'
           /\ \A s \in Runner \ {r} : run'[s] = run[s]
<1>1. run'[r] = Idle /\ \A s \in Runner \ {r} : run'[s] = run[s]
  BY IdleIsRun, BecomeRuns DEF Finish
<1>2. run'[r].at = "idle" /\ run'[r].op = "idle"
  BY <1>1 DEF Idle
<1> QED
  BY <1>1, <1>2, AwayOK

\* A fresh device has nothing staged.
LEMMA RosterInit == Init => RosterInv
<1> SUFFICES ASSUME Init PROVE RosterInv
  OBVIOUS
<1>1. ASSUME NEW d \in Device PROVE Origin(d) /\ Covered(d)
  <2>1. acked[d] \subseteq Baseline[d] /\ outbox[d] = {} /\ replaced[d] = {}
        /\ store[d] = Baseline[d]
    BY SyncAssumption DEF Init
  <2> QED
    BY <2>1 DEF Origin, Covered, Had, Outlived
<1>2. ASSUME NEW r \in Runner PROVE RunOK(run[r], Home[r])
  <2>1. run[r].at = "idle" /\ run[r].op = "idle"
    BY DEF Init, Idle
  <2> QED
    BY <2>1 DEF RunOK, Pushing, Rostering, Keyed
<1> QED
  BY <1>1, <1>2 DEF RosterInv

\* What the device does outside of a command preserves RosterInv: the id of a
\* decision is written once, so what is staged anew was never acked.
LEMMA LiveRoster ==
    ASSUME TypeOK, TypeOK', RosterInv, NEW y \in Device, Live(y)
    PROVE  RosterInv'
<1>0. /\ run' = run /\ key' = key /\ acked' = acked
      /\ blobs' = blobs /\ batches' = batches
  BY DEF Live, Write, Rewrite, Upgrade, Compact, LoseOutbox, remote
<1>1. Spared
  <2>1. \A d \in Device : key[d] \in Nat
    BY SyncAssumption DEF TypeOK, Key
  <2> QED
    BY <1>0, <2>1 DEF Spared
<1> DEFINE Safe(d) ==
             /\ Had(d) \subseteq Had(d)'
             /\ Outlived(d)'
             /\ outbox'[d] \cap acked'[d] \subseteq outbox[d] \cap acked[d]
             /\ outbox'[d] \subseteq Had(d)'
             /\ NothingDropped => outbox[d] \subseteq outbox'[d]
<1>2. ASSUME NEW d \in Device PROVE Safe(d)
  <2>0. Origin(d)
    BY DEF RosterInv
  <2>w. ASSUME UNCHANGED <<store, replaced>> PROVE Outlived(d)' /\ Had(d)' = Had(d)
    BY <2>0, <2>w DEF Origin, Outlived, Versions, Had
  <2>1. ASSUME NEW e \in Entry, Write(y, e) PROVE Safe(d)
    <3>1. d = y => e \notin acked[d]
      BY <2>0, <2>1 DEF Origin, Outlived, Had, Write, Versions
    <3>2. /\ replaced' = replaced
          /\ store'[d] = store[d] \cup (IF d = y THEN {e} ELSE {})
          /\ outbox'[d] = outbox[d] \cup (IF d = y /\ e \in Decisions THEN {e} ELSE {})
      BY <2>1 DEF Write, TypeOK
    <3>3. Outlived(d)'
      BY <2>0, <3>2 DEF Origin, Outlived, Versions
    <3> QED
      BY <1>0, <2>0, <3>1, <3>2, <3>3 DEF Origin, Had
  <2>2. ASSUME NEW e \in Entry, Rewrite(y, e) PROVE Safe(d)
    <3>1. /\ outbox' = outbox
          /\ store'[d] = IF d = y THEN (store[d] \ Versions(d, e.id)) \cup {e} ELSE store[d]
          /\ replaced'[d] = replaced[d] \cup (IF d = y THEN Versions(d, e.id) ELSE {})
      BY <2>2 DEF Rewrite, TypeOK
    <3>2. Outlived(d)'
      BY <2>0, <3>1 DEF Origin, Outlived, Versions
    <3> QED
      BY <1>0, <2>0, <3>1, <3>2 DEF Origin, Had
  <2>3. ASSUME NEW e \in Entry, Upgrade(y, e) PROVE Safe(d)
    BY <1>0, <2>0, <2>3, <2>w DEF Upgrade, Origin
  <2>4. CASE Compact(y)
    <3>1. /\ store' = store /\ replaced' = replaced /\ "compact" \in Ops
          /\ outbox'[d] = IF d = y THEN outbox[d] \ acked[d] ELSE outbox[d]
      BY <2>4 DEF Compact, TypeOK
    <3> QED
      BY <1>0, <2>0, <2>w, <3>1 DEF Origin, NothingDropped
  <2>5. CASE LoseOutbox(y)
    <3>1. /\ store' = store /\ replaced' = replaced /\ "lose" \in Faults
          /\ outbox'[d] = IF d = y THEN {} ELSE outbox[d]
      BY <2>5 DEF LoseOutbox, TypeOK
    <3> QED
      BY <1>0, <2>0, <2>w, <3>1 DEF Origin, NothingDropped
  <2> QED
    BY <2>1, <2>2, <2>3, <2>4, <2>5 DEF Live
<1>3. ASSUME NEW d \in Device PROVE (Origin(d) /\ Covered(d))'
  <2>1. Origin(d) /\ Covered(d)
    BY DEF RosterInv
  <2>2. Origin(d)'
    BY <1>0, <1>2, <2>1 DEF Origin, NothingDropped
  <2>3. Covered(d)'
    BY <1>0, <1>2, <2>1 DEF Covered, Available, Listed
  <2> QED
    BY <2>2, <2>3
<1>4. ASSUME NEW r \in Runner PROVE RunOK(run[r], Home[r])'
  <2>1. Home[r] \in Device
    BY HomeFields
  <2> QED
    BY <1>0, <1>1, <1>2, <2>1, RunKept DEF RosterInv
<1> QED
  BY <1>3, <1>4 DEF RosterInv

\* Push preserves RosterInv: it acks what it put, and listed, under its key.
LEMMA PushRoster ==
    ASSUME RosterAssumption, TypeOK, TypeOK', RosterInv, NEW r \in Runner, Push(r)
    PROVE  RosterInv'
<1> DEFINE x == run[r]
           z == run'[r]
           d == Home[r]
<1>0. /\ x \in Run /\ d \in Device /\ key[d] \in Key /\ x.key \in Key
      /\ x.todo \subseteq Entry /\ x.done \subseteq Entry /\ x.op \in Commands \cup {"idle"}
      /\ Origin(d) /\ Covered(d) /\ RunOK(x, d)
  BY HomeFields, RunFields DEF RosterInv
<1>s. ASSUME key' = key, blobs \subseteq blobs', batches \subseteq batches' PROVE Spared
  <2>1. \A y \in Device : key[y] \in Nat
    BY SyncAssumption DEF TypeOK, Key
  <2> QED
    BY <1>s, <2>1 DEF Spared
<1>1. ASSUME NEW op \in {"push", "backfill"}, StartPush(r, op) PROVE RosterInv'
  <2> DEFINE l == [Loaded(r, op, "sweep") EXCEPT !.known = acked[d]]
  <2>1. l.op = op /\ l.at = "sweep" /\ l.key = key[d] /\ l.done = {}
    BY DEF Loaded, Idle
  <2>2. op \in Ops /\ Become(r, l)
    BY <1>1 DEF StartPush
  <2>3. l \in Run
    <3> DEFINE w == Loaded(r, op, "sweep")
    <3>1. w \in Run /\ acked[d] \in SUBSET Entry
      BY LoadedType, HomeFields DEF Commands, Phases
    <3> HIDE DEF w
    <3>2. [w EXCEPT !.known = acked[d]] \in Run
      BY <3>1, RunUpdates
    <3> QED
      BY <3>2 DEF w
  <2>4. z = l /\ \A s \in Runner \ {r} : run'[s] = run[s]
    BY <2>2, <2>3, BecomeRuns
  <2> HIDE DEF l
  <2>5. UNCHANGED <<store, replaced, outbox, acked, key, blobs, batches>>
    BY <1>1 DEF StartPush, device, remote
  <2>6. RunOK(x, d)'
    BY <2>1, <2>2, <2>4, <2>5 DEF RunOK, Pushing, Rostering, Keyed
  <2> QED
    BY <2>4, <2>5, <2>6, QuietRosterStep
<1>2. ASSUME NEW plan \in SUBSET Pending(r), Sweep(r, plan) PROVE RosterInv'
  <2> DEFINE y == [x EXCEPT !.at = "put", !.todo = plan, !.known = {}]
             new == ToStage(d, x.op)
  <2>1. plan \in SUBSET Entry /\ new \subseteq store[d] \ outbox[d]
        /\ plan \subseteq outbox[d] \cup new
    BY HomeFields DEF Pending, ToStage
  <2>2. y \in Run
    BY <2>1, <1>0, RunUpdates DEF Phases
  <2>3. z = y /\ \A s \in Runner \ {r} : run'[s] = run[s]
    BY <1>2, <2>2, BecomeRuns DEF Sweep
  <2>4. /\ z.at = "put" /\ z.todo = plan /\ z.done = x.done /\ z.key = x.key /\ z.op = x.op
        /\ x.at = "sweep"
    BY <1>0, <1>2, <2>3 DEF Run, Sweep
  <2>5. /\ UNCHANGED <<store, replaced, acked, key, blobs, batches>>
        /\ outbox'[d] = outbox[d] \cup new
        /\ \A w \in Device \ {d} : outbox'[w] = outbox[w]
    BY <1>0, <1>2 DEF Sweep, remote, TypeOK
  <2>6. new \cap (acked[d] \ Baseline[d]) = {}
    <3>1. CASE x.op = "backfill"
      <4>1. NothingDropped
        BY <1>0, <3>1 DEF RunOK, Keyed, RosterAssumption, NothingReturns
      <4> QED
        BY <1>0, <2>1, <4>1 DEF Origin
    <3>2. CASE x.op # "backfill"
      BY <3>2 DEF ToStage
    <3> QED
      BY <3>1, <3>2
  <2>7. (Origin(d) /\ Covered(d))'
    <3>1. Origin(d)'
      BY <1>0, <2>1, <2>5 DEF Origin, Outlived, Versions, Had, NothingDropped
    <3>2. Covered(d)'
      BY <1>0, <2>5, <2>6 DEF Covered, Available, Listed
    <3> QED
      BY <3>1, <3>2
  <2>8. x.done = {}
    BY <1>0, <2>4 DEF RunOK, Keyed
  <2>9. RunOK(x, d)'
    BY <1>0, <2>1, <2>4, <2>5, <2>8 DEF RunOK, Pushing, Rostering, Keyed, Origin, Had
  <2> QED
    BY <1>s, <2>3, <2>5, <2>7, <2>9, OneRosterStep
<1>3. ASSUME NEW before \in SUBSET ToStage(d, x.op), SweepAborts(r, before)
      PROVE  RosterInv'
  <2>1. before \subseteq store[d] \ outbox[d] /\ x.at = "sweep"
    BY <1>3 DEF ToStage, SweepAborts
  <2>2. before \cap (acked[d] \ Baseline[d]) = {}
    <3>1. CASE x.op = "backfill"
      <4>1. NothingDropped
        BY <1>0, <3>1 DEF RunOK, Keyed, RosterAssumption, NothingReturns
      <4> QED
        BY <1>0, <2>1, <4>1 DEF Origin
    <3>2. CASE x.op # "backfill"
      BY <3>2 DEF ToStage
    <3> QED
      BY <3>1, <3>2
  <2>3. /\ UNCHANGED <<store, replaced, acked, key, blobs, batches>>
        /\ outbox'[d] = outbox[d] \cup before
        /\ \A w \in Device \ {d} : outbox'[w] = outbox[w]
    BY <1>0, <1>3 DEF SweepAborts, remote, TypeOK
  <2>4. (Origin(d) /\ Covered(d))'
    <3>1. Origin(d)'
      BY <1>0, <2>1, <2>3 DEF Origin, Outlived, Versions, Had, NothingDropped
    <3>2. Covered(d)'
      BY <1>0, <2>2, <2>3 DEF Covered, Available, Listed
    <3> QED
      BY <3>1, <3>2
  <2>5. RunOK(x, d)' /\ \A s \in Runner \ {r} : run'[s] = run[s]
    BY <1>3, FinishRuns DEF SweepAborts
  <2>6. Spared
    BY <1>s, <2>3
  <2> QED
    BY <2>3, <2>4, <2>5, <2>6, OneRosterStep
<1>4. ASSUME NEW e \in x.todo, Put(r, e) PROVE RosterInv'
  <2> DEFINE y == [x EXCEPT !.todo = @ \ {e}, !.done = @ \cup {e}]
  <2>1. y \in Run
    BY <1>0, RunUpdates
  <2>2. z = y /\ \A s \in Runner \ {r} : run'[s] = run[s]
    BY <1>4, <2>1, BecomeRuns DEF Put
  <2>3. /\ z.at = "put" /\ z.todo = x.todo \ {e} /\ z.done = x.done \cup {e}
        /\ z.key = x.key /\ z.op = x.op /\ x.at = "put"
    BY <1>0, <1>4, <2>2 DEF Run, Put
  <2>4. /\ UNCHANGED <<store, replaced, outbox, acked, key, batches>>
        /\ blobs' = blobs \cup {RouteOf(e, x.key)}
    BY <1>4 DEF Put, device
  <2>5. RunOK(x, d)'
    <3>1. \A f \in z.done : RouteOf(f, z.key) \in blobs'
      BY <1>0, <2>3, <2>4 DEF RunOK, Pushing, Available
    <3> QED
      BY <1>0, <2>3, <2>4, <3>1
         DEF RunOK, Pushing, Rostering, Keyed, Available, Had, NothingDropped
  <2> QED
    BY <2>2, <2>4, <2>5, QuietRosterStep
<1>5. ASSUME NEW e \in x.todo, PutAborts(r, e) PROVE RosterInv'
  <2>1. RunOK(x, d)' /\ \A s \in Runner \ {r} : run'[s] = run[s]
    BY <1>5, FinishRuns DEF PutAborts
  <2> QED
    BY <1>5, <2>1, QuietRosterStep DEF PutAborts, device
<1>6. ASSUME Stamp(r) PROVE RosterInv'
  <2> DEFINE a == IF x.done = {} THEN "ack" ELSE "batch"
             y == [x EXCEPT !.at = a]
  <2>1. y \in Run
    BY <1>0, RunUpdates DEF Phases
  <2>2. z = y /\ \A s \in Runner \ {r} : run'[s] = run[s]
    BY <1>6, <2>1, BecomeRuns DEF Stamp
  <2>3. /\ z.at = a /\ z.todo = x.todo /\ z.done = x.done
        /\ z.key = x.key /\ z.op = x.op /\ x.at = "put"
    BY <1>0, <1>6, <2>2 DEF Run, Stamp
  <2>4. UNCHANGED <<store, replaced, outbox, acked, key, blobs, batches>>
    BY <1>6 DEF Stamp, device
  <2>5. RunOK(x, d)'
    BY <1>0, <2>3, <2>4
       DEF RunOK, Pushing, Rostering, Keyed, Available, Listed, Had, NothingDropped
  <2> QED
    BY <2>2, <2>4, <2>5, QuietRosterStep
<1>7. ASSUME PutBatch(r) PROVE RosterInv'
  <2> DEFINE y == [x EXCEPT !.at = "ack"]
  <2>1. y \in Run
    BY <1>0, RunUpdates DEF Phases
  <2>2. z = y /\ \A s \in Runner \ {r} : run'[s] = run[s]
    BY <1>7, <2>1, BecomeRuns DEF PutBatch
  <2>3. /\ z.at = "ack" /\ z.todo = x.todo /\ z.done = x.done
        /\ z.key = x.key /\ z.op = x.op /\ x.at = "batch"
    BY <1>0, <1>7, <2>2 DEF Run, PutBatch
  <2>4. /\ UNCHANGED <<store, replaced, outbox, acked, key, blobs>>
        /\ batches' = batches \cup {Routes(x.done, x.key)}
    BY <1>7 DEF PutBatch, device
  <2>5. \A e \in x.done : \E b \in batches' : RouteOf(e, x.key) \in b
    BY <2>4 DEF Routes
  <2>6. RunOK(x, d)'
    BY <1>0, <2>3, <2>4, <2>5
       DEF RunOK, Pushing, Rostering, Keyed, Available, Listed, Had, NothingDropped
  <2> QED
    BY <2>2, <2>4, <2>6, QuietRosterStep
<1>8. ASSUME Ack(r) PROVE RosterInv'
  <2>1. /\ UNCHANGED <<store, replaced, outbox, key, blobs, batches>>
        /\ acked'[d] = acked[d] \cup x.done /\ x.at = "ack"
        /\ \A w \in Device \ {d} : acked'[w] = acked[w]
    BY <1>0, <1>8 DEF Ack, remote, TypeOK
  <2>2. (Origin(d) /\ Covered(d))'
    <3>1. Origin(d)'
      BY <1>0, <2>1 DEF RunOK, Pushing, Origin, Outlived, Versions, Had, NothingDropped
    <3>2. Covered(d)'
      BY <1>0, <2>1 DEF RunOK, Pushing, Keyed, Covered, Available, Listed
    <3> QED
      BY <3>1, <3>2
  <2>3. RunOK(x, d)' /\ \A s \in Runner \ {r} : run'[s] = run[s]
    <3>1. CASE x.op # "rotate"
      BY <1>8, <3>1, FinishRuns DEF Ack
    <3>2. CASE x.op = "rotate"
      <4> DEFINE y == [x EXCEPT !.at = "roster"]
      <4>1. y \in Run
        BY <1>0, RunUpdates DEF Phases
      <4>2. z = y /\ \A s \in Runner \ {r} : run'[s] = run[s]
        BY <1>8, <3>2, <4>1, BecomeRuns DEF Ack
      <4>3. z.at = "roster" /\ z.key = x.key /\ z.op = x.op
        BY <1>0, <4>2 DEF Run
      <4> QED
        BY <1>0, <2>1, <4>2, <4>3 DEF RunOK, Pushing, Rostering, Keyed
    <3> QED
      BY <3>1, <3>2
  <2> QED
    BY <1>s, <2>1, <2>2, <2>3, OneRosterStep
<1> QED
  BY <1>1, <1>2, <1>3, <1>4, <1>5, <1>6, <1>7, <1>8 DEF Push

\* Pull preserves RosterInv: it stages and acks nothing.
LEMMA PullRoster ==
    ASSUME RosterAssumption, TypeOK, TypeOK', RosterInv, NEW r \in Runner, Pull(r)
    PROVE  RosterInv'
<1> DEFINE x == run[r]
           z == run'[r]
           d == Home[r]
<1>0. /\ x \in Run /\ d \in Device /\ x.op \in Ops \cup {"idle"}
      /\ Origin(d) /\ Covered(d)
  BY HomeFields DEF RosterInv, RunOK, Keyed
<1>1. UNCHANGED <<outbox, acked, key, blobs, batches>>
  BY DEF Pull, StartPull, OpenBatch, MissingBatch, Pass, Halt, Quarantine, Apply, Upsert,
         SavePull, Finish, device, remote
<1>2. /\ Had(d) \subseteq Had(d)' /\ Outlived(d)'
      /\ \A w \in Device \ {d} : store'[w] = store[w] /\ replaced'[w] = replaced[w]
  <2>1. ASSUME NEW e \in x.todo, Upsert(r, e)
        PROVE  /\ Had(d) \subseteq Had(d)' /\ Outlived(d)'
               /\ \A w \in Device \ {d} : store'[w] = store[w] /\ replaced'[w] = replaced[w]
    <3>1. /\ store'[d] = (store[d] \ Versions(d, e.id)) \cup {e}
          /\ replaced'[d] = replaced[d] \cup (Versions(d, e.id) \ {e})
          /\ \A w \in Device \ {d} : store'[w] = store[w] /\ replaced'[w] = replaced[w]
      BY <1>0, <2>1 DEF Upsert, TypeOK
    <3>2. Outlived(d)'
      BY <1>0, <3>1 DEF Origin, Outlived, Versions
    <3> QED
      BY <3>1, <3>2 DEF Had
  <2>2. CASE UNCHANGED <<store, replaced>>
    BY <1>0, <2>2 DEF Had, Origin, Outlived, Versions
  <2>3. UNCHANGED <<store, replaced>> \/ \E e \in x.todo : Upsert(r, e)
    BY DEF Pull, StartPull, OpenBatch, MissingBatch, Pass, Halt, Quarantine, Apply, SavePull,
           device
  <2> QED
    BY <2>1, <2>2, <2>3
<1>3. RunOK(x, d)' /\ \A s \in Runner \ {r} : run'[s] = run[s]
  BY <1>0, PullMoves, AwayOK
<1>4. Spared
  <2>1. \A y \in Device : key[y] \in Nat
    BY SyncAssumption DEF TypeOK, Key
  <2> QED
    BY <1>1, <2>1 DEF Spared
<1>5. (Origin(d) /\ Covered(d))'
  BY <1>0, <1>1, <1>2, <1>4, DeviceKept
<1> QED
  BY <1>1, <1>2, <1>3, <1>4, <1>5, OneRosterStep

\* Rotation preserves RosterInv: all of the roster is put and listed under the
\* next key when the config changes keys.
LEMMA RotateRoster ==
    ASSUME RosterAssumption, TypeOK, TypeOK', RosterInv, NEW r \in Runner, Rotate(r)
    PROVE  RosterInv'
<1> DEFINE x == run[r]
           z == run'[r]
           d == Home[r]
<1>0. /\ x \in Run /\ d \in Device /\ key[d] \in Key /\ x.key \in Key /\ x.key \in Nat
      /\ key[d] \in Nat
      /\ x.todo \subseteq Entry /\ x.done \subseteq Entry /\ x.op \in Ops \cup {"idle"}
      /\ Origin(d) /\ Covered(d) /\ RunOK(x, d)
  BY HomeFields, RunFields, SyncAssumption DEF RosterInv, RunOK, Keyed, Key
<1>1. ASSUME StartRotate(r) PROVE RosterInv'
  <2> DEFINE w == Loaded(r, "rotate", "sweep")
             l == [w EXCEPT !.known = acked[d]]
  <2>1. w \in Run /\ w.op = "rotate" /\ w.at = "sweep" /\ w.key = key[d] /\ w.done = {}
    BY LoadedType DEF Loaded, Idle, Commands, Phases
  <2>2. "rotate" \in Ops /\ Become(r, l)
    BY <1>1 DEF StartRotate
  <2>3. run'[r] = l /\ \A s \in Runner \ {r} : run'[s] = run[s]
    BY <2>2 DEF Become, TypeOK
  <2> HIDE DEF w
  <2>4. z.op = "rotate" /\ z.at = "sweep" /\ z.key = key[d] /\ z.done = {}
    BY <2>1, <2>3 DEF Run
  <2>5. UNCHANGED <<store, replaced, outbox, acked, key, blobs, batches>>
    BY <1>1 DEF StartRotate, device, remote
  <2>6. RunOK(x, d)'
    BY <2>2, <2>4, <2>5 DEF RunOK, Pushing, Rostering, Keyed
  <2> QED
    BY <2>3, <2>5, <2>6, QuietRosterStep
<1>2. ASSUME Roster(r) PROVE RosterInv'
  <2> DEFINE y == [x EXCEPT !.at = "reput", !.key = @ + 1, !.epoch = keyEpoch[d],
                            !.todo = outbox[d] \cap acked[d], !.done = {}]
  <2>1. Become(r, y) /\ x.at = "roster"
    BY <1>2 DEF Roster
  <2>2. z = y /\ \A s \in Runner \ {r} : run'[s] = run[s]
    BY <2>1 DEF Become, TypeOK
  <2>3. /\ z.at = "reput" /\ z.key = x.key + 1 /\ z.op = x.op
        /\ z.todo = outbox[d] \cap acked[d] /\ z.done = {}
    BY <1>0, <2>2 DEF Run
  <2>4. UNCHANGED <<store, replaced, outbox, acked, key, blobs, batches>>
    BY <1>2 DEF Roster, device, remote
  <2>5. RunOK(x, d)'
    BY <1>0, <2>1, <2>3, <2>4 DEF RunOK, Pushing, Rostering, Keyed
  <2> QED
    BY <2>2, <2>4, <2>5, QuietRosterStep
<1>3. ASSUME NEW e \in x.todo, Reput(r, e) PROVE RosterInv'
  <2> DEFINE y == [x EXCEPT !.todo = @ \ {e}, !.done = @ \cup {e}]
  <2>1. Become(r, y) /\ x.at = "reput"
    BY <1>3 DEF Reput
  <2>2. z = y /\ \A s \in Runner \ {r} : run'[s] = run[s]
    BY <2>1 DEF Become, TypeOK
  <2>3. /\ z.at = "reput" /\ z.todo = x.todo \ {e} /\ z.done = x.done \cup {e}
        /\ z.key = x.key /\ z.op = x.op
    BY <1>0, <2>1, <2>2 DEF Run
  <2>4. /\ UNCHANGED <<store, replaced, outbox, acked, key, batches>>
        /\ blobs' = blobs \cup {RouteOf(e, x.key)}
    BY <1>3 DEF Reput, device
  <2>5. RunOK(x, d)'
    <3>1. \A f \in z.done : RouteOf(f, z.key) \in blobs'
      BY <1>0, <2>1, <2>3, <2>4 DEF RunOK, Rostering, Available
    <3> QED
      BY <1>0, <2>1, <2>3, <2>4, <3>1 DEF RunOK, Pushing, Rostering, Keyed, Available
  <2> QED
    BY <2>2, <2>4, <2>5, QuietRosterStep
<1>4. ASSUME Rebatch(r) PROVE RosterInv'
  <2> DEFINE y == [x EXCEPT !.at = "manifest"]
  <2>1. Become(r, y) /\ x.at = "reput" /\ x.todo = {}
    BY <1>4 DEF Rebatch
  <2>2. z = y /\ \A s \in Runner \ {r} : run'[s] = run[s]
    BY <2>1 DEF Become, TypeOK
  <2>3. /\ z.at = "manifest" /\ z.todo = {} /\ z.done = x.done
        /\ z.key = x.key /\ z.op = x.op
    BY <1>0, <2>1, <2>2 DEF Run
  <2>4. /\ UNCHANGED <<store, replaced, outbox, acked, key, blobs>>
        /\ batches \subseteq batches'
        /\ x.done # {} => Routes(x.done, x.key) \in batches'
    BY <1>4 DEF Rebatch, device
  <2>5. \A e \in x.done : \E b \in batches' : RouteOf(e, x.key) \in b
    BY <2>4 DEF Routes
  <2>6. RunOK(x, d)'
    BY <1>0, <2>1, <2>3, <2>4, <2>5
       DEF RunOK, Pushing, Rostering, Keyed, Available, Listed
  <2> QED
    BY <2>2, <2>4, <2>6, QuietRosterStep
<1>5. ASSUME PutManifest(r) \/ SaveEpoch(r) PROVE RosterInv'
  <2> DEFINE y(at) == [x EXCEPT !.at = at]
  <2>1. x.at \in {"manifest", "save"} /\ (Become(r, y("save")) \/ Become(r, y("config")))
    BY <1>5 DEF PutManifest, SaveEpoch
  <2>2. (z = y("save") \/ z = y("config")) /\ \A s \in Runner \ {r} : run'[s] = run[s]
    BY <2>1 DEF Become, TypeOK
  <2>3. /\ z.at \in {"save", "config"} /\ z.todo = x.todo /\ z.done = x.done
        /\ z.key = x.key /\ z.op = x.op
    BY <1>0, <2>1, <2>2 DEF Run
  <2>4. UNCHANGED <<store, replaced, outbox, acked, key, blobs, batches>>
    BY <1>5 DEF PutManifest, SaveEpoch, device, remote
  <2>5. RunOK(x, d)'
    BY <1>0, <2>1, <2>3, <2>4
       DEF RunOK, Pushing, Rostering, Keyed, Available, Listed
  <2> QED
    BY <2>2, <2>4, <2>5, QuietRosterStep
<1>6. ASSUME WriteConfig(r) PROVE RosterInv'
  <2>1. /\ UNCHANGED <<store, replaced, outbox, acked, blobs, batches>>
        /\ key'[d] = x.key /\ x.at = "config"
        /\ \A w \in Device \ {d} : key'[w] = key[w]
    BY <1>0, <1>6 DEF WriteConfig, remote, TypeOK
  <2>2. Spared
    <3>1. \A w \in Device : key[w] \in Nat
      BY SyncAssumption DEF TypeOK, Key
    <3>2. key'[d] = key[d] + 1
      BY <1>0, <2>1 DEF RunOK, Keyed
    <3> QED
      BY <2>1, <3>1, <3>2 DEF Spared
  <2>3. (Origin(d) /\ Covered(d))'
    <3>1. Origin(d)'
      BY <1>0, <2>1 DEF Origin, Outlived, Versions, Had, NothingDropped
    <3>2. Covered(d)'
      BY <1>0, <2>1 DEF RunOK, Rostering, Covered, Available, Listed
    <3> QED
      BY <3>1, <3>2
  <2>4. RunOK(x, d)' /\ \A s \in Runner \ {r} : run'[s] = run[s]
    BY <1>6, FinishRuns DEF WriteConfig
  <2> QED
    BY <2>1, <2>2, <2>3, <2>4, OneRosterStep
<1> QED
  BY <1>1, <1>2, <1>3, <1>4, <1>5, <1>6 DEF Rotate

\* Purge preserves RosterInv: it deletes what is older than every key in use.
LEMMA PurgeRoster ==
    ASSUME RosterAssumption, TypeOK, TypeOK', RosterInv, NEW r \in Runner, Purge(r)
    PROVE  RosterInv'
<1> DEFINE x == run[r]
           z == run'[r]
           d == Home[r]
<1>0. /\ x \in Run /\ d \in Device /\ x.key \in Nat /\ key[d] \in Nat
      /\ x.routes \subseteq Route
      /\ \A w \in Device : key[w] \in Nat
      /\ Origin(d) /\ Covered(d) /\ RunOK(x, d)
  BY HomeFields, RunFields, SyncAssumption DEF RosterInv, Key, TypeOK
<1>1. ASSUME StartPurge(r) PROVE RosterInv'
  <2> DEFINE w == Loaded(r, "purge", "delete")
             l == [w EXCEPT !.routes = blobs]
  <2>1. w \in Run /\ w.op = "purge" /\ w.at = "delete" /\ w.key = key[d]
    BY LoadedType DEF Loaded, Idle, Commands, Phases
  <2>2. /\ "purge" \in Ops /\ Become(r, l)
        /\ Disciplined => (OneKey /\ \A k \in blobs : k.key <= key[d])
    BY <1>1 DEF StartPurge, Steady
  <2>3. z = l /\ \A s \in Runner \ {r} : run'[s] = run[s]
    BY <2>2 DEF Become, TypeOK
  <2> HIDE DEF w
  <2>4. z.op = "purge" /\ z.at = "delete" /\ z.key = key[d] /\ z.routes = blobs
    BY <2>1, <2>3 DEF Run
  <2>5. UNCHANGED <<store, replaced, outbox, acked, key, blobs, batches>>
    BY <1>1 DEF StartPurge, device, remote
  <2>6. (\A y \in Device : key[d] <= key[y]) /\ \A k \in blobs : k.key <= key[d]
    BY <1>0, <2>2 DEF RosterAssumption, PurgesFollowDocs, OneKey
  <2>7. RunOK(x, d)'
    BY <2>2, <2>4, <2>5, <2>6 DEF RunOK, Pushing, Rostering, Keyed
  <2> QED
    BY <2>3, <2>5, <2>7, QuietRosterStep
<1>2. ASSUME NEW k \in x.routes, DeleteStale(r, k) PROVE RosterInv'
  <2> DEFINE y == [x EXCEPT !.routes = @ \ {k}]
  <2>1. Become(r, y) /\ x.at = "delete" /\ k.key # x.key
    BY <1>2 DEF DeleteStale
  <2>2. z = y /\ \A s \in Runner \ {r} : run'[s] = run[s]
    BY <2>1 DEF Become, TypeOK
  <2>3. z.at = "delete" /\ z.key = x.key /\ z.op = x.op /\ z.routes = x.routes \ {k}
    BY <1>0, <2>1, <2>2 DEF Run
  <2>4. UNCHANGED <<store, replaced, outbox, acked, key, batches>> /\ blobs' = blobs \ {k}
    BY <1>2 DEF DeleteStale, device
  <2>5. Spared
    <3>1. k.key \in Nat /\ k.key <= x.key /\ \A w \in Device : x.key <= key[w]
      BY <1>0, <2>1, SyncAssumption DEF RunOK, Keyed, Route, Key
    <3>2. \A w \in Device : k.key < key[w]
      BY <1>0, <2>1, <3>1
    <3> QED
      BY <1>0, <2>4, <3>2 DEF Spared
  <2>6. (Origin(d) /\ Covered(d))'
    <3>1. Had(d) \subseteq Had(d)' /\ Outlived(d)'
      BY <1>0, <2>4 DEF Had, Origin, Outlived, Versions
    <3> QED
      BY <1>0, <2>4, <2>5, <3>1, DeviceKept
  <2>7. RunOK(x, d)'
    BY <1>0, <2>1, <2>3, <2>4 DEF RunOK, Pushing, Rostering, Keyed
  <2> QED
    BY <2>2, <2>4, <2>5, <2>6, <2>7, OneRosterStep
<1>3. ASSUME EndPurge(r) PROVE RosterInv'
  <2>1. RunOK(x, d)' /\ \A s \in Runner \ {r} : run'[s] = run[s]
    BY <1>3, FinishRuns DEF EndPurge
  <2> QED
    BY <1>3, <2>1, QuietRosterStep DEF EndPurge, device, remote
<1> QED
  BY <1>1, <1>2, <1>3 DEF Purge

\* A crash preserves RosterInv: the acks it leaves are of what was listed.
LEMMA CrashRoster ==
    ASSUME RosterAssumption, TypeOK, TypeOK', RosterInv,
           NEW r \in Runner, NEW some \in SUBSET Entry, Crash(r, some)
    PROVE  RosterInv'
<1> DEFINE x == run[r]
           d == Home[r]
<1>0. /\ d \in Device /\ Origin(d) /\ Covered(d) /\ RunOK(x, d)
      /\ \A w \in Device : key[w] \in Nat
  BY HomeFields, SyncAssumption DEF RosterInv, TypeOK, Key
<1>1. /\ UNCHANGED <<store, replaced, outbox, key, blobs, batches>>
      /\ acked'[d] = acked[d] \cup some
      /\ some # {} => x.at = "ack" /\ some \subseteq x.done
      /\ \A w \in Device \ {d} : acked'[w] = acked[w]
  BY <1>0 DEF Crash, remote, TypeOK
<1>2. Spared
  BY <1>0, <1>1 DEF Spared
<1>3. (Origin(d) /\ Covered(d))'
  <2>1. Origin(d)'
    BY <1>0, <1>1 DEF RunOK, Pushing, Origin, Outlived, Versions, Had, NothingDropped
  <2>2. Covered(d)'
    BY <1>0, <1>1 DEF RunOK, Pushing, Keyed, Covered, Available, Listed
  <2> QED
    BY <2>1, <2>2
<1>4. RunOK(x, d)' /\ \A s \in Runner \ {r} : run'[s] = run[s]
  BY FinishRuns DEF Crash
<1> QED
  BY <1>1, <1>2, <1>3, <1>4, OneRosterStep

\* Every step preserves RosterInv.
LEMMA RosterNext ==
    RosterAssumption /\ TypeInv /\ TypeInv' /\ RosterInv /\ [Next]_vars => RosterInv'
<1> SUFFICES ASSUME RosterAssumption, TypeOK, TypeOK', RosterInv, [Next]_vars
             PROVE  RosterInv'
  BY DEF TypeInv
<1>1. CASE UNCHANGED vars
  BY <1>1 DEF vars, device, remote, RosterInv, Origin, Outlived, Versions, Covered, RunOK, Pushing, Rostering,
              Keyed, Had, Available, Listed, NothingDropped
<1>2. CASE Next
  BY <1>2, LiveRoster, PushRoster, PullRoster, RotateRoster, PurgeRoster, CrashRoster DEF Next
<1> QED
  BY <1>1, <1>2

\* RosterInv in every reachable state.
THEOREM RosterAlways ==
    ASSUME RosterAssumption
    PROVE  Spec => []RosterInv
<1>1. RosterAssumption /\ TypeInv /\ TypeInv' /\ RosterInv /\ [Next]_vars => RosterInv'
  BY RosterNext
<1> QED
  BY <1>1, RosterAssumption, TypeAlways, RosterInit, PTL DEF Spec

\* What a device staged and acked can be fetched under the key it uses now
\* (RosterCurrent; engine.ts, rotateKey): for any devices, rotations, crashes
\* and pauses, at one command at a time on each device, if purges follow
\* docs/memory-sync.md and nothing compacted or lost is backfilled.
THEOREM RosterFollowsTheKey ==
    ASSUME RosterAssumption
    PROVE  Spec => []RosterCurrent
<1>1. RosterInv => RosterCurrent
  BY DEF RosterInv, Covered, Available, RosterCurrent
<1> QED
  BY <1>1, RosterAlways, PTL

\* Purges that follow docs/memory-sync.md take nothing from what was acked
\* (AckedIsDurable): as long as the outbox keeps what is acked, every rotation
\* carries it over to the key the purge leaves.
THEOREM AcksOutlivePurges ==
    ASSUME RosterAssumption, NothingDropped
    PROVE  Spec => []AckedIsDurable
<1>1. TypeInv /\ RosterInv => AckedIsDurable
  <2> SUFFICES ASSUME TypeOK, RosterInv, NEW d \in Device, NEW e \in acked[d] \ Baseline[d]
               PROVE  Durable(e)
    BY DEF AckedIsDurable, TypeInv
  <2>1. Available(e, key[d]) /\ Listed(e, key[d])
    BY DEF RosterInv, Origin, Covered
  <2>2. RouteOf(e, key[d]).evt = e
    BY DEF RouteOf
  <2> QED
    BY <2>1, <2>2 DEF Available, Listed, Durable
<1> QED
  BY <1>1, TypeAlways, RosterAlways, PTL

=============================================================================
