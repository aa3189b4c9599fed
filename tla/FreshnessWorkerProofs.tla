------------------------ MODULE FreshnessWorkerProofs ------------------------
(***************************************************************************)
(* Machine-checked facts about FreshnessWorker, for every set of workers   *)
(* and projects, every bound and every choice of crash windows.            *)
(***************************************************************************)
EXTENDS FreshnessWorker, TLAPS

-----------------------------------------------------------------------------
(* Sequences. *)

\* Taking an element off a sequence.
LEMMA RemoveAtType ==
  ASSUME NEW S, NEW s \in Seq(S), NEW i \in DOMAIN s
  PROVE  RemoveAt(s, i) \in Seq(S)
<1>1. SubSeq(s, 1, i - 1) \in Seq(S) /\ SubSeq(s, i + 1, Len(s)) \in Seq(S)
  OBVIOUS
<1> QED
  BY <1>1 DEF RemoveAt

\* Replacing an element of a sequence.
LEMMA ReplaceAtType ==
  ASSUME NEW S, NEW s \in Seq(S), NEW i \in DOMAIN s, NEW e \in S
  PROVE  ReplaceAt(s, i, e) \in Seq(S)
BY DEF ReplaceAt

-----------------------------------------------------------------------------
(* Tasks. *)

\* The fields of a task.
LEMMA TaskFields ==
  ASSUME NEW t \in Task
  PROVE  /\ t.proj \in Project /\ t.head \in Heads /\ IdOf(t) \in Id
         /\ \A h \in Heads : [t EXCEPT !.head = h] \in Task
         /\ \A b \in BOOLEAN : [t EXCEPT !.wait = b] \in Task
BY DEF Task, IdOf, Id

\* A queue entry is a task.
LEMMA PendingEntry ==
  ASSUME pending \in Seq(Task), NEW i \in DOMAIN pending
  PROVE  pending[i] \in Task
OBVIOUS

\* The fields of the lease.
LEMMA LeaseFields ==
  ASSUME NEW l \in Lease
  PROVE  /\ l.pid \in Worker \cup {NoPid, DeadPid} /\ l.epoch \in Nat
         /\ l.active \in Task \cup {NoTask} /\ l.lkg \in [Project -> Heads]
         /\ \A a \in Task \cup {NoTask} : [l EXCEPT !.active = a] \in Lease
         /\ \A b \in BOOLEAN : [l EXCEPT !.fresh = b] \in Lease
         /\ [l EXCEPT !.pid = DeadPid] \in Lease
         /\ \A w \in Worker, e \in Nat :
              [l EXCEPT !.pid = w, !.epoch = e, !.fresh = TRUE] \in Lease
BY DEF Lease

\* Spending an attempt keeps the queue typed.
LEMMA SpendType ==
  ASSUME used \in [Counter -> Nat], NEW c \in Counter, NEW m, Spend(c, m)
  PROVE  used' \in [Counter -> Nat]
BY DEF Spend

-----------------------------------------------------------------------------
(* What TypeOK needs beside itself: a run has a task, a recovery an orphan, *)
(* and a process that is not there runs nothing.                            *)
Shape ==
    \A w \in Worker :
      /\ pc[w] = "elected" => orphan[w] # NoTask
      /\ child[w] # "none" => task[w] # NoTask
      /\ pc[w] = "off" => child[w] = "none" /\ task[w] = NoTask

TypeInv == TypeOK /\ Shape

\* The empty queue is typed.
LEMMA TypeInit == Init => TypeInv
BY FreshnessAssumption, NoTaskAssumption
   DEF Init, TypeInv, TypeOK, Shape, NoLease, Lease, Heads, Counter

\* The steps of callers keep the types.
LEMMA FrontStep ==
  ASSUME TypeInv,
         \/ \E p \in Project : Commit(p) \/ Enqueue(p) \/ CancelRequest(p)
         \/ \E id \in Id : CancelRemove(id)
         \/ \E i \in DOMAIN pending : BackoffElapses(i)
         \/ LeaseExpires
  PROVE  TypeInv'
<1> USE FreshnessAssumption, NoTaskAssumption DEF TypeInv, TypeOK, Shape
<1>1. ASSUME NEW p \in Project, Commit(p) PROVE TypeInv'
  BY <1>1 DEF Commit, run, local, history, Heads
<1>2. ASSUME NEW p \in Project, Enqueue(p) PROVE TypeInv'
  <2>1. head[p] \in Heads
    OBVIOUS
  <2>2. pending' \in Seq(Task)
    <3>1. ASSUME NEW i \in DOMAIN pending,
                 pending' = ReplaceAt(pending, i, [pending[i] EXCEPT !.head = head[p]])
          PROVE  pending' \in Seq(Task)
      <4>1. [pending[i] EXCEPT !.head = head[p]] \in Task
        BY <2>1, PendingEntry, TaskFields
      <4> QED
        BY <3>1, <4>1, ReplaceAtType
    <3>2. ASSUME pending' = Append(pending, [proj |-> p, head |-> head[p],
                                             attempts |-> 0, wait |-> FALSE])
          PROVE  pending' \in Seq(Task)
      <4>1. [proj |-> p, head |-> head[p], attempts |-> 0, wait |-> FALSE] \in Task
        BY <2>1 DEF Task
      <4> QED
        BY <3>2, <4>1
    <3>3. \/ \E i \in DOMAIN pending :
               pending' = ReplaceAt(pending, i, [pending[i] EXCEPT !.head = head[p]])
          \/ pending' = Append(pending, [proj |-> p, head |-> head[p],
                                         attempts |-> 0, wait |-> FALSE])
      BY <1>2, Zenon DEF Enqueue
    <3> QED
      BY <3>1, <3>2, <3>3
  <2>3. used' \in [Counter -> Nat]
    BY <1>2, SpendType DEF Enqueue, Counter
  <2>4. accepted' \in [Project -> Heads] /\ cancelled' \subseteq Id /\ voided' \subseteq Id
    BY <1>2, <2>1 DEF Enqueue
  <2>5. UNCHANGED <<head, dead, lease, gen, cancelReq, run, local, removing>>
    BY <1>2 DEF Enqueue
  <2>6. Shape'
    BY <2>5 DEF run, local
  <2>7. TypeOK'
    BY <2>2, <2>3, <2>4, <2>5, ZenonT(40) DEF run, local
  <2> QED
    BY <2>6, <2>7
<1>3. ASSUME NEW p \in Project, CancelRequest(p) PROVE TypeInv'
  <2>1. \A u \in ToSet(pending) \cup ({lease.active} \ {NoTask}) : IdOf(u) \in Id
    BY TaskFields, PendingEntry, LeaseFields DEF ToSet
  <2>2. cancelReq' \subseteq Id /\ removing' \subseteq Id
    BY <1>3, <2>1 DEF CancelRequest
  <2>3. used' \in [Counter -> Nat]
    BY <1>3, SpendType DEF CancelRequest, Counter
  <2> QED
    BY <1>3, <2>2, <2>3 DEF CancelRequest, run, local, history
<1>4. ASSUME NEW id \in Id, CancelRemove(id) PROVE TypeInv'
  <2>1. pending' \in Seq(Task) /\ removing' \subseteq Id /\ cancelled' \subseteq Id
        /\ voided' \subseteq Id
    BY <1>4, RemoveAtType DEF CancelRemove, CarryOut, First
  <2> QED
    BY <1>4, <2>1 DEF CancelRemove, run, local
<1>5. ASSUME NEW i \in DOMAIN pending, BackoffElapses(i) PROVE TypeInv'
  <2>1. [pending[i] EXCEPT !.wait = FALSE] \in Task
    BY PendingEntry, TaskFields
  <2>2. pending' = [pending EXCEPT ![i] = [pending[i] EXCEPT !.wait = FALSE]]
    BY <1>5 DEF BackoffElapses
  <2>3. pending' \in Seq(Task)
    BY <2>1, <2>2
  <2> QED
    BY <1>5, <2>3 DEF BackoffElapses, run, local, history
<1>6. CASE LeaseExpires
  <2>1. lease' \in Lease
    BY <1>6, LeaseFields DEF LeaseExpires
  <2>2. used' \in [Counter -> Nat]
    BY <1>6, SpendType DEF LeaseExpires, Counter
  <2> QED
    BY <1>6, <2>1, <2>2 DEF LeaseExpires, run, local, history
<1> QED
  BY <1>1, <1>2, <1>3, <1>4, <1>5, <1>6

RunType ==
    /\ task \in [Worker -> Task \cup {NoTask}]
    /\ child \in [Worker -> {"none", "updating", "updated", "staged", "failed"}]
    /\ seen \in [Worker -> Heads]
    /\ actual \in [Worker -> Heads]
    /\ abort \in [Worker -> {"none", "cancel", "lost"}]

\* A run that ends keeps the types.
LEMMA EndRunType ==
  ASSUME TypeInv, NEW w \in Worker, EndRun(w)
  PROVE  RunType' /\ task'[w] = NoTask /\ child'[w] = "none"
         /\ \A v \in Worker \ {w} : task'[v] = task[v] /\ child'[v] = child[v]
BY FreshnessAssumption DEF TypeInv, TypeOK, RunType, EndRun, Heads

\* A worker that stands down keeps the types.
LEMMA StandDownType ==
  ASSUME TypeInv, NEW w \in Worker,
         StandDown(w) \/ StandDownUnlessOwner(w) \/ UNCHANGED <<pc, superseded>>
  PROVE  /\ pc' \in [Worker -> {"off", "elected", "recovered", "up", "stopping", "down"}]
         /\ superseded' \in [Worker -> BOOLEAN]
         /\ \A v \in Worker : pc'[v] = pc[v] \/ (pc[v] = "up" /\ pc'[v] = "down")
<1>1. /\ pc \in [Worker -> {"off", "elected", "recovered", "up", "stopping", "down"}]
      /\ superseded \in [Worker -> BOOLEAN]
  BY DEF TypeInv, TypeOK
<1>2. CASE pc' = pc /\ superseded' = superseded
  BY <1>1, <1>2
<1>3. CASE StandDown(w)
  <2>1. superseded' \in [Worker -> BOOLEAN]
    BY <1>1, <1>3 DEF StandDown
  <2>2. PICK x \in {pc[w], "down"} :
          pc' = [pc EXCEPT ![w] = x] /\ (x # pc[w] => pc[w] = "up")
    BY <1>1, <1>3 DEF StandDown
  <2> QED
    BY <1>1, <2>1, <2>2
<1> QED
  BY <1>2, <1>3 DEF StandDownUnlessOwner

(* The end of a run, whatever it did to the files. *)
LEMMA SettleStep ==
  ASSUME TypeInv, NEW w \in Worker, EndRun(w),
         StandDown(w) \/ StandDownUnlessOwner(w) \/ UNCHANGED <<pc, superseded>>,
         pending' \in Seq(Task), dead' \subseteq DeadTask, lease' \in Lease,
         gen' \in [Project -> [head : Heads, content : Heads]],
         UNCHANGED <<head, cancelReq, epoch, orphan, sweep, removing, history, used>>
  PROVE  TypeInv'
<1>1. RunType' /\ task'[w] = NoTask /\ child'[w] = "none"
      /\ \A v \in Worker \ {w} : task'[v] = task[v] /\ child'[v] = child[v]
  BY EndRunType
<1>2. /\ pc' \in [Worker -> {"off", "elected", "recovered", "up", "stopping", "down"}]
      /\ superseded' \in [Worker -> BOOLEAN]
      /\ \A v \in Worker : pc'[v] = pc[v] \/ (pc[v] = "up" /\ pc'[v] = "down")
  BY StandDownType
<1>3. TypeOK'
  BY <1>1, <1>2 DEF TypeInv, TypeOK, RunType, history
<1>4. Shape'
  BY <1>1, <1>2 DEF TypeInv, Shape, TypeOK
<1> QED
  BY <1>3, <1>4 DEF TypeInv

(* The process disappears, whatever it did to the files. *)
LEMMA VanishStep ==
  ASSUME TypeInv, NEW w \in Worker, NEW state \in Lease, Vanish(w, state),
         gen' \in [Project -> [head : Heads, content : Heads]],
         used' \in [Counter -> Nat],
         UNCHANGED <<head, pending, dead, cancelReq, removing, history>>
  PROVE  TypeInv'
<1>1. RunType' /\ task'[w] = NoTask /\ child'[w] = "none"
      /\ \A v \in Worker \ {w} : task'[v] = task[v] /\ child'[v] = child[v]
  BY EndRunType DEF Vanish
<1>2. lease' \in Lease
  BY LeaseFields DEF Vanish
<1>3. TypeOK'
  BY <1>1, <1>2 DEF TypeInv, TypeOK, RunType, history, Vanish
<1>4. Shape'
  BY <1>1 DEF TypeInv, Shape, TypeOK, Vanish
<1> QED
  BY <1>3, <1>4 DEF TypeInv

\* Workers that start, leave or die keep the types.
LEMMA LifeStep ==
  ASSUME TypeInv, NEW w \in Worker,
         Start(w) \/ Recover(w) \/ FinishStart(w) \/ Stop(w) \/ Exit(w) \/ Crash(w)
  PROVE  TypeInv'
<1> USE FreshnessAssumption, NoTaskAssumption DEF TypeInv, TypeOK, Shape
<1>1. CASE Start(w)
  <2>1. PICK e \in Nat : e = lease.epoch + 1
    <3>1. lease.epoch \in Nat
      BY LeaseFields
    <3> QED
      BY <3>1
  <2>2. lease' \in Lease /\ epoch' \in [Worker -> Nat]
    <3>1. /\ lease' = [lease EXCEPT !.pid = w, !.epoch = e, !.fresh = TRUE]
          /\ epoch' = [epoch EXCEPT ![w] = e]
      BY <1>1, <2>1 DEF Start
    <3> QED
      BY <3>1, LeaseFields
  <2>3. orphan' \in [Worker -> Task \cup {NoTask}]
    <3>1. lease.active \in Task \cup {NoTask} /\ orphan' = [orphan EXCEPT ![w] = lease.active]
      BY <1>1, LeaseFields DEF Start
    <3> QED
      BY <3>1
  <2> QED
    BY <1>1, <2>2, <2>3 DEF Start, run, history
<1>2. CASE Recover(w)
  <2>1. orphan[w] \in Task
    BY <1>2 DEF Recover
  <2>2. [orphan[w] EXCEPT !.wait = FALSE] \in Task
    BY <2>1, TaskFields
  <2>3. pending' \in Seq(Task)
    BY <1>2, <2>2 DEF Recover
  <2> QED
    BY <1>2, <2>3 DEF Recover, run, history
<1>3. CASE FinishStart(w)
  <2>1. lease' \in Lease
    BY <1>3, LeaseFields DEF FinishStart
  <2> QED
    BY <1>3, <2>1 DEF FinishStart, run, history
<1>4. CASE Stop(w)
  <2>1. used' \in [Counter -> Nat]
    BY <1>4, SpendType DEF Stop, Counter
  <2> QED
    BY <1>4, <2>1 DEF Stop, run, history, disk
<1>5. CASE Exit(w)
  <2>1. lease' \in Lease
    <3>1. NoLease \in Lease
      BY DEF NoLease, Lease, Heads
    <3> QED
      BY <1>5, <3>1 DEF Exit
  <2>2. task[w] = NoTask /\ child[w] = "none"
    BY <1>5 DEF Exit, Busy
  <2> QED
    BY <1>5, <2>1, <2>2 DEF Exit, run, history
<1>6. CASE Crash(w)
  <2>1. used' \in [Counter -> Nat]
    BY <1>6, SpendType DEF Crash, Counter
  <2> QED
    BY <1>6, <2>1, VanishStep DEF Crash
<1> QED
  BY <1>1, <1>2, <1>3, <1>4, <1>5, <1>6

\* Heartbeats keep the types.
LEMMA BeatStep ==
  ASSUME TypeInv, NEW w \in Worker, Heartbeat(w) \/ \E id \in Id : Sweep(w, id)
  PROVE  TypeInv'
<1> USE FreshnessAssumption, NoTaskAssumption DEF TypeInv, TypeOK, Shape
<1>1. CASE Heartbeat(w)
  <2>1. CASE Owns(w)
    <3>1. lease' \in Lease
      <4>1. lease' = [lease EXCEPT !.fresh = TRUE]
        BY <1>1, <2>1 DEF Heartbeat
      <4> QED
        BY <4>1, LeaseFields
    <3>2. sweep' \in [Worker -> SUBSET Id]
      <4>1. PICK x \in SUBSET Id : sweep' = [sweep EXCEPT ![w] = x]
        BY <1>1, <2>1 DEF Heartbeat
      <4> QED
        BY <4>1
    <3> QED
      BY <1>1, <2>1, <3>1, <3>2 DEF Heartbeat, history
  <2>2. CASE ~Owns(w)
    <3>1. Surrender(w) /\ UNCHANGED <<lease, sweep>>
      BY <1>1, <2>2 DEF Heartbeat
    <3>2. /\ superseded' \in [Worker -> BOOLEAN]
          /\ pc' \in [Worker -> {"off", "elected", "recovered", "up", "stopping", "down"}]
      BY <3>1, StandDownType DEF Surrender
    <3>3. \A v \in Worker : pc'[v] = pc[v] \/ pc'[v] = "down"
      BY <3>1 DEF Surrender, StandDown
    <3>4. abort' \in [Worker -> {"none", "cancel", "lost"}]
      BY <3>1 DEF Surrender
    <3>5. Shape'
      BY <1>1, <3>3 DEF Heartbeat
    <3> QED
      BY <1>1, <3>1, <3>2, <3>4, <3>5 DEF Heartbeat, history
  <2> QED
    BY <2>1, <2>2
<1>2. ASSUME NEW id \in Id, Sweep(w, id) PROVE TypeInv'
  <2>1. pending' \in Seq(Task)
    BY <1>2, RemoveAtType DEF Sweep, First
  <2>2. cancelReq' \subseteq Id /\ cancelled' \subseteq Id /\ voided' \subseteq Id
    BY <1>2 DEF Sweep, CarryOut
  <2>3. abort' \in [Worker -> {"none", "cancel", "lost"}]
    BY <1>2 DEF Sweep
  <2>4. sweep' \in [Worker -> SUBSET Id]
    BY <1>2 DEF Sweep
  <2> QED
    BY <1>2, <2>1, <2>2, <2>3, <2>4 DEF Sweep
<1> QED
  BY <1>1, <1>2

\* Claims keep the types.
LEMMA ClaimStep ==
  ASSUME TypeInv, NEW w \in Worker, Claim(w) \/ ClaimCrash(w)
  PROVE  TypeInv'
<1>0. pending \in Seq(Task) /\ lease \in Lease
  BY DEF TypeInv, TypeOK
<1>1. ASSUME NEW i \in DOMAIN pending, Claimable(w, i), Owns(w),
             lease' = [lease EXCEPT !.active = pending[i]],
             pending' = RemoveAt(pending, i),
             task' = [task EXCEPT ![w] = pending[i]],
             child' = [child EXCEPT ![w] = "updating"],
             UNCHANGED <<pc, superseded, abort, head, dead, gen, cancelReq, seen, actual,
                         epoch, orphan, sweep, removing, history, used>>
      PROVE  TypeInv'
  <2>1. pending[i] \in Task /\ pending[i] # NoTask
    BY <1>0, PendingEntry, NoTaskAssumption
  <2>2. lease' \in Lease /\ pending' \in Seq(Task)
    BY <1>0, <1>1, <2>1, LeaseFields, RemoveAtType
  <2>3. TypeOK'
    BY <1>1, <2>1, <2>2 DEF TypeInv, TypeOK, history
  <2>4. pc[w] = "up"
    BY <1>1 DEF Claimable
  <2>5. Shape'
    BY <1>1, <2>1, <2>4 DEF TypeInv, TypeOK, Shape
  <2> QED
    BY <2>3, <2>5 DEF TypeInv
<1>2. ASSUME NEW i \in DOMAIN pending, ~Owns(w), Surrender(w),
             UNCHANGED <<lease, pending, task, child, head, dead, gen, cancelReq, seen, actual,
                         epoch, orphan, sweep, removing, history, used>>
      PROVE  TypeInv'
  <2>1. /\ pc' \in [Worker -> {"off", "elected", "recovered", "up", "stopping", "down"}]
        /\ superseded' \in [Worker -> BOOLEAN]
        /\ \A v \in Worker : pc'[v] = pc[v] \/ (pc[v] = "up" /\ pc'[v] = "down")
    BY <1>2, StandDownType DEF Surrender
  <2>2. abort' \in [Worker -> {"none", "cancel", "lost"}]
    BY <1>2 DEF Surrender, TypeInv, TypeOK
  <2>3. TypeOK'
    BY <1>2, <2>1, <2>2 DEF TypeInv, TypeOK, history
  <2>4. Shape'
    BY <1>2, <2>1 DEF TypeInv, Shape
  <2> QED
    BY <2>3, <2>4 DEF TypeInv
<1>3. CASE Claim(w)
  BY <1>1, <1>2, <1>3 DEF Claim
<1>4. CASE ClaimCrash(w)
  <2>1. PICK i \in DOMAIN pending : Vanish(w, [lease EXCEPT !.active = pending[i]])
    BY <1>4 DEF ClaimCrash
  <2>2. [lease EXCEPT !.active = pending[i]] \in Lease
    BY <1>0, PendingEntry, LeaseFields
  <2>3. used' \in [Counter -> Nat]
    BY <1>4, SpendType DEF ClaimCrash, Counter, TypeInv, TypeOK
  <2> QED
    BY <1>4, <2>1, <2>2, <2>3, VanishStep DEF ClaimCrash, TypeInv, TypeOK
<1> QED
  BY <1>3, <1>4

\* The steps of the child keep the types.
LEMMA ChildStep ==
  ASSUME TypeInv, NEW w \in Worker, ChildUpdate(w) \/ ChildStage(w) \/ ChildFail(w)
  PROVE  TypeInv'
<1> USE FreshnessAssumption DEF TypeInv, TypeOK, Shape
<1>1. child[w] # "none" /\ task[w] \in Task
  BY DEF ChildUpdate, ChildStage, ChildFail
<1>2. head[task[w].proj] \in Heads /\ 0 \in Heads
  BY <1>1, TaskFields DEF Heads
<1>3. CASE ChildUpdate(w)
  BY <1>1, <1>2, <1>3 DEF ChildUpdate, disk, local, history
<1>4. CASE ChildStage(w)
  BY <1>1, <1>2, <1>4 DEF ChildStage, disk, local, history
<1>5. CASE ChildFail(w)
  BY <1>1, <1>2, <1>5 DEF ChildFail, disk, local, history
<1> QED
  BY <1>3, <1>4, <1>5

\* What a worker does with the outcome keeps the types.
LEMMA OutcomeStep ==
  ASSUME TypeInv, NEW w \in Worker,
         \/ Discard(w) \/ Activate(w) \/ ActivateCrash(w)
         \/ Requeue(w) \/ RequeueCrash(w) \/ Aborted(w)
  PROVE  TypeInv'
<1>0. /\ pending \in Seq(Task) /\ dead \subseteq DeadTask /\ lease \in Lease
      /\ gen \in [Project -> [head : Heads, content : Heads]]
      /\ task[w] \in Task /\ seen[w] \in Heads /\ actual[w] \in Heads
      /\ used \in [Counter -> Nat]
  BY DEF Discard, Activate, ActivateCrash, Requeue, RequeueCrash, Aborted, Activatable,
         Requeueable, Settling, Busy, TypeInv, TypeOK
<1>1. [lease EXCEPT !.active = NoTask] \in Lease
  BY <1>0, LeaseFields
<1>2. [gen EXCEPT ![task[w].proj] = Published(w)]
        \in [Project -> [head : Heads, content : Heads]]
  BY <1>0 DEF Published
<1>3. CASE Discard(w)
  BY <1>0, <1>1, <1>3, SettleStep DEF Discard
<1>4. CASE Activate(w)
  <2>1. [lease EXCEPT !.active = NoTask, !.lkg[task[w].proj] = actual[w]] \in Lease
    <3>1. [lease.lkg EXCEPT ![task[w].proj] = actual[w]] \in [Project -> Heads]
      BY <1>0, LeaseFields
    <3> QED
      BY <1>0, <3>1 DEF Lease
  <2> QED
    BY <1>0, <1>2, <1>4, <2>1, SettleStep DEF Activate
<1>5. CASE ActivateCrash(w)
  <2>1. used' \in [Counter -> Nat]
    BY <1>0, <1>5, SpendType DEF ActivateCrash, Counter
  <2> QED
    BY <1>0, <1>2, <1>5, <2>1, VanishStep DEF ActivateCrash
<1>6. CASE Requeue(w)
  <2> DEFINE failed == [task[w] EXCEPT !.attempts = @ + 1]
  <2>1. failed = [task[w] EXCEPT !.attempts = task[w].attempts + 1]
        /\ task[w].attempts \in 0 .. MaxAttempts - 1
    BY <1>0 DEF Task
  <2>2. failed.attempts = task[w].attempts + 1
    BY <1>0 DEF Task
  <2>3. ASSUME failed.attempts < MaxAttempts
        PROVE  [failed EXCEPT !.wait = TRUE] \in Task
    <3>1. task[w].attempts + 1 \in 0 .. MaxAttempts - 1
      BY <2>1, <2>2, <2>3, FreshnessAssumption
    <3> QED
      BY <1>0, <2>1, <3>1 DEF Task
  <2>4. ASSUME failed.attempts >= MaxAttempts
        PROVE  [failed EXCEPT !.wait = FALSE] \in DeadTask
    <3>1. task[w].attempts + 1 = MaxAttempts
      BY <2>1, <2>2, <2>4, FreshnessAssumption
    <3> QED
      BY <1>0, <2>1, <3>1 DEF Task, DeadTask
  <2>5. pending' \in Seq(Task) /\ dead' \subseteq DeadTask
    <3>1. CASE failed.attempts >= MaxAttempts /\ UNCHANGED pending
               /\ dead' = dead \cup {[failed EXCEPT !.wait = FALSE]}
      BY <1>0, <2>4, <3>1
    <3>2. CASE failed.attempts < MaxAttempts /\ UNCHANGED dead
               /\ pending' = Append(pending, [failed EXCEPT !.wait = TRUE])
      <4>1. [failed EXCEPT !.wait = TRUE] \in Task
        BY <2>3, <3>2
      <4> HIDE DEF failed
      <4> QED
        BY <1>0, <3>2, <4>1
    <3>3. CASE UNCHANGED <<pending, dead>>
      BY <1>0, <3>3
    <3> QED
      BY <1>6, <3>1, <3>2, <3>3, Zenon DEF Requeue
  <2> QED
    BY <1>0, <1>1, <1>6, <2>5, SettleStep DEF Requeue
<1>7. CASE RequeueCrash(w)
  <2>1. used' \in [Counter -> Nat]
    BY <1>0, <1>7, SpendType DEF RequeueCrash, Counter
  <2> QED
    BY <1>0, <1>1, <1>7, <2>1, VanishStep DEF RequeueCrash
<1>8. CASE Aborted(w)
  BY <1>0, <1>1, <1>8, SettleStep DEF Aborted
<1> QED
  BY <1>3, <1>4, <1>5, <1>6, <1>7, <1>8

\* Every step keeps the types.
LEMMA TypeStep == TypeInv /\ [Next]_vars => TypeInv'
<1> SUFFICES ASSUME TypeInv, [Next]_vars PROVE TypeInv'
  OBVIOUS
<1>1. CASE UNCHANGED vars
  BY <1>1 DEF vars, disk, run, local, history, TypeInv, TypeOK, Shape
<1>2. ASSUME NEW w \in Worker, Work(w) \/ Faults(w) PROVE TypeInv'
  BY <1>2, LifeStep, ClaimStep, ChildStep, OutcomeStep DEF Work, Faults
<1> QED
  BY <1>1, <1>2, FrontStep, LifeStep, BeatStep, ChildStep DEF Next

(* Every file and every process stays well typed: no task overruns its      *)
(* attempts, a lease names a process or nobody, a run always has its task.  *)
THEOREM TypeCorrect == Spec => []TypeOK
<1>1. TypeInv => TypeOK
  BY DEF TypeInv
<1> QED
  BY TypeInit, TypeStep, <1>1, PTL DEF Spec
-----------------------------------------------------------------------------
(***************************************************************************)
(* The fence.  What a run has seen is no newer than the repository, and as *)
(* long as its worker owns the lease no older than what is published:      *)
(* nobody else can publish meanwhile, and a worker that lost the lease     *)
(* regains it only by starting again, without a run.                       *)
(***************************************************************************)
Finished(w) == child[w] \in {"updated", "staged"}

PublishedKnown == \A p \in Project : gen[p].head <= head[p] /\ gen[p].content <= head[p]

RunKnown ==
    \A w \in Worker :
      /\ Finished(w) => seen[w] <= head[task[w].proj]
      /\ child[w] = "staged" => seen[w] <= actual[w] /\ actual[w] <= head[task[w].proj]

OwnerIsCurrent ==
    \A w \in Worker :
      Owns(w) /\ Finished(w) => /\ gen[task[w].proj].head <= seen[w]
                                /\ gen[task[w].proj].content <= seen[w]

FenceInv == TypeInv /\ PublishedKnown /\ RunKnown /\ OwnerIsCurrent /\ LastKnownGoodBacked

\* The fence holds at the start.
LEMMA FenceInit == Init => FenceInv
<1> SUFFICES ASSUME Init PROVE FenceInv
  OBVIOUS
<1>1. PublishedKnown /\ LastKnownGoodBacked
  BY DEF Init, PublishedKnown, LastKnownGoodBacked, NoLease
<1>2. \A w \in Worker : ~Finished(w) /\ child[w] # "staged"
  BY DEF Init, Finished
<1> QED
  BY <1>1, <1>2, TypeInit DEF FenceInv, RunKnown, OwnerIsCurrent

(* A step that publishes nothing, finishes no update and hands the lease to *)
(* nobody who has a finished run.                                           *)
LEMMA QuietStep ==
  ASSUME FenceInv, TypeInv', UNCHANGED gen,
         \A p \in Project : head[p] <= head'[p],
         lease'.lkg = lease.lkg \/ lease' = NoLease,
         \A w \in Worker :
            \/ ~Finished(w)'
            \/ /\ child'[w] = child[w] /\ task'[w] = task[w]
               /\ seen'[w] = seen[w] /\ actual'[w] = actual[w]
               /\ Owns(w)' => Owns(w)
  PROVE  FenceInv'
<1>1. \A p \in Project : /\ head[p] \in Nat /\ head'[p] \in Nat
                         /\ gen[p].head \in Nat /\ gen[p].content \in Nat
  BY FreshnessAssumption DEF FenceInv, TypeInv, TypeOK, Heads
<1>2. \A w \in Worker : seen[w] \in Nat /\ actual[w] \in Nat
  BY FreshnessAssumption DEF FenceInv, TypeInv, TypeOK, Heads
<1>3. \A w \in Worker : Finished(w) \/ child[w] = "staged" => task[w].proj \in Project
  <2> SUFFICES ASSUME NEW w \in Worker, child[w] # "none" PROVE task[w].proj \in Project
    BY DEF Finished
  <2> QED
    BY TaskFields DEF FenceInv, TypeInv, TypeOK, Shape
<1>4. PublishedKnown'
  BY <1>1 DEF FenceInv, PublishedKnown
<1>5. RunKnown'
  <2> SUFFICES ASSUME NEW w \in Worker, Finished(w)'
               PROVE  /\ seen'[w] <= head'[task'[w].proj]
                      /\ child'[w] = "staged" =>
                           seen'[w] <= actual'[w] /\ actual'[w] <= head'[task'[w].proj]
    BY DEF RunKnown, Finished
  <2>1. /\ child'[w] = child[w] /\ task'[w] = task[w]
        /\ seen'[w] = seen[w] /\ actual'[w] = actual[w]
    OBVIOUS
  <2>2. Finished(w)
    BY <2>1 DEF Finished
  <2> QED
    BY <1>1, <1>2, <1>3, <2>1, <2>2 DEF FenceInv, RunKnown
<1>6. OwnerIsCurrent'
  <2> SUFFICES ASSUME NEW w \in Worker, Owns(w)', Finished(w)'
               PROVE  /\ gen'[task'[w].proj].head <= seen'[w]
                      /\ gen'[task'[w].proj].content <= seen'[w]
    BY DEF OwnerIsCurrent
  <2>1. /\ child'[w] = child[w] /\ task'[w] = task[w]
        /\ seen'[w] = seen[w] /\ Owns(w)
    OBVIOUS
  <2>2. Finished(w)
    BY <2>1 DEF Finished
  <2> QED
    BY <2>1, <2>2 DEF FenceInv, OwnerIsCurrent
<1>7. LastKnownGoodBacked'
  <2>1. CASE lease'.lkg = lease.lkg
    BY <2>1 DEF FenceInv, LastKnownGoodBacked
  <2>2. CASE lease' = NoLease
    BY <1>1, <2>2 DEF LastKnownGoodBacked, NoLease
  <2> QED
    BY <2>1, <2>2
<1> QED
  BY <1>4, <1>5, <1>6, <1>7 DEF FenceInv

(* The owner publishes what its child has seen: never older than before. *)
LEMMA PublishStep ==
  ASSUME FenceInv, TypeInv', NEW w \in Worker, Activatable(w), Owns(w),
         gen' = [gen EXCEPT ![task[w].proj] = Published(w)],
         head' = head,
         lease'.lkg = lease.lkg \/ lease'.lkg = [lease.lkg EXCEPT ![task[w].proj] = actual[w]],
         lease'.pid \in {w, DeadPid},
         \A v \in Worker \ {w} : child'[v] = child[v] /\ task'[v] = task[v]
                                 /\ seen'[v] = seen[v] /\ actual'[v] = actual[v],
         child'[w] = "none"
  PROVE  /\ FenceInv'
         /\ \A p \in Project : gen'[p].content >= gen[p].content /\ gen'[p].head >= gen[p].head
<1> DEFINE q == task[w].proj
<1>1. q \in Project /\ child[w] = "staged"
  BY TaskFields DEF Activatable, Settling, Busy, FenceInv, TypeInv, TypeOK
<1>2. \A p \in Project : /\ head[p] \in Nat /\ gen[p].head \in Nat /\ gen[p].content \in Nat
                         /\ gen'[p].head \in Nat /\ gen'[p].content \in Nat
  <2>1. /\ head \in [Project -> Heads]
        /\ gen \in [Project -> [head : Heads, content : Heads]]
        /\ gen' \in [Project -> [head : Heads, content : Heads]]
    BY DEF FenceInv, TypeInv, TypeOK
  <2>2. Heads \subseteq Nat
    BY FreshnessAssumption DEF Heads
  <2> QED
    BY <2>1, <2>2
<1>3. \A v \in Worker : seen[v] \in Nat /\ actual[v] \in Nat
  BY FreshnessAssumption DEF FenceInv, TypeInv, TypeOK, Heads
<1>4. /\ gen'[q].head = actual[w] /\ gen'[q].content = seen[w]
      /\ \A p \in Project \ {q} : gen'[p] = gen[p]
  BY <1>1 DEF Published, FenceInv, TypeInv, TypeOK
<1>5. /\ gen[q].head <= seen[w] /\ gen[q].content <= seen[w]
      /\ seen[w] <= actual[w] /\ actual[w] <= head[q]
  BY <1>1 DEF FenceInv, RunKnown, OwnerIsCurrent, Finished
<1>6. \A p \in Project : gen'[p].content >= gen[p].content /\ gen'[p].head >= gen[p].head
  BY <1>1, <1>2, <1>3, <1>4, <1>5
<1>7. PublishedKnown'
  BY <1>1, <1>2, <1>3, <1>4, <1>5 DEF FenceInv, PublishedKnown
<1>8. RunKnown'
  <2> SUFFICES ASSUME NEW v \in Worker, Finished(v)'
               PROVE  /\ seen'[v] <= head'[task'[v].proj]
                      /\ child'[v] = "staged" =>
                           seen'[v] <= actual'[v] /\ actual'[v] <= head'[task'[v].proj]
    BY DEF RunKnown, Finished
  <2>1. v # w
    BY DEF Finished
  <2> QED
    BY <2>1 DEF FenceInv, RunKnown, Finished
<1>9. OwnerIsCurrent'
  <2> SUFFICES ASSUME NEW v \in Worker, Owns(v)', Finished(v)' PROVE FALSE
    BY DEF OwnerIsCurrent
  <2> QED
    BY FreshnessAssumption DEF Finished, Owns
<1>10. LastKnownGoodBacked'
  <2>1. lease.lkg \in [Project -> Heads]
    BY LeaseFields DEF FenceInv, TypeInv, TypeOK
  <2>2. \A p \in Project : lease.lkg[p] \in Nat
    BY <2>1, FreshnessAssumption DEF Heads
  <2>3. ASSUME NEW p \in Project PROVE lease'.lkg[p] <= gen'[p].head
    <3>1. lease.lkg[p] <= gen[p].head
      BY DEF FenceInv, LastKnownGoodBacked
    <3>2. lease'.lkg[p] = lease.lkg[p] \/ (p = q /\ lease'.lkg[p] = actual[w])
      BY <2>1
    <3> QED
      BY <1>2, <1>3, <1>4, <1>6, <2>2, <3>1, <3>2
  <2> QED
    BY <2>3 DEF LastKnownGoodBacked
<1> QED
  BY <1>6, <1>7, <1>8, <1>9, <1>10 DEF FenceInv

(* The lease still names the same process and election. *)
SameOwner == lease'.pid = lease.pid /\ lease'.epoch = lease.epoch /\ lease'.lkg = lease.lkg

\* Two live workers never share a lease.
LEMMA SameOwnerActive ==
  ASSUME NEW a, lease \in Lease,
         lease' = lease \/ lease' = [lease EXCEPT !.active = a]
                        \/ \E b \in BOOLEAN : lease' = [lease EXCEPT !.fresh = b]
  PROVE  SameOwner
BY DEF SameOwner, Lease

\* Callers preserve the fence.
LEMMA FenceFront ==
  ASSUME FenceInv, TypeInv',
         \/ \E p \in Project : Commit(p) \/ Enqueue(p) \/ CancelRequest(p)
         \/ \E id \in Id : CancelRemove(id)
         \/ \E i \in DOMAIN pending : BackoffElapses(i)
         \/ LeaseExpires
  PROVE  FenceInv' /\ gen' = gen
<1>1. lease \in Lease
  BY DEF FenceInv, TypeInv, TypeOK
<1>2. gen' = gen /\ UNCHANGED run /\ UNCHANGED local
  BY DEF Commit, Enqueue, CancelRequest, CancelRemove, BackoffElapses, LeaseExpires
<1>3. SameOwner
  BY <1>1, SameOwnerActive
     DEF Commit, Enqueue, CancelRequest, CancelRemove, BackoffElapses, LeaseExpires
<1>4. \A p \in Project : head[p] <= head'[p]
  <2>1. \A p \in Project : head[p] \in Nat
    BY FreshnessAssumption DEF FenceInv, TypeInv, TypeOK, Heads
  <2>2. CASE \E p \in Project : Commit(p)
    BY <2>1, <2>2 DEF Commit, FenceInv, TypeInv, TypeOK
  <2>3. CASE head' = head
    BY <2>1, <2>3
  <2> QED
    BY <2>2, <2>3 DEF Enqueue, CancelRequest, CancelRemove, BackoffElapses, LeaseExpires
<1>5. \A w \in Worker : /\ child'[w] = child[w] /\ task'[w] = task[w]
                        /\ seen'[w] = seen[w] /\ actual'[w] = actual[w]
                        /\ (Owns(w)' => Owns(w))
  BY <1>2, <1>3 DEF run, local, SameOwner, Owns
<1> QED
  BY <1>2, <1>3, <1>4, <1>5, QuietStep DEF SameOwner

(* What a step of one worker does to the runs and the claims of the others. *)
LEMMA WorkerQuiet ==
  ASSUME FenceInv, TypeInv', NEW w \in Worker, gen' = gen, head' = head,
         lease'.lkg = lease.lkg \/ lease' = NoLease,
         \/ SameOwner
         \/ lease'.pid = w /\ lease'.lkg = lease.lkg
         \/ lease'.pid \in {NoPid, DeadPid},
         ~Finished(w)',
         \A v \in Worker \ {w} : /\ child'[v] = child[v] /\ task'[v] = task[v]
                                 /\ seen'[v] = seen[v] /\ actual'[v] = actual[v]
                                 /\ epoch'[v] = epoch[v]
  PROVE  FenceInv'
<1>1. \A p \in Project : head[p] <= head'[p]
  BY FreshnessAssumption DEF FenceInv, TypeInv, TypeOK, Heads
<1>2. ASSUME NEW v \in Worker \ {w}, Owns(v)' PROVE Owns(v)
  BY <1>2, FreshnessAssumption DEF Owns, SameOwner
<1> QED
  BY <1>1, <1>2, QuietStep

\* A worker that vanishes publishes nothing.
LEMMA VanishQuiet ==
  ASSUME FenceInv, NEW w \in Worker, NEW state \in Lease, Vanish(w, state),
         state.pid = lease.pid, state.epoch = lease.epoch, state.lkg = lease.lkg
  PROVE  /\ SameOwner \/ (lease'.pid = DeadPid /\ lease'.lkg = lease.lkg)
         /\ ~Finished(w)'
         /\ \A v \in Worker \ {w} : /\ child'[v] = child[v] /\ task'[v] = task[v]
                                    /\ seen'[v] = seen[v] /\ actual'[v] = actual[v]
                                    /\ epoch'[v] = epoch[v]
<1>1. SameOwner \/ (lease'.pid = DeadPid /\ lease'.lkg = lease.lkg)
  BY DEF Vanish, SameOwner, Lease
<1> QED
  BY <1>1 DEF Vanish, EndRun, Finished, FenceInv, TypeInv, TypeOK

\* Workers that start, leave or die preserve the fence.
LEMMA FenceLife ==
  ASSUME FenceInv, TypeInv', NEW w \in Worker,
         \/ Start(w) \/ Recover(w) \/ FinishStart(w) \/ Stop(w) \/ Exit(w) \/ Crash(w)
         \/ ClaimCrash(w) \/ RequeueCrash(w)
  PROVE  FenceInv' /\ gen' = gen
<1>0. /\ lease \in Lease /\ epoch \in [Worker -> Nat] /\ pending \in Seq(Task)
      /\ child[w] # "none" => task[w] # NoTask
      /\ pc[w] = "off" => child[w] = "none"
  BY DEF FenceInv, TypeInv, TypeOK, Shape
<1>1. CASE Start(w)
  <2>1. lease'.pid = w /\ lease'.lkg = lease.lkg
    BY <1>0, <1>1 DEF Start, Lease
  <2>2. ~Finished(w)'
    BY <1>0, <1>1 DEF Start, run, Finished
  <2>3. \A v \in Worker \ {w} : epoch'[v] = epoch[v]
    BY <1>0, <1>1 DEF Start
  <2> QED
    BY <1>1, <2>1, <2>2, <2>3, WorkerQuiet DEF Start, run
<1>2. CASE Recover(w) \/ FinishStart(w) \/ Stop(w)
  <2>1. SameOwner
    BY <1>0, <1>2, SameOwnerActive DEF Recover, FinishStart, Stop, disk
  <2>2. gen' = gen /\ head' = head /\ UNCHANGED run /\ epoch' = epoch
    BY <1>2 DEF Recover, FinishStart, Stop, disk
  <2>3. \A p \in Project : head[p] <= head'[p]
    BY <2>2, FreshnessAssumption DEF FenceInv, TypeInv, TypeOK, Heads
  <2> QED
    BY <2>1, <2>2, <2>3, QuietStep DEF run, SameOwner, Owns
<1>3. CASE Exit(w)
  <2>1. SameOwner \/ (lease' = NoLease /\ lease'.pid = NoPid)
    BY <1>0, <1>3, SameOwnerActive DEF Exit, NoLease
  <2>2. ~Finished(w)'
    BY <1>0, <1>3 DEF Exit, run, Finished, Busy
  <2>3. \A v \in Worker \ {w} : epoch'[v] = epoch[v]
    BY <1>0, <1>3 DEF Exit
  <2> QED
    BY <1>3, <2>1, <2>2, <2>3, WorkerQuiet DEF Exit, run, SameOwner
<1>4. ASSUME NEW state \in Lease, Vanish(w, state), state.pid = lease.pid,
             state.epoch = lease.epoch, state.lkg = lease.lkg, gen' = gen, head' = head
      PROVE  FenceInv'
  <2>1. /\ SameOwner \/ (lease'.pid = DeadPid /\ lease'.lkg = lease.lkg)
        /\ ~Finished(w)'
        /\ \A v \in Worker \ {w} : /\ child'[v] = child[v] /\ task'[v] = task[v]
                                   /\ seen'[v] = seen[v] /\ actual'[v] = actual[v]
                                   /\ epoch'[v] = epoch[v]
    BY <1>4, VanishQuiet
  <2>2. lease'.lkg = lease.lkg
    BY <2>1 DEF SameOwner
  <2> QED
    BY <1>4, <2>1, <2>2, WorkerQuiet
<1>5. CASE Crash(w)
  BY <1>0, <1>4, <1>5 DEF Crash
<1>6. CASE ClaimCrash(w)
  <2>1. PICK i \in DOMAIN pending : Vanish(w, [lease EXCEPT !.active = pending[i]])
    BY <1>6 DEF ClaimCrash
  <2> DEFINE s == [lease EXCEPT !.active = pending[i]]
  <2>2. s \in Lease /\ s.pid = lease.pid /\ s.epoch = lease.epoch /\ s.lkg = lease.lkg
    BY <1>0, PendingEntry DEF Lease
  <2> QED
    BY <1>4, <1>6, <2>1, <2>2 DEF ClaimCrash
<1>7. CASE RequeueCrash(w)
  <2> DEFINE s == [lease EXCEPT !.active = NoTask]
  <2>2. s \in Lease /\ s.pid = lease.pid /\ s.epoch = lease.epoch /\ s.lkg = lease.lkg
    BY <1>0 DEF Lease
  <2> QED
    BY <1>4, <1>7, <2>2 DEF RequeueCrash
<1> QED
  BY <1>1, <1>2, <1>3, <1>5, <1>6, <1>7 DEF Start, Recover, FinishStart, Stop, Exit, Crash, disk

\* Heartbeats preserve the fence.
LEMMA FenceBeat ==
  ASSUME FenceInv, TypeInv', NEW w \in Worker, Heartbeat(w) \/ \E id \in Id : Sweep(w, id)
  PROVE  FenceInv' /\ gen' = gen
<1>1. gen' = gen /\ head' = head /\ epoch' = epoch
      /\ UNCHANGED <<task, child, seen, actual>>
  BY DEF Heartbeat, Sweep
<1>2. SameOwner
  <2>1. lease \in Lease
    BY DEF FenceInv, TypeInv, TypeOK
  <2>2. lease' = lease \/ lease' = [lease EXCEPT !.fresh = TRUE]
    BY DEF Heartbeat, Sweep
  <2> QED
    BY <2>1, <2>2, SameOwnerActive
<1>3. \A p \in Project : head[p] <= head'[p]
  BY <1>1, FreshnessAssumption DEF FenceInv, TypeInv, TypeOK, Heads
<1> QED
  BY <1>1, <1>2, <1>3, QuietStep DEF SameOwner, Owns

\* Claims preserve the fence.
LEMMA FenceWork ==
  ASSUME FenceInv, TypeInv', NEW w \in Worker,
         Claim(w) \/ ChildFail(w) \/ Discard(w) \/ Requeue(w) \/ Aborted(w)
  PROVE  FenceInv' /\ gen' = gen
<1>0. /\ lease \in Lease
      /\ child \in [Worker -> {"none", "updating", "updated", "staged", "failed"}]
      /\ task \in [Worker -> Task \cup {NoTask}]
      /\ seen \in [Worker -> Heads] /\ actual \in [Worker -> Heads]
      /\ abort \in [Worker -> {"none", "cancel", "lost"}]
  BY DEF FenceInv, TypeInv, TypeOK
<1>1. gen' = gen /\ head' = head /\ epoch' = epoch
  BY DEF Claim, ChildFail, Discard, Requeue, Aborted, disk, local
<1>2. SameOwner
  <2>1. CASE lease' = lease
    BY <2>1 DEF SameOwner
  <2>2. ASSUME NEW a, lease' = [lease EXCEPT !.active = a] PROVE SameOwner
    BY <1>0, <2>2, SameOwnerActive
  <2> QED
    BY <2>1, <2>2 DEF Claim, ChildFail, Discard, Requeue, Aborted, disk
<1>3. \A v \in Worker \ {w} : /\ child'[v] = child[v] /\ task'[v] = task[v]
                              /\ seen'[v] = seen[v] /\ actual'[v] = actual[v]
  BY <1>0 DEF Claim, ChildFail, Discard, Requeue, Aborted, EndRun
<1>4. \/ ~Finished(w)'
      \/ /\ child'[w] = child[w] /\ task'[w] = task[w]
         /\ seen'[w] = seen[w] /\ actual'[w] = actual[w]
  BY <1>0 DEF Claim, ChildFail, Discard, Requeue, Aborted, EndRun, Finished
<1>5. \A p \in Project : head[p] <= head'[p]
  BY <1>1, FreshnessAssumption DEF FenceInv, TypeInv, TypeOK, Heads
<1> QED
  BY <1>1, <1>2, <1>3, <1>4, <1>5, QuietStep DEF SameOwner, Owns

\* The child preserves the fence.
LEMMA FenceChild ==
  ASSUME FenceInv, TypeInv', NEW w \in Worker, ChildUpdate(w) \/ ChildStage(w)
  PROVE  FenceInv' /\ gen' = gen
<1>0. /\ child \in [Worker -> {"none", "updating", "updated", "staged", "failed"}]
      /\ seen \in [Worker -> Heads] /\ actual \in [Worker -> Heads]
      /\ head \in [Project -> Heads]
      /\ gen \in [Project -> [head : Heads, content : Heads]]
      /\ child[w] # "none" /\ task[w] \in Task
  BY DEF FenceInv, TypeInv, TypeOK, Shape, ChildUpdate, ChildStage
<1> DEFINE q == task[w].proj
<1>1. q \in Project /\ head[q] \in Heads
  BY <1>0, TaskFields
<1>2. /\ UNCHANGED <<gen, lease, head, task, epoch>>
      /\ \A v \in Worker \ {w} : /\ child'[v] = child[v] /\ seen'[v] = seen[v]
                                 /\ actual'[v] = actual[v]
  BY <1>0 DEF ChildUpdate, ChildStage, disk, local
<1>3. /\ Heads \subseteq Nat /\ head[q] \in Nat /\ head[q] <= head[q]
      /\ head'[task'[w].proj] = head[q]
  <2>1. Heads \subseteq Nat
    BY FreshnessAssumption DEF Heads
  <2>2. head[q] \in Nat
    BY <1>1, <2>1
  <2>3. head[q] <= head[q]
    BY <2>2
  <2>4. head' = head /\ task' = task
    BY <1>2
  <2> QED
    BY <2>1, <2>2, <2>3, <2>4
<1>4. CASE ChildUpdate(w)
  <2>1. child'[w] = "updated" /\ seen'[w] = head[q]
    BY <1>0, <1>4 DEF ChildUpdate
  <2>2. RunKnown'
    <3>1. seen'[w] <= head'[task'[w].proj] /\ child'[w] # "staged"
      BY <1>1, <1>2, <1>3, <2>1
    <3> QED
      BY <1>2, <3>1 DEF FenceInv, RunKnown, Finished
  <2>3. OwnerIsCurrent'
    BY <1>1, <1>2, <1>3, <2>1
       DEF FenceInv, OwnerIsCurrent, PublishedKnown, Finished, Owns
  <2> QED
    BY <1>2, <2>2, <2>3 DEF FenceInv, PublishedKnown, LastKnownGoodBacked
<1>5. CASE ChildStage(w)
  <2>1. /\ child[w] = "updated" /\ child'[w] = "staged" /\ actual'[w] = head[q]
        /\ seen' = seen
    BY <1>0, <1>5 DEF ChildStage
  <2>2. RunKnown'
    <3>1. /\ seen'[w] <= head'[task'[w].proj]
          /\ seen'[w] <= actual'[w] /\ actual'[w] <= head'[task'[w].proj]
      BY <1>0, <1>1, <1>2, <1>3, <2>1 DEF FenceInv, RunKnown, Finished
    <3> QED
      BY <1>2, <3>1 DEF FenceInv, RunKnown, Finished
  <2>3. OwnerIsCurrent'
    BY <1>1, <1>2, <2>1 DEF FenceInv, OwnerIsCurrent, Finished, Owns
  <2> QED
    BY <1>2, <2>2, <2>3 DEF FenceInv, PublishedKnown, LastKnownGoodBacked
<1> QED
  BY <1>2, <1>4, <1>5

NoRegress == \A p \in Project : gen'[p].content >= gen[p].content
                               /\ gen'[p].head >= gen[p].head

\* Publishing preserves the fence, and never goes back.
LEMMA FencePublish ==
  ASSUME FenceInv, TypeInv', NEW w \in Worker, Activate(w) \/ ActivateCrash(w)
  PROVE  FenceInv' /\ (gen' = gen \/ NoRegress)
<1>0. /\ lease \in Lease
      /\ child \in [Worker -> {"none", "updating", "updated", "staged", "failed"}]
      /\ task \in [Worker -> Task \cup {NoTask}]
      /\ seen \in [Worker -> Heads] /\ actual \in [Worker -> Heads]
      /\ abort \in [Worker -> {"none", "cancel", "lost"}]
  BY DEF FenceInv, TypeInv, TypeOK
<1>1. EndRun(w) /\ head' = head
  BY DEF Activate, ActivateCrash, Vanish
<1>2. /\ child'[w] = "none" /\ ~Finished(w)'
      /\ \A v \in Worker \ {w} : /\ child'[v] = child[v] /\ task'[v] = task[v]
                                 /\ seen'[v] = seen[v] /\ actual'[v] = actual[v]
  BY <1>0, <1>1 DEF EndRun, Finished
<1>3. CASE Activate(w) /\ Owns(w)
  <2>1. /\ lease'.lkg = [lease.lkg EXCEPT ![task[w].proj] = actual[w]]
        /\ lease'.pid = w
    BY <1>0, <1>3 DEF Activate, Lease, Owns
  <2> QED
    BY <1>1, <1>2, <1>3, <2>1, PublishStep DEF Activate, NoRegress
<1>4. CASE Activate(w) /\ ~Owns(w)
  <2>1. gen' = gen /\ lease' = lease /\ epoch' = epoch
    BY <1>4 DEF Activate
  <2>2. SameOwner
    BY <2>1 DEF SameOwner
  <2> QED
    BY <1>1, <1>2, <2>1, <2>2, WorkerQuiet
<1>5. CASE ActivateCrash(w)
  <2>1. /\ lease'.lkg = lease.lkg /\ lease'.pid = DeadPid
    BY <1>0, <1>5 DEF ActivateCrash, Vanish, Lease, Owns
  <2> QED
    BY <1>1, <1>2, <1>5, <2>1, PublishStep DEF ActivateCrash, NoRegress
<1> QED
  BY <1>3, <1>4, <1>5

\* Every step preserves the fence, and no generation goes back.
LEMMA FenceStep == FenceInv /\ [Next]_vars => FenceInv' /\ (gen' = gen \/ NoRegress)
<1> SUFFICES ASSUME FenceInv, [Next]_vars PROVE FenceInv' /\ (gen' = gen \/ NoRegress)
  OBVIOUS
<1>1. TypeInv'
  BY TypeStep DEF FenceInv
<1>2. CASE UNCHANGED vars
  <2>1. UNCHANGED <<head, gen, lease, epoch, task, child, seen, actual>>
    BY <1>2 DEF vars, disk, run, local
  <2> QED
    BY <1>1, <2>1 DEF FenceInv, PublishedKnown, RunKnown, OwnerIsCurrent,
                      LastKnownGoodBacked, Finished, Owns
<1>3. ASSUME NEW w \in Worker, Work(w) \/ Faults(w)
      PROVE  FenceInv' /\ (gen' = gen \/ NoRegress)
  BY <1>1, <1>3, FenceLife, FenceWork, FenceChild, FencePublish DEF Work, Faults
<1> QED
  BY <1>1, <1>2, <1>3, FenceFront, FenceLife, FenceBeat, FenceWork DEF Next

(* The fence holds whatever stalls, takeovers, crashes and restarts happen: *)
(* what is published of a project, and the commit it was built from, never  *)
(* go back to an older one.                                                 *)
THEOREM FencedPublication == Spec => NeverRegresses
<1>1. FenceInv /\ [Next]_vars => [NoRegress]_vars
  <2> SUFFICES ASSUME FenceInv, [Next]_vars, gen' = gen PROVE NoRegress \/ UNCHANGED vars
    BY FenceStep
  <2>1. \A p \in Project : gen[p].head \in Nat /\ gen[p].content \in Nat
    BY FreshnessAssumption DEF FenceInv, TypeInv, TypeOK, Heads
  <2> QED
    BY <2>1 DEF NoRegress
<1>2. FenceInv /\ [Next]_vars => FenceInv'
  BY FenceStep
<1> QED
  BY FenceInit, <1>1, <1>2, PTL DEF Spec, NeverRegresses, NoRegress

(* Last-known-good always names a publication that happened. *)
THEOREM LastKnownGoodTrue == Spec => []LastKnownGoodBacked
<1>1. FenceInv /\ [Next]_vars => FenceInv'
  BY FenceStep
<1>2. FenceInv => LastKnownGoodBacked
  BY DEF FenceInv
<1> QED
  BY FenceInit, <1>1, <1>2, PTL DEF Spec
-----------------------------------------------------------------------------
(***************************************************************************)
(* The claim.  A pid in the state file names a process that is up and has  *)
(* never been superseded, and what the file says it works on is what it    *)
(* recovers, or runs.                                                      *)
(***************************************************************************)
Claimed(w) ==
    /\ pc[w] \notin {"off", "down"} /\ lease.epoch = epoch[w]
    /\ abort[w] # "lost"
    /\ pc[w] \in {"elected", "recovered"} => lease.active = orphan[w] /\ ~Busy(w)
    /\ pc[w] \in {"up", "stopping"} => lease.active = task[w]

ClaimInv == \A w \in Worker : (lease.pid = w => Claimed(w)) /\ (~Busy(w) => abort[w] = "none")

\* There is no claim at the start.
LEMMA ClaimInit == Init => ClaimInv
BY FreshnessAssumption DEF Init, NoLease, ClaimInv, Busy

\* A worker owns the lease as soon as the state file names its pid.
LEMMA PidOwns ==
  ASSUME ClaimInv, NEW w \in Worker
  PROVE  Owns(w) <=> lease.pid = w
BY DEF ClaimInv, Claimed, Owns

\* A step that leaves the run and the life of a worker alone, and of the lease its owner
\* and its task, leaves its claim alone.
LEMMA SameClaim ==
  ASSUME ClaimInv, NEW w \in Worker,
         lease'.pid = w => lease.pid = w /\ lease'.epoch = lease.epoch
                                         /\ lease'.active = lease.active,
         pc'[w] = pc[w], epoch'[w] = epoch[w], orphan'[w] = orphan[w],
         task'[w] = task[w], abort'[w] = abort[w]
  PROVE  (lease'.pid = w => Claimed(w)') /\ (~Busy(w)' => abort'[w] = "none")
BY DEF ClaimInv, Claimed, Busy

\* Callers, sweeps and the child leave the claims alone.
LEMMA ClaimFront ==
  ASSUME TypeInv, ClaimInv,
         \/ \E p \in Project : Commit(p) \/ Enqueue(p) \/ CancelRequest(p)
         \/ \E id \in Id : CancelRemove(id)
         \/ \E i \in DOMAIN pending : BackoffElapses(i)
         \/ LeaseExpires
         \/ \E w \in Worker : ChildUpdate(w) \/ ChildStage(w) \/ ChildFail(w) \/ Recover(w)
  PROVE  ClaimInv'
<1>1. /\ UNCHANGED <<epoch, orphan, task, abort>>
      /\ lease'.pid = lease.pid /\ lease'.epoch = lease.epoch /\ lease'.active = lease.active
  <2>1. lease' = lease \/ lease' = [lease EXCEPT !.fresh = FALSE]
    BY DEF Commit, Enqueue, CancelRequest, CancelRemove, BackoffElapses, LeaseExpires,
           ChildUpdate, ChildStage, ChildFail, Recover, disk
  <2>2. lease \in Lease
    BY DEF TypeInv, TypeOK
  <2>3. UNCHANGED <<epoch, orphan, task, abort>>
    BY DEF Commit, Enqueue, CancelRequest, CancelRemove, BackoffElapses, LeaseExpires,
           ChildUpdate, ChildStage, ChildFail, Recover, run, local
  <2> QED
    BY <2>1, <2>2, <2>3 DEF Lease
<1>2. CASE pc' = pc
  BY <1>1, <1>2, SameClaim DEF ClaimInv
<1>3. ASSUME NEW w \in Worker, Recover(w) PROVE ClaimInv'
  <2>1. pc \in [Worker -> {"off", "elected", "recovered", "up", "stopping", "down"}]
    BY DEF TypeInv, TypeOK
  <2> QED
    BY <1>1, <1>3, <2>1 DEF Recover, ClaimInv, Claimed, Busy
<1> QED
  BY <1>2, <1>3 DEF Commit, Enqueue, CancelRequest, CancelRemove, BackoffElapses, LeaseExpires,
                    ChildUpdate, ChildStage, ChildFail, local

\* What a worker that stands down leaves: it did not own the lease.
LEMMA StandDownClaim ==
  ASSUME TypeInv, NEW w \in Worker,
         StandDown(w) \/ StandDownUnlessOwner(w) \/ UNCHANGED <<pc, superseded>>
  PROVE  /\ Owns(w) /\ ~StandDown(w) => pc' = pc
         /\ \A v \in Worker \ {w} : pc'[v] = pc[v]
BY DEF StandDownUnlessOwner, StandDown, TypeInv, TypeOK

\* A worker that vanishes leaves a pid that names nobody.
LEMMA VanishClaim ==
  ASSUME TypeInv, ClaimInv, NEW w \in Worker, NEW state \in Lease, Vanish(w, state),
         state.pid = lease.pid, state.epoch = lease.epoch,
         state.active = lease.active \/ lease.pid = w
  PROVE  ClaimInv'
<1> USE FreshnessAssumption DEF TypeInv, TypeOK
<1>1. lease'.pid # w
  BY DEF Vanish, Lease
<1>2. task'[w] = NoTask /\ abort'[w] = "none"
  BY DEF Vanish, EndRun
<1>3. ASSUME NEW v \in Worker \ {w}
      PROVE  (lease'.pid = v => Claimed(v)') /\ (~Busy(v)' => abort'[v] = "none")
  <2>1. /\ pc'[v] = pc[v] /\ epoch'[v] = epoch[v] /\ orphan'[v] = orphan[v]
        /\ task'[v] = task[v] /\ abort'[v] = abort[v]
    BY DEF Vanish, EndRun
  <2>2. lease'.pid = v => lease.pid = v /\ lease'.epoch = lease.epoch
                                        /\ lease'.active = lease.active
    BY DEF Vanish, Lease
  <2> QED
    BY <2>1, <2>2, SameClaim
<1> QED
  BY <1>1, <1>2, <1>3 DEF ClaimInv, Busy

\* A run that ends: the owner has let go of its claim, and another one its lease.
LEMMA SettleClaim ==
  ASSUME TypeInv, ClaimInv, NEW w \in Worker, Busy(w), EndRun(w),
         StandDown(w) \/ StandDownUnlessOwner(w) \/ UNCHANGED <<pc, superseded>>,
         Owns(w) => /\ pc' = pc /\ lease'.active = NoTask
                    /\ lease'.pid = lease.pid /\ lease'.epoch = lease.epoch,
         ~Owns(w) => lease' = lease,
         UNCHANGED <<epoch, orphan>>
  PROVE  ClaimInv'
<1> USE DEF TypeInv, TypeOK
<1>1. task'[w] = NoTask /\ abort'[w] = "none"
  BY DEF EndRun
<1>2. lease'.pid = w => Claimed(w)'
  BY <1>1, PidOwns DEF ClaimInv, Claimed, Busy
<1>3. ASSUME NEW v \in Worker \ {w}
      PROVE  (lease'.pid = v => Claimed(v)') /\ (~Busy(v)' => abort'[v] = "none")
  <2>1. task'[v] = task[v] /\ abort'[v] = abort[v]
    BY DEF EndRun
  <2>2. pc'[v] = pc[v]
    BY StandDownClaim
  <2>3. lease'.pid = v => lease' = lease
    BY PidOwns
  <2> QED
    BY <2>1, <2>2, <2>3, SameClaim
<1> QED
  BY <1>1, <1>2, <1>3 DEF ClaimInv

\* Workers that start, leave or die keep the claims.
LEMMA ClaimLife ==
  ASSUME TypeInv, ClaimInv, NEW w \in Worker,
         Start(w) \/ FinishStart(w) \/ Stop(w) \/ Exit(w) \/ Crash(w) \/ ClaimCrash(w)
         \/ ActivateCrash(w) \/ RequeueCrash(w)
  PROVE  ClaimInv'
<1>0. /\ lease \in Lease /\ pending \in Seq(Task) /\ epoch \in [Worker -> Nat]
      /\ pc \in [Worker -> {"off", "elected", "recovered", "up", "stopping", "down"}]
      /\ orphan \in [Worker -> Task \cup {NoTask}]
      /\ pc[w] = "off" => task[w] = NoTask
  BY DEF TypeInv, TypeOK, Shape
<1>1. ASSUME NEW s \in Lease, Vanish(w, s), s.pid = lease.pid, s.epoch = lease.epoch,
             s.active = lease.active \/ Owns(w)
      PROVE  ClaimInv'
  BY <1>1, VanishClaim DEF Owns
<1>2. ASSUME \A v \in Worker \ {w} :
               /\ lease'.pid = v => lease.pid = v /\ lease'.epoch = lease.epoch
                                                  /\ lease'.active = lease.active
               /\ pc'[v] = pc[v] /\ epoch'[v] = epoch[v] /\ orphan'[v] = orphan[v]
               /\ task'[v] = task[v] /\ abort'[v] = abort[v],
             (lease'.pid = w => Claimed(w)') /\ (~Busy(w)' => abort'[w] = "none")
      PROVE  ClaimInv'
  BY <1>2, SameClaim DEF ClaimInv
<1>3. CASE Start(w)
  <2>1. /\ lease'.pid = w /\ lease'.active = lease.active /\ lease'.epoch = epoch'[w]
        /\ UNCHANGED <<task, abort>> /\ orphan'[w] = lease.active
        /\ pc'[w] = IF lease.active = NoTask THEN "up" ELSE "elected"
    BY <1>0, <1>3 DEF Start, Lease, run
  <2>2. \A v \in Worker \ {w} : pc'[v] = pc[v] /\ epoch'[v] = epoch[v] /\ orphan'[v] = orphan[v]
    BY <1>0, <1>3 DEF Start
  <2>3. abort[w] = "none" /\ task[w] = NoTask
    BY <1>0, <1>3 DEF Start, ClaimInv, Busy
  <2>4. Claimed(w)' /\ (~Busy(w)' => abort'[w] = "none")
    BY <2>1, <2>3 DEF Claimed, Busy
  <2> QED
    BY <1>2, <2>1, <2>2, <2>4
<1>4. CASE FinishStart(w)
  <2>1. /\ lease'.pid = lease.pid /\ lease'.epoch = lease.epoch
        /\ lease'.active = IF Owns(w) THEN NoTask ELSE lease.active
        /\ UNCHANGED <<task, abort, epoch>> /\ pc'[w] = "up"
    BY <1>0, <1>4 DEF FinishStart, Lease, run
  <2>2. \A v \in Worker \ {w} : pc'[v] = pc[v] /\ orphan'[v] = orphan[v]
    BY <1>0, <1>4 DEF FinishStart
  <2>3. lease'.pid = w => Claimed(w)'
    BY <1>4, <2>1, PidOwns DEF FinishStart, ClaimInv, Claimed, Busy
  <2> QED
    BY <1>2, <2>1, <2>2, <2>3, PidOwns DEF ClaimInv, Busy
<1>5. CASE Stop(w)
  BY <1>0, <1>2, <1>5 DEF Stop, disk, run, ClaimInv, Claimed, Busy
<1>6. CASE Exit(w)
  <2>1. lease' = lease \/ lease'.pid = NoPid
    BY <1>6 DEF Exit, NoLease
  <2>2. lease'.pid # w
    BY <1>6, <2>1, PidOwns, FreshnessAssumption DEF Exit, ClaimInv, Claimed, NoLease
  <2>3. \A v \in Worker \ {w} : pc'[v] = pc[v] /\ epoch'[v] = epoch[v]
    BY <1>0, <1>6 DEF Exit
  <2> QED
    BY <1>2, <1>6, <2>1, <2>2, <2>3, FreshnessAssumption DEF Exit, run, ClaimInv, Busy
<1>7. CASE Crash(w)
  BY <1>0, <1>1, <1>7 DEF Crash
<1>8. CASE ClaimCrash(w)
  <2>1. PICK i \in DOMAIN pending :
          Owns(w) /\ Vanish(w, [lease EXCEPT !.active = pending[i]])
    BY <1>8 DEF ClaimCrash
  <2> DEFINE s == [lease EXCEPT !.active = pending[i]]
  <2>2. s \in Lease /\ s.pid = lease.pid /\ s.epoch = lease.epoch
    BY <1>0, PendingEntry DEF Lease
  <2> QED
    BY <1>1, <2>1, <2>2
<1>9. CASE ActivateCrash(w)
  BY <1>0, <1>1, <1>9 DEF ActivateCrash
<1>10. CASE RequeueCrash(w)
  <2> DEFINE s == [lease EXCEPT !.active = NoTask]
  <2>1. s \in Lease /\ s.pid = lease.pid /\ s.epoch = lease.epoch
    BY <1>0 DEF Lease
  <2> QED
    BY <1>1, <1>10, <2>1 DEF RequeueCrash
<1> QED
  BY <1>3, <1>4, <1>5, <1>6, <1>7, <1>8, <1>9, <1>10

\* A heartbeat, a sweep, a claim and every end of a run keep the claims.
LEMMA ClaimWork ==
  ASSUME TypeInv, ClaimInv, NEW w \in Worker,
         \/ Heartbeat(w) \/ (\E id \in Id : Sweep(w, id)) \/ Claim(w)
         \/ Discard(w) \/ Activate(w) \/ Requeue(w) \/ Aborted(w)
  PROVE  ClaimInv'
<1>0. /\ lease \in Lease /\ pending \in Seq(Task)
      /\ pc \in [Worker -> {"off", "elected", "recovered", "up", "stopping", "down"}]
      /\ task \in [Worker -> Task \cup {NoTask}]
      /\ abort \in [Worker -> {"none", "cancel", "lost"}]
      /\ superseded \in [Worker -> BOOLEAN]
  BY DEF TypeInv, TypeOK
<1>1. ASSUME ~Owns(w), Surrender(w), UNCHANGED <<lease, task, epoch, orphan>>
      PROVE  ClaimInv'
  <2>1. lease'.pid # w
    BY <1>1, PidOwns
  <2>2. ~Busy(w)' => abort'[w] = "none"
    BY <1>0, <1>1 DEF Surrender, ClaimInv, Busy
  <2>3. \A v \in Worker \ {w} : pc'[v] = pc[v] /\ abort'[v] = abort[v]
    BY <1>0, <1>1 DEF Surrender, StandDown
  <2> QED
    BY <1>1, <2>1, <2>2, <2>3, SameClaim DEF ClaimInv
<1>2. CASE Heartbeat(w)
  <2>1. CASE Owns(w)
    <3>1. /\ lease'.pid = lease.pid /\ lease'.epoch = lease.epoch
          /\ lease'.active = lease.active
          /\ UNCHANGED <<pc, abort, task, epoch, orphan>>
      BY <1>0, <1>2, <2>1 DEF Heartbeat, Lease
    <3> QED
      BY <3>1, SameClaim DEF ClaimInv
  <2>2. CASE ~Owns(w)
    BY <1>1, <1>2, <2>2 DEF Heartbeat
  <2> QED
    BY <2>1, <2>2
<1>3. ASSUME NEW id \in Id, Sweep(w, id) PROVE ClaimInv'
  <2>1. UNCHANGED <<lease, task, pc, epoch, orphan>>
    BY <1>3 DEF Sweep
  <2>2. abort' = abort \/ (Busy(w) /\ abort' = [abort EXCEPT ![w] = "cancel"])
    BY <1>3 DEF Sweep
  <2> QED
    BY <1>0, <2>1, <2>2 DEF ClaimInv, Claimed, Busy
<1>4. CASE Claim(w)
  <2>1. CASE Owns(w)
    <3>1. PICK i \in DOMAIN pending :
            /\ lease' = [lease EXCEPT !.active = pending[i]]
            /\ task' = [task EXCEPT ![w] = pending[i]]
            /\ Claimable(w, i)
      BY <1>4, <2>1 DEF Claim
    <3>2. /\ lease'.pid = lease.pid /\ lease'.epoch = lease.epoch
          /\ lease'.active = pending[i] /\ task'[w] = pending[i]
          /\ \A v \in Worker \ {w} : task'[v] = task[v]
          /\ UNCHANGED <<pc, abort, epoch, orphan>>
      BY <1>0, <1>4, <2>1, <3>1 DEF Claim, Lease
    <3>3. pending[i] # NoTask /\ pc[w] = "up" /\ ~Busy(w) /\ lease.pid = w
      BY <1>0, <2>1, <3>1, PendingEntry, NoTaskAssumption DEF Claimable, Owns
    <3>4. Claimed(w)' /\ Busy(w)'
      BY <3>2, <3>3 DEF ClaimInv, Claimed, Busy
    <3> QED
      BY <3>2, <3>3, <3>4, SameClaim DEF ClaimInv
  <2>2. CASE ~Owns(w)
    <3>1. Surrender(w) /\ UNCHANGED <<lease, task, epoch, orphan>>
      BY <1>4, <2>2 DEF Claim
    <3> QED
      BY <1>1, <2>2, <3>1
  <2> QED
    BY <2>1, <2>2
<1>5. CASE Discard(w) \/ Activate(w) \/ Requeue(w)
  <2>1. Busy(w) /\ EndRun(w) /\ StandDownUnlessOwner(w) /\ UNCHANGED <<epoch, orphan>>
    BY <1>5 DEF Discard, Activate, Activatable, Requeue, Requeueable, Settling
  <2>2. Owns(w) => /\ pc' = pc /\ lease'.active = NoTask
                   /\ lease'.pid = lease.pid /\ lease'.epoch = lease.epoch
    BY <1>0, <1>5, <2>1 DEF Discard, Activate, Requeue, Lease, StandDownUnlessOwner
  <2>3. ~Owns(w) => lease' = lease
    BY <1>5 DEF Discard, Activate, Requeue
  <2> QED
    BY <2>1, <2>2, <2>3, SettleClaim
<1>6. CASE Aborted(w)
  <2>1. Busy(w) /\ EndRun(w) /\ UNCHANGED <<epoch, orphan>>
        /\ (StandDownUnlessOwner(w) \/ UNCHANGED <<pc, superseded>>)
    BY <1>6 DEF Aborted, Settling
  <2>2. Owns(w) => abort[w] = "cancel"
    BY <1>0, <1>6, PidOwns DEF Aborted, ClaimInv, Claimed
  <2>3. Owns(w) => /\ pc' = pc /\ lease'.active = NoTask
                   /\ lease'.pid = lease.pid /\ lease'.epoch = lease.epoch
    BY <1>0, <1>6, <2>1, <2>2 DEF Aborted, Lease, StandDownUnlessOwner
  <2>4. ~Owns(w) => lease' = lease
    BY <1>6 DEF Aborted
  <2> QED
    BY <2>1, <2>3, <2>4, SettleClaim
<1> QED
  BY <1>2, <1>3, <1>4, <1>5, <1>6

\* Every step keeps the claims.
LEMMA ClaimNext == TypeInv /\ ClaimInv /\ [Next]_vars => ClaimInv'
<1> SUFFICES ASSUME TypeInv, ClaimInv, [Next]_vars PROVE ClaimInv'
  OBVIOUS
<1>1. CASE UNCHANGED vars
  <2>1. UNCHANGED <<lease, pc, epoch, orphan, task, abort>>
    BY <1>1 DEF vars, disk, run, local
  <2> QED
    BY <2>1, SameClaim DEF ClaimInv
<1>2. ASSUME NEW w \in Worker, Work(w) \/ Faults(w) PROVE ClaimInv'
  BY <1>2, ClaimFront, ClaimLife, ClaimWork DEF Work, Faults
<1> QED
  BY <1>1, <1>2, ClaimFront, ClaimLife, ClaimWork DEF Next

(* A claim never leaks, through discards, cancellations, failures, crashes  *)
(* and takeovers: what the state file says its owner works on is what the   *)
(* owner's run works on.                                                    *)
THEOREM ClaimsNeverLeak == Spec => []ClaimMatchesRun
<1>1. ClaimInv => ClaimMatchesRun
  BY PidOwns DEF ClaimInv, Claimed, ClaimMatchesRun
<1> QED
  BY TypeInit, TypeStep, ClaimInit, ClaimNext, <1>1, PTL DEF Spec
-----------------------------------------------------------------------------
(***************************************************************************)
(* At-least-once.  Every task anywhere is of a commit that was made, so a  *)
(* run that is published covers its task; and the newest head accepted of  *)
(* a project is settled or queued, or nothing but the lease has it and its *)
(* owner is not about to let go of it.                                     *)
(***************************************************************************)
Tasks == ToSet(pending) \cup {lease.active} \cup {orphan[w] : w \in Worker}
                        \cup {task[w] : w \in Worker}

TasksKnown ==
    /\ \A t \in Tasks : t = NoTask \/ t.head <= head[t.proj]
    /\ \A w \in Worker : child[w] = "staged" => task[w].head <= actual[w]

Kept(p) ==
    LET id == <<p, accepted[p]>>
    IN  \/ accepted[p] = 0 \/ gen[p].head >= accepted[p] \/ id \in cancelled
        \/ Queued(id) \/ DeadLettered(id)

OnlyLeased(p) ==
    /\ Leased(<<p, accepted[p]>>)
    /\ \A w \in Worker : lease.pid = w => pc[w] # "recovered" /\ abort[w] # "cancel"

Held == \A p \in Project : Kept(p) \/ OnlyLeased(p)

HeldInv == FenceInv /\ ClaimInv /\ TasksKnown /\ Held

\* What a sequence holds once an element is taken off, replaced or added.
LEMMA RemoveAtElements ==
  ASSUME NEW S, NEW s \in Seq(S), NEW i \in DOMAIN s
  PROVE  /\ ToSet(RemoveAt(s, i)) \subseteq ToSet(s)
         /\ \A e \in ToSet(s) : e = s[i] \/ e \in ToSet(RemoveAt(s, i))
<1> DEFINE r == RemoveAt(s, i)
<1>1. /\ Len(r) = Len(s) - 1 /\ DOMAIN r = 1 .. Len(s) - 1
      /\ \A j \in DOMAIN r : r[j] = IF j < i THEN s[j] ELSE s[j + 1]
  <2> DEFINE a == SubSeq(s, 1, i - 1)
             b == SubSeq(s, i + 1, Len(s))
  <2>1. Len(s) \in Nat /\ i \in 1 .. Len(s)
    OBVIOUS
  <2>2. a \in Seq(S) /\ Len(a) = i - 1 /\ \A j \in 1 .. i - 1 : a[j] = s[j]
    BY <2>1
  <2>3. b \in Seq(S) /\ Len(b) = Len(s) - i /\ \A j \in 1 .. Len(s) - i : b[j] = s[i + j]
    BY <2>1
  <2>4. r = a \o b
    BY DEF RemoveAt
  <2> HIDE DEF r, a, b
  <2>5. r \in Seq(S) /\ Len(r) = Len(s) - 1
    BY <2>1, <2>2, <2>3, <2>4
  <2>6. \A j \in 1 .. Len(s) - 1 : r[j] = IF j < i THEN s[j] ELSE s[j + 1]
    BY <2>1, <2>2, <2>3, <2>4
  <2> QED
    BY <2>1, <2>5, <2>6
<1>2. \A j \in DOMAIN r : r[j] \in ToSet(s)
  BY <1>1 DEF ToSet
<1>3. ASSUME NEW j \in DOMAIN s, j # i PROVE s[j] \in ToSet(r)
  <2>1. CASE j < i
    <3>1. j \in DOMAIN r /\ r[j] = s[j]
      BY <1>1, <2>1
    <3> HIDE DEF r
    <3> QED
      BY <3>1 DEF ToSet
  <2>2. CASE j > i
    <3>1. j - 1 \in DOMAIN r /\ r[j - 1] = s[j]
      BY <1>1, <2>2
    <3> HIDE DEF r
    <3> QED
      BY <3>1 DEF ToSet
  <2> QED
    BY <1>3, <2>1, <2>2
<1> HIDE DEF r
<1>4. ToSet(r) \subseteq ToSet(s)
  BY <1>2 DEF ToSet
<1>5. \A e \in ToSet(s) : e = s[i] \/ e \in ToSet(r)
  BY <1>3 DEF ToSet
<1> QED
  BY <1>4, <1>5 DEF r

\* The entries of a list of which one is replaced.
LEMMA ReplacedElements ==
  ASSUME NEW S, NEW s \in Seq(S), NEW i \in DOMAIN s, NEW e
  PROVE  /\ ToSet([s EXCEPT ![i] = e]) \subseteq ToSet(s) \cup {e}
         /\ e \in ToSet([s EXCEPT ![i] = e])
         /\ \A d \in ToSet(s) : d = s[i] \/ d \in ToSet([s EXCEPT ![i] = e])
BY DEF ToSet

\* The entries of a list to which one is appended.
LEMMA AppendedElements ==
  ASSUME NEW S, NEW s \in Seq(S), NEW e \in S
  PROVE  ToSet(Append(s, e)) = ToSet(s) \cup {e}
<1> DEFINE r == Append(s, e)
<1>1. /\ DOMAIN r = 1 .. Len(s) + 1 /\ DOMAIN s = 1 .. Len(s)
      /\ r[Len(s) + 1] = e /\ \A j \in DOMAIN s : r[j] = s[j]
      /\ \A j \in DOMAIN r : j \in DOMAIN s \/ j = Len(s) + 1
  OBVIOUS
<1>2. Len(s) + 1 \in DOMAIN r /\ \A j \in DOMAIN s : j \in DOMAIN r
  BY <1>1
<1> HIDE DEF r
<1>3. ToSet(r) = ToSet(s) \cup {e}
  BY <1>1, <1>2 DEF ToSet
<1> QED
  BY <1>3 DEF r

\* A task is a task, wherever it is.
LEMMA TasksTyped == TypeInv => \A t \in Tasks : t = NoTask \/ t \in Task
<1> SUFFICES ASSUME TypeInv, NEW t \in Tasks PROVE t = NoTask \/ t \in Task
  OBVIOUS
<1>1. pending \in Seq(Task) /\ lease \in Lease
      /\ orphan \in [Worker -> Task \cup {NoTask}] /\ task \in [Worker -> Task \cup {NoTask}]
  BY DEF TypeInv, TypeOK
<1>2. \A i \in DOMAIN pending : pending[i] \in Task
  BY <1>1, PendingEntry
<1>3. ToSet(pending) \subseteq Task
  BY <1>2 DEF ToSet
<1>4. lease.active \in Task \cup {NoTask}
  BY <1>1 DEF Lease
<1>5. CASE t \in ToSet(pending) \cup {lease.active}
  BY <1>3, <1>4, <1>5
<1>6. CASE \E w \in Worker : t = orphan[w] \/ t = task[w]
  BY <1>1, <1>6
<1> QED
  BY <1>5, <1>6 DEF Tasks

\* Every task is one that was there, or of the commit the project is at.
LEMMA KnownKept ==
  ASSUME TypeInv, TypeInv', TasksKnown, \A p \in Project : head[p] <= head'[p],
         \A t \in Tasks' : \/ t = NoTask \/ t.head = head[t.proj]
                           \/ \E u \in Tasks : u # NoTask /\ IdOf(t) = IdOf(u),
         \A w \in Worker : child'[w] = "staged" =>
            /\ task'[w] = task[w] /\ child[w] # "none"
            /\ \/ child[w] = "staged" /\ actual'[w] = actual[w]
               \/ actual'[w] = head[task[w].proj]
  PROVE  TasksKnown'
<1>1. \A t \in Tasks : t = NoTask \/ t \in Task
  BY TasksTyped
<1>2. (\A t \in Tasks : t = NoTask \/ t \in Task)'
  BY TasksTyped, PTL
<1>3. \A p \in Project : head[p] \in Nat /\ head'[p] \in Nat
  BY FreshnessAssumption DEF TypeInv, TypeOK, Heads
<1>4. \A t \in Task : t.head \in Nat /\ t.proj \in Project
  BY TaskFields, FreshnessAssumption DEF Heads
<1>5. ASSUME NEW t \in Tasks', t # NoTask PROVE t.head <= head'[t.proj]
  <2>1. t \in Task
    BY <1>2, <1>5
  <2>2. t.head <= head[t.proj]
    <3>1. CASE t.head = head[t.proj]
      BY <1>3, <1>4, <2>1, <3>1
    <3>2. ASSUME NEW u \in Tasks, u # NoTask, IdOf(t) = IdOf(u)
          PROVE  t.head <= head[t.proj]
      BY <3>2 DEF TasksKnown, IdOf
    <3> QED
      BY <1>5, <3>1, <3>2
  <2> QED
    BY <1>3, <1>4, <2>1, <2>2
<1>6. ASSUME NEW w \in Worker, child'[w] = "staged" PROVE task'[w].head <= actual'[w]
  <2>1. task[w] \in Task /\ task[w] # NoTask /\ task[w] \in Tasks
    BY <1>6, NoTaskAssumption DEF TypeInv, TypeOK, Shape, Tasks
  <2> QED
    BY <1>6, <2>1 DEF TasksKnown
<1> QED
  BY <1>5, <1>6 DEF TasksKnown

\* Every step keeps the tasks known.
LEMMA KnownNext == TypeInv /\ TypeInv' /\ TasksKnown /\ [Next]_vars => TasksKnown'
<1> SUFFICES ASSUME TypeInv, TypeInv', TasksKnown, [Next]_vars PROVE TasksKnown'
  OBVIOUS
<1>0. /\ pending \in Seq(Task) /\ lease \in Lease /\ head \in [Project -> Heads]
      /\ \A p \in Project : head[p] \in Nat
      /\ orphan \in [Worker -> Task \cup {NoTask}] /\ task \in [Worker -> Task \cup {NoTask}]
      /\ child \in [Worker -> {"none", "updating", "updated", "staged", "failed"}]
      /\ actual \in [Worker -> Heads]
  BY FreshnessAssumption DEF TypeInv, TypeOK, Heads
<1>a. \A p \in Project : head[p] <= head[p]
  BY <1>0
<1> DEFINE Old(t) == \/ t = NoTask \/ t.head = head[t.proj]
                     \/ \E u \in Tasks : u # NoTask /\ IdOf(t) = IdOf(u)
<1>b. \A t \in Tasks : Old(t)
  OBVIOUS
<1>c. ASSUME \A p \in Project : head[p] <= head'[p],
             \A t \in ToSet(pending') : Old(t), Old(lease'.active),
             \A w \in Worker : Old(orphan'[w]) /\ Old(task'[w]),
             \A w \in Worker : child'[w] = "staged" =>
               /\ task'[w] = task[w] /\ child[w] # "none"
               /\ \/ child[w] = "staged" /\ actual'[w] = actual[w]
                  \/ actual'[w] = head[task[w].proj]
      PROVE  TasksKnown'
  <2>1. \A t \in Tasks' : Old(t)
    BY <1>c DEF Tasks
  <2> QED
    BY <1>c, <2>1, KnownKept
<1>d. /\ \A t \in ToSet(pending) : Old(t)
      /\ Old(lease.active) /\ Old(NoTask)
      /\ \A w \in Worker : Old(orphan[w]) /\ Old(task[w])
  BY <1>b DEF Tasks
<1>i. \A j \in DOMAIN pending : pending[j] \in ToSet(pending)
  BY DEF ToSet
<1>j. \A t \in Tasks : \A u : t # NoTask /\ IdOf(u) = IdOf(t) => Old(u)
  OBVIOUS
<1>k. \A t \in ToSet(pending) : t \in Tasks /\ t # NoTask /\ t \in Task
  BY <1>0, <1>i, PendingEntry, NoTaskAssumption DEF Tasks, ToSet
<1> HIDE DEF Old
<1>1. CASE UNCHANGED vars
  BY <1>1, <1>a, <1>c, <1>d DEF vars, disk, run, local
<1>2. ASSUME NEW p \in Project, Commit(p) PROVE TasksKnown'
  <2>1. \A q \in Project : head[q] <= head'[q]
    BY <1>0, <1>2 DEF Commit
  <2> QED
    BY <1>2, <1>c, <1>d, <2>1 DEF Commit, run, local
<1>3. ASSUME NEW p \in Project, Enqueue(p) PROVE TasksKnown'
  <2>1. ASSUME NEW i \in DOMAIN pending,
               pending' = ReplaceAt(pending, i, [pending[i] EXCEPT !.head = head[p]]),
               pending[i].proj = p
        PROVE  \A t \in ToSet(pending') : Old(t)
    <3> DEFINE e == [pending[i] EXCEPT !.head = head[p]]
    <3>1. e.head = head[e.proj]
      BY <1>0, <2>1, PendingEntry DEF Task
    <3>2. Old(e)
      BY <3>1 DEF Old
    <3>3. pending' = [pending EXCEPT ![i] = e]
      BY <1>0, <2>1 DEF ReplaceAt
    <3> HIDE DEF e
    <3>4. ToSet(pending') \subseteq ToSet(pending) \cup {e}
      BY <1>0, <3>3, ReplacedElements
    <3> QED
      BY <1>d, <3>2, <3>4
  <2>2. ASSUME pending' = Append(pending, [proj |-> p, head |-> head[p],
                                           attempts |-> 0, wait |-> FALSE])
        PROVE  \A t \in ToSet(pending') : Old(t)
    <3> DEFINE e == [proj |-> p, head |-> head[p], attempts |-> 0, wait |-> FALSE]
    <3>1. e \in Task /\ e.head = head[e.proj]
      BY <1>0, FreshnessAssumption DEF Task
    <3>2. Old(e)
      BY <3>1 DEF Old
    <3>a. pending' = Append(pending, e)
      BY <2>2
    <3> HIDE DEF e
    <3>3. ToSet(pending') = ToSet(pending) \cup {e}
      BY <1>0, <3>a, <3>1, AppendedElements
    <3> QED
      BY <1>d, <3>2, <3>3
  <2>3. \A t \in ToSet(pending') : Old(t)
    BY <1>3, <2>1, <2>2, Zenon DEF Enqueue, First
  <2> QED
    BY <1>3, <1>a, <1>c, <1>d, <2>3 DEF Enqueue, run, local
<1>4. ASSUME NEW p \in Project, CancelRequest(p) PROVE TasksKnown'
  BY <1>4, <1>a, <1>c, <1>d DEF CancelRequest, run, local
<1>e. ASSUME NEW i \in DOMAIN pending, pending' = RemoveAt(pending, i)
      PROVE  \A t \in ToSet(pending') : Old(t)
  BY <1>0, <1>d, <1>e, RemoveAtElements
<1>5. ASSUME NEW id \in Id, CancelRemove(id) PROVE TasksKnown'
  <2>1. \A t \in ToSet(pending') : Old(t)
    BY <1>5, <1>d, <1>e DEF CancelRemove, First
  <2> QED
    BY <1>5, <1>a, <1>c, <1>d, <2>1 DEF CancelRemove, run, local
<1>6. ASSUME NEW i \in DOMAIN pending, BackoffElapses(i) PROVE TasksKnown'
  <2> DEFINE e == [pending[i] EXCEPT !.wait = FALSE]
  <2>1. IdOf(e) = IdOf(pending[i])
    BY <1>0, PendingEntry DEF IdOf, Task
  <2>2. Old(e)
    BY <1>i, <1>j, <1>k, <2>1
  <2>3. pending' = [pending EXCEPT ![i] = e]
    BY <1>6 DEF BackoffElapses
  <2> HIDE DEF e
  <2>4. ToSet(pending') \subseteq ToSet(pending) \cup {e}
    BY <1>0, <2>3, ReplacedElements
  <2> QED
    BY <1>6, <1>a, <1>c, <1>d, <2>2, <2>4 DEF BackoffElapses, run, local
<1>7. CASE LeaseExpires
  <2>1. lease'.active = lease.active
    BY <1>0, <1>7 DEF LeaseExpires, Lease
  <2> QED
    BY <1>7, <1>a, <1>c, <1>d, <2>1 DEF LeaseExpires, run, local
<1>f. ASSUME NEW w \in Worker, EndRun(w)
      PROVE  /\ \A v \in Worker : Old(task'[v])
             /\ \A v \in Worker : child'[v] = "staged" =>
                  /\ task'[v] = task[v] /\ child[v] # "none"
                  /\ child[v] = "staged" /\ actual'[v] = actual[v]
  BY <1>0, <1>d, <1>f DEF EndRun
<1>g. ASSUME NEW w \in Worker, NEW s \in Lease, Vanish(w, s), Old(s.active)
      PROVE  /\ Old(lease'.active) /\ \A v \in Worker : Old(orphan'[v])
             /\ EndRun(w)
  <2>1. lease'.active = s.active
    BY <1>g DEF Vanish, Lease
  <2> QED
    BY <1>0, <1>d, <1>g, <2>1 DEF Vanish
<1>8. ASSUME NEW w \in Worker, Start(w) PROVE TasksKnown'
  <2>1. lease'.active = lease.active
    BY <1>0, <1>8 DEF Start, Lease
  <2> QED
    BY <1>8, <1>0, <1>a, <1>c, <1>d, <2>1 DEF Start, run
<1>9. ASSUME NEW w \in Worker, Recover(w) PROVE TasksKnown'
  <2> DEFINE e == [orphan[w] EXCEPT !.wait = FALSE]
  <2>1. orphan[w] \in Task /\ orphan[w] \in Tasks /\ orphan[w] # NoTask
    BY <1>9, NoTaskAssumption DEF Recover, TypeInv, TypeOK, Shape, Tasks
  <2>2. IdOf(e) = IdOf(orphan[w]) /\ e \in Task
    BY <2>1, TaskFields DEF IdOf, Task
  <2>3. Old(e)
    BY <1>j, <2>1, <2>2
  <2> HIDE DEF e
  <2>4. ToSet(pending') \subseteq ToSet(pending) \cup {e}
    BY <1>0, <1>9, <2>2, AppendedElements DEF Recover, e
  <2> QED
    BY <1>9, <1>a, <1>c, <1>d, <2>3, <2>4 DEF Recover, run
<1>10. ASSUME NEW w \in Worker, FinishStart(w) PROVE TasksKnown'
  <2>1. lease'.active \in {lease.active, NoTask}
    BY <1>0, <1>10 DEF FinishStart, Lease
  <2>2. \A v \in Worker : orphan'[v] \in {orphan[v], NoTask}
    BY <1>0, <1>10 DEF FinishStart
  <2> QED
    BY <1>10, <1>a, <1>c, <1>d, <2>1, <2>2 DEF FinishStart, run
<1>11. ASSUME NEW w \in Worker, Stop(w) \/ Exit(w) \/ Heartbeat(w) PROVE TasksKnown'
  <2>1. lease'.active \in {lease.active, NoTask}
    BY <1>0, <1>11 DEF Stop, Exit, Heartbeat, Lease, disk, NoLease
  <2>2. UNCHANGED <<head, pending, orphan, task, child, actual>>
    BY <1>11 DEF Stop, Exit, Heartbeat, disk, run
  <2> QED
    BY <1>a, <1>c, <1>d, <2>1, <2>2
<1>12. ASSUME NEW w \in Worker, Crash(w) PROVE TasksKnown'
  BY <1>12, <1>0, <1>a, <1>c, <1>d, <1>f, <1>g DEF Crash
<1>13. ASSUME NEW w \in Worker, NEW id \in Id, Sweep(w, id) PROVE TasksKnown'
  <2>1. \A t \in ToSet(pending') : Old(t)
    BY <1>13, <1>d, <1>e DEF Sweep, First
  <2> QED
    BY <1>13, <1>a, <1>c, <1>d, <2>1 DEF Sweep
<1>14. ASSUME NEW w \in Worker, Claim(w) PROVE TasksKnown'
  <2>1. PICK i \in DOMAIN pending :
          IF Owns(w)
          THEN /\ lease' = [lease EXCEPT !.active = pending[i]]
               /\ pending' = RemoveAt(pending, i)
               /\ task' = [task EXCEPT ![w] = pending[i]]
               /\ child' = [child EXCEPT ![w] = "updating"]
          ELSE UNCHANGED <<lease, pending, task, child>>
    BY <1>14 DEF Claim
  <2>2. Old(pending[i])
    BY <1>d, <1>i
  <2>3. Old(lease'.active) /\ (\A v \in Worker : Old(task'[v]))
    BY <1>0, <1>d, <2>1, <2>2 DEF Lease
  <2>4. \A v \in Worker : child'[v] = "staged" => child[v] = "staged" /\ task'[v] = task[v]
    BY <1>0, <2>1
  <2>5. \A t \in ToSet(pending') : Old(t)
    BY <1>d, <1>e, <2>1
  <2>6. UNCHANGED <<head, orphan, actual>>
    BY <1>14 DEF Claim
  <2> QED
    BY <1>a, <1>c, <1>d, <2>3, <2>4, <2>5, <2>6
<1>15. ASSUME NEW w \in Worker, ClaimCrash(w) PROVE TasksKnown'
  <2>1. PICK i \in DOMAIN pending : Vanish(w, [lease EXCEPT !.active = pending[i]])
    BY <1>15 DEF ClaimCrash
  <2> DEFINE s == [lease EXCEPT !.active = pending[i]]
  <2>2. s \in Lease /\ s.active = pending[i]
    BY <1>0, PendingEntry DEF Lease
  <2>3. Old(s.active)
    BY <1>d, <1>i, <2>2
  <2> HIDE DEF s
  <2>4. Vanish(w, s)
    BY <2>1 DEF s
  <2> QED
    BY <1>15, <1>a, <1>c, <1>d, <1>f, <1>g, <2>2, <2>3, <2>4 DEF ClaimCrash
<1>16. ASSUME NEW w \in Worker, ChildUpdate(w) \/ ChildStage(w) \/ ChildFail(w)
       PROVE TasksKnown'
  <2>1. UNCHANGED <<head, pending, lease, orphan, task>>
    BY <1>16 DEF ChildUpdate, ChildStage, ChildFail, disk, local
  <2>2. \A v \in Worker : child'[v] = "staged" =>
          /\ child[v] # "none"
          /\ \/ child[v] = "staged" /\ actual'[v] = actual[v]
             \/ actual'[v] = head[task[v].proj]
    BY <1>0, <1>16 DEF ChildUpdate, ChildStage, ChildFail
  <2> QED
    BY <1>a, <1>c, <1>d, <2>1, <2>2
<1>17. ASSUME NEW w \in Worker, Discard(w) \/ Activate(w) \/ Aborted(w) PROVE TasksKnown'
  <2>1. lease'.active \in {lease.active, NoTask}
    BY <1>0, <1>17 DEF Discard, Activate, Aborted, Lease
  <2>2. EndRun(w) /\ UNCHANGED <<head, pending, orphan>>
    BY <1>17 DEF Discard, Activate, Aborted
  <2> QED
    BY <1>a, <1>c, <1>d, <1>f, <2>1, <2>2
<1>18. ASSUME NEW w \in Worker, Requeue(w) PROVE TasksKnown'
  <2> DEFINE e == [[task[w] EXCEPT !.attempts = @ + 1] EXCEPT !.wait = TRUE]
  <2>1. lease'.active \in {lease.active, NoTask}
    BY <1>0, <1>18 DEF Requeue, Lease
  <2>2. EndRun(w) /\ UNCHANGED <<head, orphan>>
    BY <1>18 DEF Requeue
  <2>3. task[w] \in Task /\ task[w] # NoTask /\ task[w] \in Tasks
    BY <1>0, <1>18 DEF Requeue, Requeueable, Settling, Busy, Tasks
  <2>4. IdOf(e) = IdOf(task[w])
    BY <2>3 DEF IdOf, Task
  <2>5. Old(e)
    BY <1>j, <2>3, <2>4
  <2>6. pending' = pending \/ pending' = Append(pending, e)
    BY <1>18 DEF Requeue
  <2>7. pending' \in Seq(Task)
    BY DEF TypeInv, TypeOK
  <2> HIDE DEF e
  <2>8. ASSUME pending' = Append(pending, e) PROVE e \in Task
    <3>1. Len(pending) + 1 \in DOMAIN pending' /\ pending'[Len(pending) + 1] = e
      BY <1>0, <2>8
    <3> QED
      BY <2>7, <3>1
  <2>9. ToSet(pending') \subseteq ToSet(pending) \cup {e}
    BY <1>0, <2>6, <2>8, AppendedElements
  <2> QED
    BY <1>a, <1>c, <1>d, <1>f, <2>1, <2>2, <2>5, <2>9
<1>19. ASSUME NEW w \in Worker, ActivateCrash(w) PROVE TasksKnown'
  BY <1>19, <1>0, <1>a, <1>c, <1>d, <1>f, <1>g DEF ActivateCrash
<1>20. ASSUME NEW w \in Worker, RequeueCrash(w) PROVE TasksKnown'
  <2> DEFINE s == [lease EXCEPT !.active = NoTask]
  <2>1. s \in Lease /\ s.active = NoTask
    BY <1>0 DEF Lease
  <2> HIDE DEF s
  <2>2. Vanish(w, s)
    BY <1>20 DEF RequeueCrash, s
  <2> QED
    BY <1>20, <1>a, <1>c, <1>d, <1>f, <1>g, <2>1, <2>2 DEF RequeueCrash
<1>21. ASSUME NEW w \in Worker, Work(w) \/ Faults(w) PROVE TasksKnown'
  BY <1>9, <1>10, <1>11, <1>12, <1>14, <1>15, <1>16, <1>17, <1>18, <1>19, <1>20, <1>21
     DEF Work, Faults
<1> QED
  BY <1>1, <1>2, <1>3, <1>4, <1>5, <1>6, <1>7, <1>8, <1>11, <1>13, <1>16, <1>21 DEF Next

\* What was settled or queued stays so unless this step takes it off the queue.
LEMMA KeptStays ==
  ASSUME TypeInv, TypeInv', gen' = gen \/ NoRegress, NEW p \in Project, Kept(p),
         accepted'[p] = accepted[p], dead \subseteq dead',
         <<p, accepted[p]>> \in cancelled => <<p, accepted[p]>> \in cancelled',
         \A t \in ToSet(pending) : IdOf(t) = <<p, accepted[p]>> =>
            IdOf(t) \in cancelled' \/ \E u \in ToSet(pending') : IdOf(u) = IdOf(t)
  PROVE  Kept(p)'
<1> DEFINE id == <<p, accepted[p]>>
<1>1. /\ gen[p].head \in Nat /\ gen'[p].head \in Nat /\ accepted[p] \in Nat
      /\ gen[p].head <= gen'[p].head
  <2>1. /\ gen[p] \in [head : Heads, content : Heads] /\ accepted[p] \in Heads
        /\ gen'[p] \in [head : Heads, content : Heads]
    BY DEF TypeInv, TypeOK
  <2>2. gen[p].head \in Nat /\ gen'[p].head \in Nat /\ accepted[p] \in Nat
    BY <2>1, FreshnessAssumption DEF Heads
  <2> QED
    BY <2>2 DEF NoRegress
<1>2. CASE accepted[p] = 0 \/ gen[p].head >= accepted[p]
  <2>1. accepted'[p] = 0 \/ gen'[p].head >= accepted'[p]
    BY <1>1, <1>2
  <2> QED
    BY <2>1 DEF Kept
<1>3. CASE id \in cancelled
  BY <1>3 DEF Kept
<1>4. CASE Queued(id)
  BY <1>4 DEF Kept, Queued
<1>5. CASE DeadLettered(id)
  BY <1>5 DEF Kept, DeadLettered
<1> QED
  BY <1>2, <1>3, <1>4, <1>5 DEF Kept

\* What only the lease has stays there while its owner goes on.
LEMMA LeasedStays ==
  ASSUME NEW p \in Project, OnlyLeased(p), accepted'[p] = accepted[p],
         lease'.active = lease.active,
         \A w \in Worker : lease'.pid = w => pc'[w] # "recovered" /\ abort'[w] # "cancel"
  PROVE  OnlyLeased(p)'
BY DEF OnlyLeased, Leased

\* A step that takes nothing off the queue and leaves claims where they are.
LEMMA HeldStays ==
  ASSUME TypeInv, TypeInv', Held, gen' = gen \/ NoRegress,
         accepted' = accepted, dead \subseteq dead', cancelled \subseteq cancelled',
         \A t \in ToSet(pending) :
            IdOf(t) \in cancelled' \/ \E u \in ToSet(pending') : IdOf(u) = IdOf(t),
         \A p \in Project : OnlyLeased(p) => Kept(p)' \/ OnlyLeased(p)'
  PROVE  Held'
BY KeptStays DEF Held

\* Taking off an entry cancels its id, if that is what the step does.
LEMMA TakenOff ==
  ASSUME TypeInv, NEW id \in Id, NEW i \in DOMAIN pending, IdOf(pending[i]) = id,
         pending' = RemoveAt(pending, i), id \in cancelled'
  PROVE  \A t \in ToSet(pending) :
            IdOf(t) \in cancelled' \/ \E u \in ToSet(pending') : IdOf(u) = IdOf(t)
<1>1. pending \in Seq(Task)
  BY DEF TypeInv, TypeOK
<1> QED
  BY <1>1, RemoveAtElements

\* The repository, the command line, the child and time keep every task.
LEMMA HeldFront ==
  ASSUME HeldInv, TypeInv', gen' = gen \/ NoRegress,
         \/ \E p \in Project : Commit(p) \/ Enqueue(p) \/ CancelRequest(p)
         \/ \E id \in Id : CancelRemove(id)
         \/ \E i \in DOMAIN pending : BackoffElapses(i)
         \/ LeaseExpires
         \/ \E w \in Worker : ChildUpdate(w) \/ ChildStage(w) \/ ChildFail(w) \/ Stop(w)
  PROVE  Held'
<1> USE DEF HeldInv, FenceInv
<1>0. /\ pending \in Seq(Task) /\ lease \in Lease
      /\ pc \in [Worker -> {"off", "elected", "recovered", "up", "stopping", "down"}]
      /\ accepted \in [Project -> Heads]
  BY DEF TypeInv, TypeOK
<1>1. /\ lease'.active = lease.active /\ lease'.pid = lease.pid /\ abort' = abort /\ dead' = dead
  <2>1. lease' = lease \/ lease' = [lease EXCEPT !.fresh = FALSE]
    BY DEF Commit, Enqueue, CancelRequest, CancelRemove, BackoffElapses, LeaseExpires,
           ChildUpdate, ChildStage, ChildFail, Stop, disk
  <2>2. abort' = abort /\ dead' = dead
    BY DEF Commit, Enqueue, CancelRequest, CancelRemove, BackoffElapses, LeaseExpires,
           ChildUpdate, ChildStage, ChildFail, Stop, disk, run
  <2> QED
    BY <1>0, <2>1, <2>2 DEF Lease
<1>2. \A w \in Worker : pc'[w] = "recovered" => pc[w] = "recovered"
  BY <1>0 DEF Commit, Enqueue, CancelRequest, CancelRemove, BackoffElapses, LeaseExpires,
              ChildUpdate, ChildStage, ChildFail, Stop, local
<1>3. ASSUME NEW p \in Project, OnlyLeased(p), accepted'[p] = accepted[p] PROVE OnlyLeased(p)'
  BY <1>1, <1>2, <1>3, LeasedStays DEF OnlyLeased
<1>4. CASE UNCHANGED <<pending, accepted, cancelled>>
  BY <1>1, <1>3, <1>4, HeldStays
<1>5. ASSUME NEW p \in Project, Enqueue(p) PROVE Held'
  <2>1. /\ accepted' = [accepted EXCEPT ![p] = head[p]]
        /\ cancelled' = cancelled \ {<<p, head[p]>>}
    BY <1>5 DEF Enqueue
  <2>2. \E e : /\ IdOf(e) = <<p, head[p]>> /\ e \in ToSet(pending')
               /\ \A t \in ToSet(pending) : t.proj = p \/ t \in ToSet(pending')
    <3>1. ASSUME NEW i \in DOMAIN pending, pending[i].proj = p,
                 pending' = ReplaceAt(pending, i, [pending[i] EXCEPT !.head = head[p]])
          PROVE  <2>2
      <4> DEFINE e == [pending[i] EXCEPT !.head = head[p]]
      <4>1. IdOf(e) = <<p, head[p]>>
        BY <1>0, <3>1, PendingEntry DEF IdOf, Task
      <4>2. pending' = [pending EXCEPT ![i] = e]
        BY <1>0, <3>1 DEF ReplaceAt
      <4> HIDE DEF e
      <4>3. e \in ToSet(pending')
            /\ \A t \in ToSet(pending) : t = pending[i] \/ t \in ToSet(pending')
        BY <1>0, <4>2, ReplacedElements
      <4> QED
        BY <3>1, <4>1, <4>3
    <3>2. ASSUME pending' = Append(pending, [proj |-> p, head |-> head[p],
                                             attempts |-> 0, wait |-> FALSE])
          PROVE  <2>2
      <4> DEFINE e == [proj |-> p, head |-> head[p], attempts |-> 0, wait |-> FALSE]
      <4>1. e \in Task /\ IdOf(e) = <<p, head[p]>>
        BY FreshnessAssumption DEF IdOf, Task, TypeInv, TypeOK
      <4>2. pending' = Append(pending, e)
        BY <3>2
      <4> HIDE DEF e
      <4>3. ToSet(pending') = ToSet(pending) \cup {e}
        BY <1>0, <4>1, <4>2, AppendedElements
      <4> QED
        BY <4>1, <4>3
    <3> QED
      BY <1>5, <3>1, <3>2, Zenon DEF Enqueue, First
  <2>3. Kept(p)'
    BY <1>0, <2>1, <2>2 DEF Kept, Queued
  <2>4. ASSUME NEW q \in Project \ {p} PROVE Kept(q)' \/ OnlyLeased(q)'
    <3>1. accepted'[q] = accepted[q]
      BY <1>0, <2>1
    <3>2. CASE OnlyLeased(q)
      BY <1>3, <3>1, <3>2
    <3>3. CASE Kept(q)
      <4>1. \A t \in ToSet(pending) : IdOf(t) = <<q, accepted[q]>> => t \in ToSet(pending')
        BY <2>2 DEF IdOf
      <4>2. <<q, accepted[q]>> \in cancelled => <<q, accepted[q]>> \in cancelled'
        BY <2>1
      <4> QED
        BY <1>1, <3>1, <3>3, <4>1, <4>2, KeptStays
    <3> QED
      BY <3>2, <3>3 DEF Held
  <2> QED
    BY <2>3, <2>4 DEF Held
<1>6. ASSUME NEW id \in Id, CancelRemove(id) PROVE Held'
  <2>1. accepted' = accepted /\ cancelled \subseteq cancelled'
    BY <1>6 DEF CancelRemove, CarryOut
  <2>2. \A t \in ToSet(pending) :
          IdOf(t) \in cancelled' \/ \E u \in ToSet(pending') : IdOf(u) = IdOf(t)
    BY <1>6, TakenOff DEF CancelRemove, CarryOut, First
  <2> QED
    BY <1>1, <1>3, <2>1, <2>2, HeldStays
<1>7. ASSUME NEW i \in DOMAIN pending, BackoffElapses(i) PROVE Held'
  <2> DEFINE e == [pending[i] EXCEPT !.wait = FALSE]
  <2>1. IdOf(e) = IdOf(pending[i])
    BY <1>0, PendingEntry DEF IdOf, Task
  <2>2. pending' = [pending EXCEPT ![i] = e]
    BY <1>7 DEF BackoffElapses
  <2> HIDE DEF e
  <2>3. \A t \in ToSet(pending) : \E u \in ToSet(pending') : IdOf(u) = IdOf(t)
    BY <1>0, <2>1, <2>2, ReplacedElements
  <2>4. UNCHANGED <<accepted, cancelled>>
    BY <1>7 DEF BackoffElapses, history
  <2> QED
    BY <1>1, <1>3, <2>3, <2>4, HeldStays
<1> QED
  BY <1>4, <1>5, <1>6, <1>7
     DEF Commit, CancelRequest, LeaseExpires, ChildUpdate, ChildStage, ChildFail, Stop, disk, history

\* Elections, recoveries, exits and deaths keep every task.
LEMMA HeldLife ==
  ASSUME HeldInv, TypeInv', gen' = gen \/ NoRegress, NEW w \in Worker,
         \/ Start(w) \/ Recover(w) \/ FinishStart(w) \/ Exit(w)
         \/ Crash(w) \/ ClaimCrash(w) \/ ActivateCrash(w)
  PROVE  Held'
<1> USE DEF HeldInv, FenceInv
<1>0. /\ pending \in Seq(Task) /\ lease \in Lease
      /\ pc \in [Worker -> {"off", "elected", "recovered", "up", "stopping", "down"}]
      /\ orphan \in [Worker -> Task \cup {NoTask}]
      /\ abort \in [Worker -> {"none", "cancel", "lost"}]
      /\ pc[w] = "off" => task[w] = NoTask
      /\ pc[w] = "elected" => orphan[w] \in Task
  BY DEF TypeInv, TypeOK, Shape
<1>1. UNCHANGED <<accepted, cancelled, dead>>
  BY DEF Start, Recover, FinishStart, Exit, Crash, ClaimCrash, ActivateCrash, history
<1>2. ASSUME \A t \in ToSet(pending) : t \in ToSet(pending'),
             \A p \in Project : OnlyLeased(p) => Kept(p)' \/ OnlyLeased(p)'
      PROVE  Held'
  BY <1>1, <1>2, HeldStays
<1>3. CASE Start(w)
  <2>1. /\ lease'.active = lease.active /\ lease'.pid = w /\ pending' = pending
        /\ abort' = abort
        /\ pc'[w] = IF lease.active = NoTask THEN "up" ELSE "elected"
    BY <1>0, <1>3 DEF Start, Lease, run
  <2>2. abort[w] = "none"
    BY <1>0, <1>3 DEF Start, ClaimInv, Busy
  <2> QED
    BY <1>1, <1>2, <2>1, <2>2, LeasedStays
<1>4. CASE Recover(w)
  <2> DEFINE e == [orphan[w] EXCEPT !.wait = FALSE]
  <2>1. orphan[w] \in Task
    BY <1>0, <1>4 DEF Recover
  <2>2. e \in Task /\ IdOf(e) = IdOf(orphan[w])
    BY <2>1, TaskFields DEF IdOf, Task
  <2>3. /\ pending' = IF \E t \in ToSet(pending) : IdOf(t) = IdOf(orphan[w])
                      THEN pending ELSE Append(pending, e)
        /\ lease' = lease /\ abort' = abort /\ pc' = [pc EXCEPT ![w] = "recovered"]
    BY <1>4 DEF Recover, run
  <2> HIDE DEF e
  <2>4. /\ \A t \in ToSet(pending) : t \in ToSet(pending')
        /\ \E t \in ToSet(pending') : IdOf(t) = IdOf(orphan[w])
    BY <1>0, <2>2, <2>3, AppendedElements
  <2>5. ASSUME NEW p \in Project, OnlyLeased(p) PROVE Kept(p)' \/ OnlyLeased(p)'
    <3>1. CASE lease.pid = w
      <4>1. lease.active = orphan[w]
        BY <1>4, <3>1 DEF Recover, ClaimInv, Claimed
      <4>2. Queued(<<p, accepted[p]>>)'
        BY <1>1, <2>4, <2>5, <4>1 DEF OnlyLeased, Leased, Queued
      <4> QED
        BY <1>1, <4>2 DEF Kept, Queued
    <3>2. CASE lease.pid # w
      BY <1>0, <1>1, <2>3, <2>5, <3>2, LeasedStays DEF OnlyLeased
    <3> QED
      BY <3>1, <3>2
  <2> QED
    BY <1>2, <2>4, <2>5
<1>5. CASE FinishStart(w)
  <2>1. /\ lease'.active = IF Owns(w) THEN NoTask ELSE lease.active
        /\ lease'.pid = lease.pid /\ abort' = abort /\ pending' = pending
        /\ pc' = [pc EXCEPT ![w] = "up"]
    BY <1>0, <1>5 DEF FinishStart, Lease, run
  <2>2. ASSUME NEW p \in Project, OnlyLeased(p) PROVE OnlyLeased(p)'
    <3>1. ~Owns(w)
      BY <1>5, <2>2, PidOwns DEF FinishStart, OnlyLeased
    <3> QED
      BY <1>0, <1>1, <2>1, <2>2, <3>1, LeasedStays DEF OnlyLeased
  <2> QED
    BY <1>2, <2>1, <2>2
<1>6. CASE Exit(w)
  <2>1. ASSUME NEW p \in Project, OnlyLeased(p) PROVE OnlyLeased(p)'
    <3>1. ~(pc[w] = "stopping" /\ Owns(w))
      BY <1>6, <2>1, PidOwns DEF Exit, ClaimInv, Claimed, Busy, OnlyLeased, Leased
    <3>2. /\ lease' = lease /\ abort' = abort
          /\ \A v \in Worker : pc'[v] = "recovered" => pc[v] = "recovered"
      BY <1>0, <1>6, <3>1 DEF Exit, run
    <3> QED
      BY <1>1, <2>1, <3>2, LeasedStays DEF OnlyLeased
  <2> QED
    BY <1>2, <1>6, <2>1 DEF Exit
<1>7. ASSUME NEW s \in Lease, Vanish(w, s), s.pid = lease.pid, pending' = pending,
             s.active = lease.active \/ lease.active = NoTask
      PROVE  Held'
  <2>1. /\ lease'.active = s.active
        /\ \A v \in Worker : lease'.pid = v => lease.pid = v /\ v # w
        /\ \A v \in Worker \ {w} : pc'[v] = pc[v] /\ abort'[v] = abort[v]
    BY <1>0, <1>7, FreshnessAssumption DEF Vanish, EndRun, Lease
  <2>2. ASSUME NEW p \in Project, OnlyLeased(p) PROVE OnlyLeased(p)'
    <3>1. lease'.active = lease.active
      BY <1>7, <2>1, <2>2 DEF OnlyLeased, Leased
    <3> QED
      BY <1>1, <2>1, <2>2, <3>1, LeasedStays DEF OnlyLeased
  <2> QED
    BY <1>2, <1>7, <2>2
<1>8. CASE Crash(w) \/ ActivateCrash(w)
  BY <1>0, <1>7, <1>8 DEF Crash, ActivateCrash
<1>9. CASE ClaimCrash(w)
  <2>1. PICK i \in DOMAIN pending :
          Claimable(w, i) /\ Owns(w) /\ Vanish(w, [lease EXCEPT !.active = pending[i]])
    BY <1>9 DEF ClaimCrash
  <2> DEFINE s == [lease EXCEPT !.active = pending[i]]
  <2>2. s \in Lease /\ s.pid = lease.pid
    BY <1>0, PendingEntry DEF Lease
  <2>3. lease.active = NoTask
    BY <2>1, PidOwns DEF Claimable, ClaimInv, Claimed, Busy
  <2> QED
    BY <1>7, <1>9, <2>1, <2>2, <2>3 DEF ClaimCrash
<1> QED
  BY <1>3, <1>4, <1>5, <1>6, <1>8, <1>9

\* A run that ends without its worker owning the lease changes nothing that is kept.
LEMMA HeldLoser ==
  ASSUME HeldInv, TypeInv', gen' = gen \/ NoRegress, NEW w \in Worker, ~Owns(w),
         UNCHANGED <<pending, dead, lease, accepted, cancelled>>,
         \A v \in Worker \ {w} : pc'[v] = pc[v] /\ abort'[v] = abort[v]
  PROVE  Held'
<1> USE DEF HeldInv, FenceInv
<1>1. ASSUME NEW p \in Project, OnlyLeased(p) PROVE OnlyLeased(p)'
  BY <1>1, PidOwns, LeasedStays DEF OnlyLeased
<1> QED
  BY <1>1, HeldStays

\* Heartbeats, sweeps, claims and the ends of runs keep every task.
LEMMA HeldWork ==
  ASSUME HeldInv, TypeInv', gen' = gen \/ NoRegress, NEW w \in Worker,
         \/ Heartbeat(w) \/ (\E id \in Id : Sweep(w, id)) \/ Claim(w)
         \/ Discard(w) \/ Activate(w) \/ Requeue(w) \/ Aborted(w)
  PROVE  Held'
<1> USE DEF HeldInv, FenceInv
<1>0. /\ pending \in Seq(Task) /\ lease \in Lease
      /\ pc \in [Worker -> {"off", "elected", "recovered", "up", "stopping", "down"}]
      /\ abort \in [Worker -> {"none", "cancel", "lost"}]
      /\ task \in [Worker -> Task \cup {NoTask}]
  BY DEF TypeInv, TypeOK
<1>1. accepted' = accepted /\ cancelled \subseteq cancelled'
  BY DEF CarryOut, Heartbeat, Sweep, Claim, Discard, Activate, Requeue, Aborted, history
<1>a. \A j \in DOMAIN pending : pending[j] \in ToSet(pending)
  BY DEF ToSet
<1>b. (StandDown(w) \/ StandDownUnlessOwner(w) \/ UNCHANGED <<pc, superseded>>)
      => \A v \in Worker \ {w} : pc'[v] = pc[v]
  BY <1>0 DEF StandDownUnlessOwner, StandDown
<1>2. ASSUME ~Owns(w), Surrender(w), UNCHANGED <<pending, dead, lease, cancelled>>
      PROVE  Held'
  <2>1. \A v \in Worker \ {w} : pc'[v] = pc[v] /\ abort'[v] = abort[v]
    BY <1>0, <1>2 DEF Surrender, StandDown
  <2> QED
    BY <1>1, <1>2, <2>1, HeldLoser
<1>3. CASE Heartbeat(w)
  <2>1. CASE Owns(w)
    <3>1. /\ lease'.active = lease.active /\ lease'.pid = lease.pid
          /\ UNCHANGED <<pending, dead, cancelled, pc, abort>>
      BY <1>0, <1>3, <2>1 DEF Heartbeat, Lease, history
    <3> QED
      BY <1>1, <3>1, HeldStays, LeasedStays DEF OnlyLeased
  <2>2. CASE ~Owns(w)
    BY <1>2, <1>3, <2>2 DEF Heartbeat, history
  <2> QED
    BY <2>1, <2>2
<1>4. ASSUME NEW id \in Id, Sweep(w, id) PROVE Held'
  <2>1. UNCHANGED <<lease, dead, pc>>
    BY <1>4 DEF Sweep
  <2>2. CASE Busy(w) /\ IdOf(task[w]) = id
    <3>1. /\ abort' = [abort EXCEPT ![w] = "cancel"] /\ id \in cancelled'
          /\ pending' = pending
      BY <1>4, <2>2 DEF Sweep, CarryOut
    <3>2. ASSUME NEW p \in Project, OnlyLeased(p) PROVE Kept(p)' \/ OnlyLeased(p)'
      <4>1. CASE lease.pid = w
        <5>1. lease.active = task[w]
          BY <2>2, <4>1 DEF ClaimInv, Claimed, TypeInv, TypeOK
        <5> QED
          BY <1>1, <2>2, <3>1, <3>2, <5>1 DEF OnlyLeased, Leased, Kept
      <4>2. CASE lease.pid # w
        BY <1>0, <1>1, <2>1, <3>1, <3>2, <4>2, LeasedStays DEF OnlyLeased
      <4> QED
        BY <4>1, <4>2
    <3> QED
      BY <1>1, <2>1, <3>1, <3>2, HeldStays
  <2>3. CASE ~(Busy(w) /\ IdOf(task[w]) = id)
    <3>1. \A t \in ToSet(pending) :
            IdOf(t) \in cancelled' \/ \E u \in ToSet(pending') : IdOf(u) = IdOf(t)
      BY <1>4, <2>3, TakenOff DEF Sweep, CarryOut, First
    <3>2. abort' = abort
      BY <1>4, <2>3 DEF Sweep
    <3> QED
      BY <1>1, <2>1, <3>1, <3>2, HeldStays, LeasedStays DEF OnlyLeased
  <2> QED
    BY <2>2, <2>3
<1>5. CASE Claim(w)
  <2>1. CASE Owns(w)
    <3>1. PICK i \in DOMAIN pending :
            /\ Claimable(w, i)
            /\ lease' = [lease EXCEPT !.active = pending[i]]
            /\ pending' = RemoveAt(pending, i)
      BY <1>5, <2>1 DEF Claim
    <3>2. /\ lease'.active = pending[i] /\ lease'.pid = w
          /\ UNCHANGED <<dead, cancelled, pc, abort>>
      BY <1>0, <1>5, <2>1, <3>1 DEF Claim, Lease, Owns, history
    <3>3. /\ lease.active = NoTask /\ abort[w] = "none" /\ pc[w] = "up"
          /\ pending[i] # NoTask
      BY <1>0, <2>1, <3>1, PidOwns, PendingEntry, NoTaskAssumption
         DEF Claimable, ClaimInv, Claimed, Busy
    <3>4. ASSUME NEW p \in Project PROVE Kept(p)' \/ OnlyLeased(p)'
      <4>1. Kept(p)
        BY <3>3 DEF Held, OnlyLeased, Leased
      <4>2. CASE IdOf(pending[i]) = <<p, accepted[p]>>
        BY <1>1, <3>2, <3>3, <4>2 DEF OnlyLeased, Leased
      <4>3. CASE IdOf(pending[i]) # <<p, accepted[p]>>
        <5>1. \A t \in ToSet(pending) : t = pending[i] \/ t \in ToSet(pending')
          BY <1>0, <3>1, RemoveAtElements
        <5> QED
          BY <1>1, <3>2, <4>1, <4>3, <5>1, KeptStays
      <4> QED
        BY <4>2, <4>3
    <3> QED
      BY <3>4 DEF Held
  <2>2. CASE ~Owns(w)
    <3>1. Surrender(w) /\ UNCHANGED <<pending, dead, lease, cancelled>>
      BY <1>5, <2>2 DEF Claim, history
    <3> QED
      BY <1>2, <2>2, <3>1
  <2> QED
    BY <2>1, <2>2
<1>6. CASE (Discard(w) \/ Activate(w) \/ Requeue(w) \/ Aborted(w)) /\ ~Owns(w)
  <2>1. UNCHANGED <<pending, dead, lease, cancelled>>
    BY <1>6 DEF Discard, Activate, Requeue, Aborted, history
  <2>2. \A v \in Worker \ {w} : pc'[v] = pc[v] /\ abort'[v] = abort[v]
    BY <1>0, <1>6, <1>b DEF Discard, Activate, Requeue, Aborted, EndRun
  <2> QED
    BY <1>1, <1>6, <2>1, <2>2, HeldLoser
\* What only the lease of a worker that settles its run has is what it ran.
<1>c. ASSUME Owns(w), Busy(w), NEW p \in Project, OnlyLeased(p)
      PROVE  /\ lease.active = task[w] /\ abort[w] = "none"
             /\ task[w] \in Task /\ IdOf(task[w]) = <<p, accepted[p]>>
  <2>1. lease.pid = w
    BY <1>c, PidOwns
  <2>2. lease.active = task[w] /\ abort[w] = "none"
    BY <1>0, <1>c, <2>1 DEF OnlyLeased, ClaimInv, Claimed, Busy
  <2> QED
    BY <1>0, <1>c, <2>2 DEF OnlyLeased, Leased, Busy
<1>7. CASE (Discard(w) \/ Aborted(w)) /\ Owns(w)
  <2>1. Busy(w) /\ abort[w] # "none" /\ UNCHANGED <<pending, dead, cancelled>>
    BY <1>7 DEF Discard, Aborted, Settling, history
  <2> QED
    BY <1>1, <1>7, <1>c, <2>1, HeldStays
<1>8. CASE Activate(w) /\ Owns(w)
  <2>1. /\ Busy(w) /\ child[w] = "staged" /\ UNCHANGED <<pending, dead, cancelled>>
        /\ gen' = [gen EXCEPT ![task[w].proj] = Published(w)]
    BY <1>8 DEF Activate, Activatable, Settling, history
  <2>2. ASSUME NEW p \in Project, OnlyLeased(p) PROVE Kept(p)'
    <3>1. task[w].proj = p /\ task[w].head = accepted[p]
      BY <1>8, <1>c, <2>1, <2>2 DEF IdOf
    <3>2. task[w].head <= actual[w]
      BY <2>1 DEF TasksKnown
    <3>3. gen'[p].head = actual[w] /\ actual[w] \in Nat /\ accepted[p] \in Nat
      BY <2>1, <3>1, FreshnessAssumption DEF Published, TypeInv, TypeOK, Heads
    <3>4. gen'[p].head >= accepted'[p]
      BY <1>1, <3>1, <3>2, <3>3
    <3> QED
      BY <3>4 DEF Kept
  <2> QED
    BY <1>1, <2>1, <2>2, HeldStays
<1>9. CASE Requeue(w) /\ Owns(w)
  <2> DEFINE failed == [task[w] EXCEPT !.attempts = @ + 1]
             retried == [failed EXCEPT !.wait = TRUE]
             buried == [failed EXCEPT !.wait = FALSE]
  <2>1. Busy(w) /\ cancelled' = cancelled
    BY <1>9 DEF Requeue, Requeueable, Settling, history
  <2>2. task[w] \in Task
    BY <1>0, <2>1 DEF Busy
  <2>3. IdOf(retried) = IdOf(task[w]) /\ IdOf(buried) = IdOf(task[w])
    BY <2>2 DEF IdOf, Task
  <2>4. \/ dead' = dead \cup {buried} /\ pending' = pending
        \/ pending' = Append(pending, retried) /\ dead' = dead
    BY <1>9 DEF Requeue
  <2>5. pending' \in Seq(Task)
    BY DEF TypeInv, TypeOK
  <2> HIDE DEF retried, buried, failed
  <2>6. ASSUME pending' = Append(pending, retried)
        PROVE  ToSet(pending') = ToSet(pending) \cup {retried}
    <3>1. Len(pending) + 1 \in DOMAIN pending' /\ pending'[Len(pending) + 1] = retried
      BY <1>0, <2>6
    <3>2. retried \in Task
      BY <2>5, <3>1
    <3> QED
      BY <1>0, <2>6, <3>2, AppendedElements
  <2>7. /\ \A t \in ToSet(pending) : t \in ToSet(pending')
        /\ dead \subseteq dead'
        /\ \/ \E t \in ToSet(pending') : IdOf(t) = IdOf(task[w])
           \/ \E t \in dead' : IdOf(t) = IdOf(task[w])
    <3>1. CASE dead' = dead \cup {buried} /\ pending' = pending
      BY <2>3, <3>1
    <3>2. CASE pending' = Append(pending, retried) /\ dead' = dead
      BY <2>3, <2>6, <3>2
    <3> QED
      BY <2>4, <3>1, <3>2
  <2>8. ASSUME NEW p \in Project, OnlyLeased(p) PROVE Kept(p)'
    <3>1. IdOf(task[w]) = <<p, accepted[p]>>
      BY <1>9, <1>c, <2>1, <2>8
    <3>2. \/ \E t \in ToSet(pending') : IdOf(t) = <<p, accepted'[p]>>
          \/ \E t \in dead' : IdOf(t) = <<p, accepted'[p]>>
      BY <1>1, <2>7, <3>1
    <3> QED
      BY <3>2 DEF Kept, Queued, DeadLettered
  <2> QED
    BY <1>1, <2>7, <2>8, HeldStays
<1> QED
  BY <1>3, <1>4, <1>5, <1>6, <1>7, <1>8, <1>9

\* Nothing is lost at the start, as nothing has been accepted.
LEMMA HeldInit == Init => HeldInv
<1> SUFFICES ASSUME Init PROVE HeldInv
  OBVIOUS
<1>1. ToSet(pending) = {}
  BY DEF Init, ToSet
<1>2. \A t \in Tasks : t = NoTask
  BY <1>1 DEF Init, Tasks, NoLease
<1>3. TasksKnown
  BY <1>2 DEF TasksKnown, Init
<1>4. Held
  BY DEF Init, Held, Kept
<1> QED
  BY <1>3, <1>4, FenceInit, ClaimInit DEF HeldInv

\* Every step keeps every task, if no crash falls between the two writes of a retry.
LEMMA HeldNext ==
  ASSUME "requeue" \notin CrashWindows
  PROVE  HeldInv /\ [Next]_vars => HeldInv'
<1> SUFFICES ASSUME HeldInv, [Next]_vars PROVE HeldInv'
  OBVIOUS
<1>1. FenceInv' /\ (gen' = gen \/ NoRegress)
  BY FenceStep DEF HeldInv
<1>2. TypeInv' /\ ClaimInv' /\ TasksKnown'
  BY <1>1, ClaimNext, KnownNext DEF HeldInv, FenceInv
<1>3. Held'
  <2>1. CASE UNCHANGED vars
    BY <2>1 DEF vars, disk, run, local, history, HeldInv, Held, Kept, OnlyLeased, Queued, Leased,
                DeadLettered
  <2>2. ASSUME NEW w \in Worker, Work(w) \/ Faults(w) PROVE Held'
    <3>1. ~RequeueCrash(w)
      BY DEF RequeueCrash
    <3> QED
      BY <1>1, <1>2, <2>2, <3>1, HeldFront, HeldLife, HeldWork DEF Work, Faults
  <2> QED
    BY <1>1, <1>2, <2>1, <2>2, HeldFront, HeldLife, HeldWork DEF Next
<1> QED
  BY <1>1, <1>2, <1>3 DEF HeldInv

(* At-least-once revalidation, for any number of workers, projects, crashes,  *)
(* stalls and takeovers: the newest head the hook enqueued durably is never   *)
(* nowhere.  The hypothesis is the requeue window, in which the code does     *)
(* lose a task.                                                               *)
THEOREM NothingAcceptedIsLost ==
  ASSUME "requeue" \notin CrashWindows
  PROVE  Spec => []NoTaskLost
<1>1. HeldInv => NoTaskLost
  BY DEF HeldInv, Held, Kept, OnlyLeased, NoTaskLost
<1>2. HeldInv /\ [Next]_vars => HeldInv'
  BY HeldNext
<1> QED
  BY HeldInit, <1>1, <1>2, PTL DEF Spec
-----------------------------------------------------------------------------
(***************************************************************************)
(* What a run has processed covers the commit of its task, and stays what  *)
(* it was until the run ends.                                              *)
(***************************************************************************)
RunCovers == \A w \in Worker : Finished(w) => task[w].head <= seen[w]

(* A finished run goes on as it is, has just finished, or is over. *)
RunMoves(w) ==
    \/ ~Finished(w)'
    \/ Finished(w) /\ task'[w] = task[w] /\ seen'[w] = seen[w]
    \/ ChildUpdate(w)

\* A run that is over.
LEMMA EndedRun ==
  ASSUME TypeInv, NEW w \in Worker, EndRun(w)
  PROVE  \A v \in Worker : RunMoves(v)
BY DEF TypeInv, TypeOK, EndRun, RunMoves, Finished

\* What each step does to the runs.
LEMMA RunStep == TypeInv /\ [Next]_vars => \A v \in Worker : RunMoves(v)
<1> SUFFICES ASSUME TypeInv, [Next]_vars, NEW v \in Worker PROVE RunMoves(v)
  OBVIOUS
<1>0. /\ child \in [Worker -> {"none", "updating", "updated", "staged", "failed"}]
      /\ task \in [Worker -> Task \cup {NoTask}] /\ seen \in [Worker -> Heads]
  BY DEF TypeInv, TypeOK
<1>1. UNCHANGED <<task, child, seen>> => RunMoves(v)
  BY DEF RunMoves, Finished
<1>2. CASE UNCHANGED vars
  BY <1>1, <1>2 DEF vars, run
<1>3. ASSUME NEW p \in Project, Commit(p) \/ Enqueue(p) \/ CancelRequest(p) PROVE RunMoves(v)
  BY <1>1, <1>3 DEF Commit, Enqueue, CancelRequest, run
<1>4. ASSUME NEW id \in Id, CancelRemove(id) \/ \E w \in Worker : Sweep(w, id)
      PROVE  RunMoves(v)
  BY <1>1, <1>4 DEF CancelRemove, Sweep, run
<1>5. CASE LeaseExpires \/ \E i \in DOMAIN pending : BackoffElapses(i)
  BY <1>1, <1>5 DEF LeaseExpires, BackoffElapses, run
<1>6. ASSUME NEW w \in Worker, Start(w) \/ Recover(w) \/ FinishStart(w) \/ Exit(w) \/ Stop(w)
      PROVE  RunMoves(v)
  BY <1>1, <1>6 DEF Start, Recover, FinishStart, Exit, Stop, run
<1>7. ASSUME NEW w \in Worker, Heartbeat(w) PROVE RunMoves(v)
  BY <1>1, <1>7 DEF Heartbeat
<1>8. ASSUME NEW w \in Worker, Claim(w) PROVE RunMoves(v)
  <2>1. \/ UNCHANGED <<task, child, seen>>
        \/ /\ child' = [child EXCEPT ![w] = "updating"] /\ seen' = seen
           /\ \E t : task' = [task EXCEPT ![w] = t]
    BY <1>8 DEF Claim
  <2> QED
    BY <1>0, <1>1, <2>1 DEF RunMoves, Finished
<1>9. ASSUME NEW w \in Worker, ChildUpdate(w) \/ ChildStage(w) \/ ChildFail(w)
      PROVE  RunMoves(v)
  BY <1>0, <1>9 DEF ChildUpdate, ChildStage, ChildFail, RunMoves, Finished
<1>10. ASSUME NEW w \in Worker,
              \/ Discard(w) \/ Activate(w) \/ Requeue(w) \/ Aborted(w) \/ Crash(w)
              \/ ClaimCrash(w) \/ ActivateCrash(w) \/ RequeueCrash(w)
       PROVE  RunMoves(v)
  <2>1. EndRun(w)
    BY <1>10 DEF Discard, Activate, Requeue, Aborted, Crash, ClaimCrash, ActivateCrash,
       RequeueCrash, Vanish
  <2> QED
    BY <2>1, EndedRun
<1> QED
  BY <1>2, <1>3, <1>4, <1>5, <1>6, <1>7, <1>8, <1>9, <1>10 DEF Next, Work, Faults

\* A run that finishes processes its project as it is, at its task's commit or later.
LEMMA CoversNext ==
  TypeInv /\ TasksKnown /\ RunCovers /\ [Next]_vars => RunCovers'
<1> SUFFICES ASSUME TypeInv, TasksKnown, RunCovers, [Next]_vars,
                    NEW w \in Worker, Finished(w)'
             PROVE  task'[w].head <= seen'[w]
  BY DEF RunCovers
<1>1. RunMoves(w)
  BY RunStep
<1>2. CASE Finished(w) /\ task'[w] = task[w] /\ seen'[w] = seen[w]
  BY <1>2 DEF RunCovers
<1>3. CASE ChildUpdate(w)
  <2>1. task[w] \in Task /\ task[w] # NoTask /\ task[w] \in Tasks
    BY <1>3, NoTaskAssumption DEF TypeInv, TypeOK, Shape, Tasks, ChildUpdate
  <2>2. task[w].head <= head[task[w].proj]
    BY <2>1 DEF TasksKnown
  <2>3. task' = task /\ seen'[w] = head[task[w].proj]
    BY <1>3 DEF ChildUpdate, TypeInv, TypeOK
  <2> QED
    BY <2>2, <2>3
<1> QED
  BY <1>1, <1>2, <1>3 DEF RunMoves

PublicationSettles ==
    \A p \in Project : gen'[p] # gen[p] =>
      /\ lease.active # NoTask
      /\ lease.active.proj = p
      /\ gen'[p].content >= lease.active.head

\* Only an activation by the owner of the lease changes what is published.
LEMMA WhoPublishes ==
  ASSUME FenceInv, [Next]_vars, gen' # gen
  PROVE  \E w \in Worker : /\ Activatable(w) /\ Owns(w)
                           /\ gen' = [gen EXCEPT ![task[w].proj] = Published(w)]
<1>1. TypeInv'
  BY TypeStep DEF FenceInv
<1>2. ~UNCHANGED vars
  BY DEF vars, disk
<1>3. ASSUME NEW w \in Worker, Work(w) \/ Faults(w)
      PROVE  Activate(w) \/ ActivateCrash(w)
  BY <1>1, <1>3, FenceLife, FenceWork, FenceChild DEF Work, Faults
<1>4. PICK w \in Worker : Activate(w) \/ ActivateCrash(w)
  BY <1>1, <1>2, <1>3, FenceFront, FenceLife, FenceBeat, FenceWork DEF Next
<1> QED
  BY <1>4 DEF Activate, ActivateCrash

(* Through every takeover, recovery, cancellation and crash: what is published *)
(* is the task that the state file names at that moment, from its commit or a  *)
(* newer one.                                                                  *)
THEOREM PublicationsSettleTheClaim == Spec => PublishesItsClaim
<1> DEFINE I == FenceInv /\ ClaimInv /\ TasksKnown /\ RunCovers
<1>1. Init => I
  BY HeldInit DEF HeldInv, RunCovers, Finished, Init
<1>2. I /\ [Next]_vars => I'
  <2> SUFFICES ASSUME I, [Next]_vars PROVE I'
    OBVIOUS
  <2>1. FenceInv' /\ TypeInv'
    BY FenceStep DEF FenceInv
  <2> QED
    BY <2>1, ClaimNext, KnownNext, CoversNext DEF FenceInv
<1>3. I /\ [Next]_vars => [PublicationSettles]_vars
  <2> SUFFICES ASSUME I, [Next]_vars, gen' # gen PROVE PublicationSettles
    BY DEF PublicationSettles
  <2>1. PICK w \in Worker : /\ Activatable(w) /\ Owns(w)
                            /\ gen' = [gen EXCEPT ![task[w].proj] = Published(w)]
    BY WhoPublishes
  <2>2. lease.active = task[w] /\ Busy(w)
    <3>1. Claimed(w) /\ Busy(w)
      BY <2>1 DEF ClaimInv, Owns, Activatable, Settling
    <3> QED
      BY <3>1 DEF Claimed, FenceInv, TypeInv, TypeOK
  <2>3. Finished(w)
    BY <2>1 DEF Activatable, Finished
  <2>4. task[w] \in Task /\ task[w].proj \in Project /\ gen \in [Project -> [head : Heads, content : Heads]]
    BY <2>2, TaskFields DEF FenceInv, TypeInv, TypeOK, Busy
  <2>5. task[w].head \in Nat /\ seen[w] \in Nat /\ task[w].head <= seen[w]
    BY <2>3, <2>4, TaskFields, FreshnessAssumption DEF RunCovers, Heads, FenceInv, TypeInv, TypeOK
  <2>6. ASSUME NEW p \in Project, gen'[p] # gen[p]
        PROVE  p = task[w].proj /\ gen'[p].content = seen[w]
    BY <2>1, <2>4, <2>6 DEF Published
  <2> QED
    BY <2>2, <2>5, <2>6 DEF PublicationSettles, Busy
<1> HIDE DEF I
<1> QED
  BY <1>1, <1>2, <1>3, PTL DEF Spec, PublishesItsClaim, PublicationSettles
-----------------------------------------------------------------------------
(***************************************************************************)
(* Cancellations, as long as no worker is lost: then the lease is never    *)
(* disputed, so what was cancelled is neither queued nor being worked on,  *)
(* except by the run that was told to stop.                                *)
(***************************************************************************)
Undisputed ==
    /\ lease.pid \in Worker => lease.fresh
    /\ lease.active # NoTask => \E w \in Worker : lease.pid = w /\ lease.active = task[w]
    /\ \A w \in Worker : pc[w] # "off" => pc[w] \in {"up", "stopping"} /\ Owns(w)
    /\ \A w \in Worker : lease.pid = w => pc[w] # "off"
    /\ \A w \in Worker : Busy(w) => lease.active = task[w]
    /\ \A w \in Worker : abort[w] # "lost"

VoidedGone ==
    \A id \in voided :
      /\ \A t \in ToSet(pending) : IdOf(t) # id
      /\ lease.active # NoTask /\ IdOf(lease.active) = id => abort[lease.pid] = "cancel"

VoidInv == TypeInv /\ (NoWorkerLost => Undisputed /\ VoidedGone)

\* The end of the run of an undisputed owner.
Released(w) ==
    /\ Owns(w) /\ Busy(w) /\ EndRun(w)
    /\ lease'.pid = lease.pid /\ lease'.epoch = lease.epoch /\ lease'.fresh = lease.fresh
    /\ lease'.active = NoTask
    /\ UNCHANGED <<pc, epoch>>

\* The end of a run releases the claim of a worker whose lease nobody disputes.
LEMMA UndisputedWork ==
  ASSUME TypeInv, Undisputed, NEW w \in Worker,
         Discard(w) \/ Activate(w) \/ Requeue(w) \/ Aborted(w)
  PROVE  Released(w)
<1>1. Busy(w)
  BY DEF Discard, Activate, Activatable, Requeue, Requeueable, Aborted, Settling
<1>2. Owns(w) /\ abort[w] \in {"none", "cancel"} /\ lease \in Lease
  BY <1>1 DEF Undisputed, TypeInv, TypeOK, Shape, Busy
<1>3. UNCHANGED <<pc, epoch>> /\ EndRun(w)
  BY <1>2 DEF Discard, Activate, Requeue, Aborted, StandDownUnlessOwner
<1>4. \/ lease' = [lease EXCEPT !.active = NoTask]
      \/ lease' = [lease EXCEPT !.active = NoTask, !.lkg[task[w].proj] = actual[w]]
  <2>1. CASE Discard(w) \/ Requeue(w)
    BY <1>2, <2>1 DEF Discard, Requeue
  <2>2. CASE Activate(w)
    BY <1>2, <2>2 DEF Activate
  <2>3. CASE Aborted(w)
    BY <1>2, <2>3 DEF Aborted
  <2> QED
    BY <2>1, <2>2, <2>3
<1> QED
  BY <1>1, <1>2, <1>3, <1>4 DEF Released, Lease

\* A step that loses no worker.
LEMMA NoLossStep ==
  ASSUME TypeInv, [Next]_vars, NoWorkerLost'
  PROVE  /\ NoWorkerLost
         /\ ~LeaseExpires
         /\ \A w \in Worker : ~Crash(w) /\ ~ClaimCrash(w) /\ ~ActivateCrash(w) /\ ~RequeueCrash(w)
<1>1. used \in [Counter -> Nat] /\ "crashes" \in Counter /\ "stalls" \in Counter
  BY DEF TypeInv, TypeOK, Counter
<1>2. ASSUME NEW c \in Counter, NEW m, Spend(c, m)
      PROVE  used'[c] = used[c] + 1 /\ \A d \in Counter \ {c} : used'[d] = used[d]
  BY <1>1, <1>2 DEF Spend
<1>3. ~LeaseExpires
  BY <1>1, <1>2 DEF LeaseExpires, NoWorkerLost
<1>4. ASSUME NEW w \in Worker
      PROVE  ~Crash(w) /\ ~ClaimCrash(w) /\ ~ActivateCrash(w) /\ ~RequeueCrash(w)
  BY <1>1, <1>2 DEF Crash, ClaimCrash, ActivateCrash, RequeueCrash, NoWorkerLost
<1>5. \/ used' = used
      \/ \E c \in {"enqueues", "cancels", "stops"} : \E m : Spend(c, m)
  BY <1>3, <1>4, Zenon DEF Next, Commit, Enqueue, CancelRequest, CancelRemove, Start, Work, Recover,
     FinishStart, Exit, Claim, ChildUpdate, ChildStage, Discard, Activate, Requeue, Aborted,
     Heartbeat, ChildFail, Faults, Stop, Sweep, BackoffElapses, vars
<1>6. used'["crashes"] = used["crashes"] /\ used'["stalls"] = used["stalls"]
  BY <1>1, <1>2, <1>5 DEF Counter
<1> QED
  BY <1>3, <1>4, <1>6 DEF NoWorkerLost

\* As long as no worker is lost, whoever runs owns the lease, and works on its task.
LEMMA UndisputedStep ==
  ASSUME TypeInv, TypeInv', Undisputed, [Next]_vars, NoWorkerLost'
  PROVE  Undisputed'
<1>0. /\ lease \in Lease /\ task \in [Worker -> Task \cup {NoTask}]
      /\ pc \in [Worker -> {"off", "elected", "recovered", "up", "stopping", "down"}]
      /\ epoch \in [Worker -> Nat] /\ abort \in [Worker -> {"none", "cancel", "lost"}]
      /\ \A w \in Worker : pc[w] = "off" => task[w] = NoTask
  BY DEF TypeInv, TypeOK, Shape
<1>1. ASSUME UNCHANGED <<lease, pc, epoch, task>>, \A w \in Worker : abort'[w] \in {abort[w], "cancel"}
      PROVE  Undisputed'
  BY <1>1 DEF Undisputed, Owns, Busy
<1>2. ASSUME UNCHANGED vars \/ \E w \in Worker : ChildUpdate(w) \/ ChildStage(w) \/ ChildFail(w)
      PROVE  Undisputed'
  BY <1>0, <1>1, <1>2 DEF vars, disk, run, local, ChildUpdate, ChildStage, ChildFail
<1>3. ASSUME \/ \E p \in Project : Commit(p) \/ Enqueue(p) \/ CancelRequest(p)
             \/ \E id \in Id : CancelRemove(id)
             \/ \E i \in DOMAIN pending : BackoffElapses(i)
      PROVE  Undisputed'
  BY <1>0, <1>1, <1>3 DEF run, local, Commit, Enqueue, CancelRequest, CancelRemove, BackoffElapses
<1>4. ASSUME NEW w \in Worker, NEW id \in Id, Sweep(w, id) PROVE Undisputed'
  BY <1>0, <1>1, <1>4 DEF Sweep
<1>5. ASSUME NEW w \in Worker, Heartbeat(w) PROVE Undisputed'
  <2>1. Owns(w)
    BY <1>5 DEF Heartbeat, Undisputed
  <2>2. lease' = [lease EXCEPT !.fresh = TRUE] /\ UNCHANGED <<pc, epoch, task, abort>>
    BY <1>5, <2>1 DEF Heartbeat
  <2>3. /\ lease'.pid = lease.pid /\ lease'.epoch = lease.epoch /\ lease'.fresh
        /\ lease'.active = lease.active
    BY <1>0, <2>2 DEF Lease
  <2> QED
    BY <2>2, <2>3 DEF Undisputed, Owns, Busy
<1>6. ASSUME NEW w \in Worker, Start(w) PROVE Undisputed'
  <2>1. lease.pid \notin Worker
    BY <1>6 DEF Start, Undisputed
  <2>2. lease.active = NoTask /\ \A v \in Worker : pc[v] = "off" /\ task[v] = NoTask
    BY <1>0, <2>1 DEF Undisputed, Owns
  <2>3. /\ lease'.pid = w /\ lease'.epoch = lease.epoch + 1 /\ lease'.fresh
        /\ lease'.active = NoTask
    BY <1>0, <1>6, <2>2 DEF Start, Lease
  <2>4. /\ epoch'[w] = lease.epoch + 1 /\ pc' = [pc EXCEPT ![w] = "up"]
        /\ UNCHANGED <<task, abort>>
    BY <1>0, <1>6, <2>2 DEF Start, run
  <2>5. \A v \in Worker : (pc'[v] # "off" => v = w) /\ task'[v] = NoTask /\ pc'[w] = "up"
    BY <1>0, <2>2, <2>4
  <2> QED
    BY <2>3, <2>4, <2>5 DEF Undisputed, Owns, Busy
<1>7. ASSUME NEW w \in Worker, Recover(w) \/ FinishStart(w) PROVE FALSE
  BY <1>7 DEF Recover, FinishStart, Undisputed
<1>8. ASSUME NEW w \in Worker, Stop(w) PROVE Undisputed'
  <2>1. pc[w] = "up" /\ pc' = [pc EXCEPT ![w] = "stopping"] /\ UNCHANGED <<lease, epoch, task, abort>>
    BY <1>8 DEF Stop, disk, run
  <2>2. \A v \in Worker : pc'[v] = pc[v] \/ (pc[v] # "off" /\ pc'[v] = "stopping")
    BY <1>0, <2>1
  <2> QED
    BY <2>1, <2>2 DEF Undisputed, Owns, Busy
<1>9. ASSUME NEW w \in Worker, Exit(w) PROVE Undisputed'
  <2>1. Owns(w) /\ pc[w] = "stopping" /\ task[w] = NoTask
    BY <1>9 DEF Exit, Undisputed, Busy
  <2>2. \A v \in Worker \ {w} : pc[v] = "off" /\ task[v] = NoTask
    BY <1>0, <2>1 DEF Undisputed, Owns
  <2>3. lease' = NoLease /\ pc' = [pc EXCEPT ![w] = "off"] /\ UNCHANGED <<task, abort>>
    BY <1>9, <2>1 DEF Exit, run
  <2>4. lease'.active = NoTask /\ lease'.pid \notin Worker
    BY <2>3, FreshnessAssumption DEF NoLease
  <2>5. \A v \in Worker : pc'[v] = "off" /\ task'[v] = NoTask
    BY <1>0, <2>1, <2>2, <2>3
  <2> QED
    BY <2>3, <2>4, <2>5 DEF Undisputed, Busy
<1>10. ASSUME NEW w \in Worker, Claim(w) PROVE Undisputed'
  <2>1. Owns(w) /\ ~Busy(w) /\ pc[w] = "up"
    BY <1>10 DEF Claim, Claimable, Undisputed
  <2>2. PICK i \in DOMAIN pending :
          /\ lease' = [lease EXCEPT !.active = pending[i]]
          /\ task' = [task EXCEPT ![w] = pending[i]]
          /\ UNCHANGED <<pc, epoch, abort>>
    BY <1>10, <2>1 DEF Claim
  <2>3. /\ lease'.pid = lease.pid /\ lease'.epoch = lease.epoch /\ lease'.fresh = lease.fresh
        /\ lease'.active = pending[i] /\ task'[w] = pending[i]
    BY <1>0, <2>2 DEF Lease
  <2>4. \A v \in Worker \ {w} : task'[v] = NoTask
    BY <1>0, <2>1, <2>2 DEF Undisputed, Owns
  <2> QED
    BY <2>1, <2>2, <2>3, <2>4 DEF Undisputed, Owns, Busy
<1>11. ASSUME NEW w \in Worker, Discard(w) \/ Activate(w) \/ Requeue(w) \/ Aborted(w)
       PROVE  Undisputed'
  <2>1. Released(w)
    BY <1>11, UndisputedWork
  <2>2. \A v \in Worker : task'[v] = NoTask /\ abort'[v] \in {"none", abort[v]}
    BY <1>0, <2>1 DEF Released, EndRun, Undisputed, Owns
  <2> QED
    BY <2>1, <2>2 DEF Released, Undisputed, Owns, Busy
<1> QED
  BY <1>2, <1>3, <1>4, <1>5, <1>6, <1>7, <1>8, <1>9, <1>10, <1>11, NoLossStep
     DEF Next, Work, Faults

\* A step that cancels nothing, queues nothing that was cancelled and does not lease it.
LEMMA VoidedKept ==
  ASSUME VoidedGone, voided' \subseteq voided,
         \A t \in ToSet(pending') :
           IdOf(t) \notin voided' \/ \E u \in ToSet(pending) : IdOf(u) = IdOf(t),
         \/ lease'.active = NoTask \/ IdOf(lease'.active) \notin voided
         \/ lease'.active = lease.active /\ abort'[lease'.pid] = abort[lease.pid]
  PROVE  VoidedGone'
BY DEF VoidedGone

\* A cancellation that was carried out has no entry left, or is not counted.
LEMMA VoidedCarried ==
  ASSUME VoidedGone, NEW id, NEW rest, CarryOut(id, rest),
         ToSet(pending') \subseteq ToSet(pending), ToSet(pending') \subseteq rest,
         NoTask \notin ToSet(pending'),
         UNCHANGED lease,
         abort'[lease.pid] \in {abort[lease.pid], "cancel"},
         lease.active \in rest \/ abort'[lease.pid] = "cancel"
  PROVE  VoidedGone'
<1>1. voided' \subseteq voided \cup {id}
  BY DEF CarryOut
<1>2. ASSUME id \in voided', id \notin voided PROVE \A t \in rest \ {NoTask} : IdOf(t) # id
  BY <1>2 DEF CarryOut
<1> QED
  BY <1>1, <1>2 DEF VoidedGone

\* As long as the lease is undisputed, no step brings back what was cancelled.
LEMMA VoidedStep ==
  ASSUME TypeInv, TypeInv', Undisputed, VoidedGone, [Next]_vars, NoWorkerLost'
  PROVE  VoidedGone'
<1>0. /\ pending \in Seq(Task) /\ pending' \in Seq(Task) /\ lease \in Lease
      /\ abort \in [Worker -> {"none", "cancel", "lost"}]
      /\ lease.active # NoTask => lease.pid \in Worker
  BY DEF TypeInv, TypeOK, Undisputed
<1>n. NoTask \notin ToSet(pending')
  BY <1>0, NoTaskAssumption, PendingEntry DEF ToSet
<1>1. ASSUME UNCHANGED <<pending, voided>>,
             \/ lease'.active = NoTask
             \/ /\ lease'.active = lease.active /\ lease'.pid = lease.pid
                /\ abort'[lease.pid] = abort[lease.pid]
      PROVE  VoidedGone'
  BY <1>1, VoidedKept
<1>2. ASSUME \/ UNCHANGED vars
             \/ \E w \in Worker : ChildUpdate(w) \/ ChildStage(w) \/ ChildFail(w) \/ Stop(w)
             \/ \E p \in Project : Commit(p) \/ CancelRequest(p)
      PROVE  VoidedGone'
  BY <1>1, <1>2 DEF vars, disk, run, local, history, ChildUpdate, ChildStage, ChildFail, Stop,
     Commit, CancelRequest
<1>3. ASSUME NEW p \in Project, Enqueue(p) PROVE VoidedGone'
  <2>1. UNCHANGED <<lease, abort>> /\ voided' = voided \ {<<p, head[p]>>}
    BY <1>3 DEF Enqueue, run
  <2>2. ASSUME NEW i \in DOMAIN pending, pending[i].proj = p,
               pending' = ReplaceAt(pending, i, [pending[i] EXCEPT !.head = head[p]]),
               NEW t \in ToSet(pending')
        PROVE  IdOf(t) \notin voided' \/ t \in ToSet(pending)
    <3> DEFINE e == [pending[i] EXCEPT !.head = head[p]]
    <3>1. IdOf(e) = <<p, head[p]>>
      BY <1>0, <2>2, PendingEntry DEF IdOf, Task
    <3>2. pending' = [pending EXCEPT ![i] = e]
      BY <1>0, <2>2 DEF ReplaceAt
    <3> HIDE DEF e
    <3>3. t \in ToSet(pending) \cup {e}
      BY <1>0, <2>2, <3>2, ReplacedElements
    <3> QED
      BY <2>1, <3>1, <3>3
  <2>3. ASSUME NEW e, e = [proj |-> p, head |-> head[p], attempts |-> 0, wait |-> FALSE],
               pending' = Append(pending, e), NEW t \in ToSet(pending')
        PROVE  IdOf(t) \notin voided' \/ t \in ToSet(pending)
    <3>1. e \in Task
      <4>1. Len(pending) + 1 \in DOMAIN pending' /\ pending'[Len(pending) + 1] = e
        BY <1>0, <2>3
      <4> QED
        BY <1>0, <4>1
    <3>2. t \in ToSet(pending) \cup {e} /\ IdOf(e) = <<p, head[p]>>
      BY <1>0, <2>3, <3>1, AppendedElements DEF IdOf
    <3> QED
      BY <2>1, <3>2
  <2>4. \A t \in ToSet(pending') : IdOf(t) \notin voided' \/ t \in ToSet(pending)
    BY <1>3, <2>2, <2>3 DEF Enqueue, First
  <2> QED
    BY <2>1, <2>4, VoidedKept
<1>4. ASSUME NEW id \in Id, CancelRemove(id) PROVE VoidedGone'
  <2>1. UNCHANGED <<lease, abort>>
    BY <1>4 DEF CancelRemove, run
  <2>2. ASSUME NEW i \in DOMAIN pending, pending' = RemoveAt(pending, i),
               CarryOut(id, ToSet(pending') \cup {lease.active})
        PROVE  VoidedGone'
    <3>1. ToSet(pending') \subseteq ToSet(pending)
      BY <1>0, <2>2, RemoveAtElements
    <3> QED
      BY <1>n, <2>1, <2>2, <3>1, VoidedCarried
  <2> QED
    BY <1>1, <1>4, <2>1, <2>2 DEF CancelRemove
<1>5. ASSUME NEW i \in DOMAIN pending, BackoffElapses(i) PROVE VoidedGone'
  <2>1. UNCHANGED <<lease, abort, voided>> /\ pending' = [pending EXCEPT ![i].wait = FALSE]
    BY <1>5 DEF BackoffElapses, run, history
  <2> DEFINE e == [pending[i] EXCEPT !.wait = FALSE]
  <2>2. IdOf(e) = IdOf(pending[i]) /\ pending[i] \in ToSet(pending)
    BY <1>0, PendingEntry DEF IdOf, Task, ToSet
  <2>3. pending' = [pending EXCEPT ![i] = e]
    BY <1>0, <2>1
  <2> HIDE DEF e
  <2>4. \A t \in ToSet(pending') : t \in ToSet(pending) \/ t = e
    BY <1>0, <2>3, ReplacedElements
  <2> QED
    BY <2>1, <2>2, <2>4, VoidedKept
<1>6. ASSUME NEW w \in Worker, NEW id \in Id, Sweep(w, id) PROVE VoidedGone'
  <2>1. UNCHANGED lease /\ pc[w] # "recovered"
    BY <1>6 DEF Sweep, Undisputed
  <2>2. ASSUME Busy(w), abort' = [abort EXCEPT ![w] = "cancel"], UNCHANGED pending,
               CarryOut(id, ToSet(pending))
        PROVE  VoidedGone'
    <3>1. pc[w] # "off"
      BY <2>2 DEF TypeInv, Shape, Busy
    <3>2. lease.pid = w
      BY <3>1 DEF Undisputed, Owns
    <3>3. abort'[lease.pid] = "cancel"
      BY <1>0, <2>2, <3>2
    <3> QED
      BY <1>n, <2>1, <2>2, <3>3, VoidedCarried
  <2>3. ASSUME NEW i \in DOMAIN pending, pending' = RemoveAt(pending, i), UNCHANGED abort,
               CarryOut(id, ToSet(pending') \cup {lease.active})
        PROVE  VoidedGone'
    <3>1. ToSet(pending') \subseteq ToSet(pending)
      BY <1>0, <2>3, RemoveAtElements
    <3> QED
      BY <1>n, <2>1, <2>3, <3>1, VoidedCarried
  <2> QED
    BY <1>1, <1>6, <2>1, <2>2, <2>3 DEF Sweep
<1>7. ASSUME NEW w \in Worker, Heartbeat(w) PROVE VoidedGone'
  <2>1. Owns(w)
    BY <1>7 DEF Heartbeat, Undisputed
  <2>2. lease' = [lease EXCEPT !.fresh = TRUE] /\ UNCHANGED <<pending, voided, abort>>
    BY <1>7, <2>1 DEF Heartbeat, history
  <2> QED
    BY <1>0, <1>1, <2>2 DEF Lease
<1>8. ASSUME NEW w \in Worker, Start(w) PROVE VoidedGone'
  <2>1. lease.active = NoTask
    BY <1>8 DEF Start, Undisputed
  <2>2. lease'.active = NoTask /\ UNCHANGED <<pending, voided>>
    BY <1>0, <1>8, <2>1 DEF Start, Lease, history
  <2> QED
    BY <1>1, <2>2
<1>9. ASSUME NEW w \in Worker, Recover(w) \/ FinishStart(w) PROVE FALSE
  BY <1>9 DEF Recover, FinishStart, Undisputed
<1>10. ASSUME NEW w \in Worker, Exit(w) PROVE VoidedGone'
  <2>1. UNCHANGED <<pending, voided, abort>> /\ (lease' = lease \/ lease'.active = NoTask)
    BY <1>10 DEF Exit, run, history, NoLease
  <2> QED
    BY <1>1, <2>1
<1>11. ASSUME NEW w \in Worker, Claim(w) PROVE VoidedGone'
  <2>1. Owns(w)
    BY <1>11 DEF Claim, Claimable, Undisputed
  <2>2. PICK i \in DOMAIN pending :
          /\ lease' = [lease EXCEPT !.active = pending[i]]
          /\ pending' = RemoveAt(pending, i) /\ UNCHANGED voided
    BY <1>11, <2>1 DEF Claim, history
  <2>3. ToSet(pending') \subseteq ToSet(pending) /\ pending[i] \in ToSet(pending)
    <3>1. pending[i] \in ToSet(pending)
      BY DEF ToSet
    <3> QED
      BY <1>0, <2>2, <3>1, RemoveAtElements
  <2>4. lease'.active = pending[i]
    BY <1>0, <2>2 DEF Lease
  <2>5. IdOf(lease'.active) \notin voided
    BY <2>3, <2>4 DEF VoidedGone
  <2> QED
    BY <2>2, <2>3, <2>5, VoidedKept
<1>12. ASSUME NEW w \in Worker, Discard(w) \/ Activate(w) \/ Aborted(w) PROVE VoidedGone'
  <2>1. Released(w)
    BY <1>12, UndisputedWork
  <2>2. UNCHANGED <<pending, voided>>
    BY <1>12 DEF Discard, Activate, Aborted, history
  <2> QED
    BY <1>1, <2>1, <2>2 DEF Released
<1>13. ASSUME NEW w \in Worker, Requeue(w) PROVE VoidedGone'
  <2>1. Released(w) /\ abort[w] = "none" /\ UNCHANGED voided
    BY <1>13, UndisputedWork DEF Requeue, Requeueable, history
  <2>2. lease.active = task[w] /\ lease.pid = w /\ task[w] \in Task /\ lease.active # NoTask
    BY <2>1 DEF Released, Undisputed, Owns, Busy, TypeInv, TypeOK
  <2>3. IdOf(task[w]) \notin voided
    BY <2>1, <2>2 DEF VoidedGone
  <2> DEFINE e == [[task[w] EXCEPT !.attempts = @ + 1] EXCEPT !.wait = TRUE]
  <2>4. IdOf(e) = IdOf(task[w])
    BY <2>2 DEF IdOf, Task
  <2>5. pending' = pending \/ pending' = Append(pending, e)
    BY <1>13 DEF Requeue
  <2> HIDE DEF e
  <2>6. \A t \in ToSet(pending') : t \in ToSet(pending) \/ t = e
    <3>1. CASE pending' = Append(pending, e)
      <4>1. Len(pending) + 1 \in DOMAIN pending' /\ pending'[Len(pending) + 1] = e
        BY <1>0, <3>1
      <4>2. e \in Task
        BY <1>0, <4>1
      <4> QED
        BY <1>0, <3>1, <4>2, AppendedElements
    <3> QED
      BY <2>5, <3>1
  <2> QED
    BY <2>1, <2>3, <2>4, <2>6, VoidedKept DEF Released
<1> QED
  BY <1>2, <1>3, <1>4, <1>5, <1>6, <1>7, <1>8, <1>9, <1>10, <1>11, <1>12, <1>13, NoLossStep
     DEF Next, Work, Faults

NoneVoidedPublished ==
    \A p \in Project : gen'[p] # gen[p] /\ NoWorkerLost =>
      /\ lease.active # NoTask
      /\ IdOf(lease.active) \notin voided

(* As long as no worker is lost, for any number of projects, commits,        *)
(* cancellations, failures and stops: a task whose cancellation was carried  *)
(* out is not published, whatever the sweep, the answer of the child and a   *)
(* retry race for.                                                           *)
THEOREM CancellationsHold == Spec => CancelledNotPublished
<1> DEFINE I == FenceInv /\ VoidInv
<1>1. Init => I
  <2> SUFFICES ASSUME Init PROVE I
    OBVIOUS
  <2>1. Undisputed
    BY FreshnessAssumption DEF Init, Undisputed, NoLease, Busy
  <2>2. VoidedGone
    BY DEF Init, VoidedGone
  <2> QED
    BY <2>1, <2>2, FenceInit DEF VoidInv, FenceInv
<1>2. I /\ [Next]_vars => I'
  <2> SUFFICES ASSUME I, [Next]_vars PROVE I'
    OBVIOUS
  <2>1. FenceInv' /\ TypeInv'
    BY FenceStep DEF FenceInv
  <2>2. NoWorkerLost' => Undisputed' /\ VoidedGone'
    BY <2>1, NoLossStep, UndisputedStep, VoidedStep DEF VoidInv
  <2> QED
    BY <2>1, <2>2 DEF VoidInv
<1>3. I /\ [Next]_vars => [NoneVoidedPublished]_vars
  <2> SUFFICES ASSUME I, [Next]_vars, gen' # gen, NoWorkerLost
               PROVE  lease.active # NoTask /\ IdOf(lease.active) \notin voided
    BY DEF NoneVoidedPublished
  <2>1. PICK w \in Worker : Activatable(w) /\ Owns(w)
    BY WhoPublishes
  <2>2. lease.active = task[w] /\ lease.pid = w /\ task[w] # NoTask /\ abort[w] = "none"
    BY <2>1 DEF Activatable, Settling, Owns, Busy, VoidInv, Undisputed
  <2> QED
    BY <2>2 DEF VoidInv, VoidedGone
<1> HIDE DEF I
<1> QED
  BY <1>1, <1>2, <1>3, PTL DEF Spec, CancelledNotPublished, NoneVoidedPublished
=============================================================================
