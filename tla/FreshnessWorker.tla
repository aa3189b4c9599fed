--------------------------- MODULE FreshnessWorker ---------------------------
(***************************************************************************)
(* The durable background freshness worker of packages/cli/src/freshness.ts*)
(* and its forked revalidation child (freshness-child.ts): a persistent    *)
(* queue, a lease with heartbeat and fencing epoch, one run at a time, and *)
(* activation of the child's result under the fence.                       *)
(*                                                                         *)
(* Files are one variable each; every critical section under the queue or  *)
(* lease lock is one step, except that a crash may fall between its two    *)
(* durable writes (the ...Crash actions).  A task id is the pair (project, *)
(* head).  A pid of a process that no longer exists reads as DeadPid.      *)
(***************************************************************************)
EXTENDS Integers, SequencesExt

CONSTANTS
    Worker,         \* processes that may run `crib freshness worker`
    Project,        \* registered projects, one queue for all of them
    MaxHead,        \* commits made in a project
    MaxEnqueues,    \* runs of the post-commit hook
    MaxCancels,     \* runs of `crib freshness cancel`
    MaxCrashes,     \* worker processes killed
    MaxStops,       \* workers stopped by SIGINT or SIGTERM
    MaxStalls,      \* heartbeats that outlive leaseTtlMs while the holder lives
    MaxAttempts,    \* the worker's maxAttempts
    CrashWindows,   \* critical sections a crash may cut between their two writes
    NoPid, DeadPid, NoTask

ASSUME FreshnessAssumption ==
    /\ NoPid \notin Worker /\ DeadPid \notin Worker /\ NoPid # DeadPid
    /\ MaxHead \in Nat /\ MaxEnqueues \in Nat /\ MaxCancels \in Nat
    /\ MaxCrashes \in Nat /\ MaxStops \in Nat /\ MaxStalls \in Nat /\ MaxAttempts \in Nat \ {0}
    /\ CrashWindows \subseteq {"claim", "activate", "requeue"}

Heads == 0 .. MaxHead
Id == Project \X Heads
Task == [proj : Project, head : Heads, attempts : 0 .. MaxAttempts - 1, wait : BOOLEAN]
DeadTask == [proj : Project, head : Heads, attempts : {MaxAttempts}, wait : {FALSE}]

ASSUME NoTaskAssumption == NoTask \notin Task

IdOf(t) == <<t.proj, t.head>>

VARIABLES
    head,       \* the repository: number of the newest commit of each project
    pending,    \* queue.json: pending
    dead,       \* queue.json: dead
    lease,      \* worker-state.json: pid, epoch, heartbeat fresh?, activeTask, lastKnownGood
    gen,        \* generations/<project>.json: the stamped head, and the head it was built from
    cancelReq,  \* cancel-requests/
    pc,         \* a worker process: where it is in its life
    epoch,      \* its fencing token
    superseded, \* its latch "the lease belongs to someone else"
    orphan,     \* start()'s local: the predecessor's leased task
    task,       \* the task its run() is working on
    child,      \* the forked child of that run
    seen,       \* the head the child's update processed
    actual,     \* the head the child reports as processed
    abort,      \* the run's abort channel: fired by a cancellation or by a lost lease?
    sweep,      \* cancel requests its sweep has read and not yet looked at
    removing,   \* `crib freshness cancel` with no live worker: ids still to be removed
    accepted,   \* history: newest head durably enqueued
    cancelled,  \* history: ids whose cancellation was carried out
    voided,     \* history: those of them that no other entry was left of
    used        \* how much of each bound is used up

disk == <<head, pending, dead, lease, gen, cancelReq>>
run == <<task, child, seen, actual, abort>>
local == <<pc, epoch, superseded, orphan, sweep>>
history == <<accepted, cancelled, voided>>
vars == <<disk, run, local, removing, history, used>>

NoLease == [pid |-> NoPid, epoch |-> 0, fresh |-> FALSE, active |-> NoTask,
            lkg |-> [p \in Project |-> 0]]
Lease == [pid : Worker \cup {NoPid, DeadPid}, epoch : Nat, fresh : BOOLEAN,
          active : Task \cup {NoTask}, lkg : [Project -> Heads]]
Counter == {"enqueues", "cancels", "crashes", "stops", "stalls"}

TypeOK ==
    /\ head \in [Project -> Heads]
    /\ pending \in Seq(Task)
    /\ dead \subseteq DeadTask
    /\ lease \in Lease
    /\ gen \in [Project -> [head : Heads, content : Heads]]
    /\ cancelReq \subseteq Id
    /\ pc \in [Worker -> {"off", "elected", "recovered", "up", "stopping", "down"}]
    /\ epoch \in [Worker -> Nat]
    /\ superseded \in [Worker -> BOOLEAN]
    /\ orphan \in [Worker -> Task \cup {NoTask}]
    /\ task \in [Worker -> Task \cup {NoTask}]
    /\ child \in [Worker -> {"none", "updating", "updated", "staged", "failed"}]
    /\ seen \in [Worker -> Heads]
    /\ actual \in [Worker -> Heads]
    /\ abort \in [Worker -> {"none", "cancel", "lost"}]
    /\ sweep \in [Worker -> SUBSET Id]
    /\ removing \subseteq Id
    /\ accepted \in [Project -> Heads]
    /\ cancelled \subseteq Id
    /\ voided \subseteq Id
    /\ used \in [Counter -> Nat]

Init ==
    /\ head = [p \in Project |-> 0]
    /\ pending = <<>>
    /\ dead = {}
    /\ lease = NoLease
    /\ gen = [p \in Project |-> [head |-> 0, content |-> 0]]
    /\ cancelReq = {}
    /\ pc = [w \in Worker |-> "off"]
    /\ epoch = [w \in Worker |-> 0]
    /\ superseded = [w \in Worker |-> FALSE]
    /\ orphan = [w \in Worker |-> NoTask]
    /\ task = [w \in Worker |-> NoTask]
    /\ child = [w \in Worker |-> "none"]
    /\ seen = [w \in Worker |-> 0]
    /\ actual = [w \in Worker |-> 0]
    /\ abort = [w \in Worker |-> "none"]
    /\ sweep = [w \in Worker |-> {}]
    /\ removing = {}
    /\ accepted = [p \in Project |-> 0]
    /\ cancelled = {}
    /\ voided = {}
    /\ used = [c \in Counter |-> 0]

Spend(c, max) == used[c] < max /\ used' = [used EXCEPT ![c] = @ + 1]

(* i is the first entry of the queue that satisfies Test: findIndex. *)
First(i, Test(_)) ==
    /\ i \in DOMAIN pending /\ Test(pending[i])
    /\ \A j \in 1 .. i - 1 : ~Test(pending[j])
-----------------------------------------------------------------------------
(* The repository and the command line. *)

Commit(p) ==
    /\ head[p] < MaxHead
    /\ head' = [head EXCEPT ![p] = @ + 1]
    /\ UNCHANGED <<pending, dead, lease, gen, cancelReq, run, local, removing, history, used>>

(* The post-commit hook: a project's pending entry is superseded in place and *)
(* passes its attempts and backoff on.                                        *)
Enqueue(p) ==
    /\ head[p] > 0
    /\ Spend("enqueues", MaxEnqueues)
    /\ LET mine(t) == t.proj = p
       IN  \/ \E i \in DOMAIN pending :
                /\ First(i, mine)
                /\ pending' = ReplaceAt(pending, i, [pending[i] EXCEPT !.head = head[p]])
           \/ /\ \A i \in DOMAIN pending : ~mine(pending[i])
              /\ pending' = Append(pending, [proj |-> p, head |-> head[p],
                                             attempts |-> 0, wait |-> FALSE])
    /\ accepted' = [accepted EXCEPT ![p] = head[p]]
    /\ cancelled' = cancelled \ {<<p, head[p]>>}
    /\ voided' = voided \ {<<p, head[p]>>}
    /\ UNCHANGED <<head, dead, lease, gen, cancelReq, run, local, removing>>

(* A cancellation is carried out on one entry; a commit that was enqueued while *)
(* its run was in flight may have another one.                                  *)
CarryOut(id, rest) ==
    /\ cancelled' = cancelled \cup {id}
    /\ voided' = IF \E t \in rest \ {NoTask} : IdOf(t) = id THEN voided ELSE voided \cup {id}

(* `crib freshness cancel <project>`: a request file for every task of the     *)
(* project; with no live worker the queued ones are then removed directly.     *)
CancelRequest(p) ==
    /\ removing = {}
    /\ LET tasks == ToSet(pending) \cup ({lease.active} \ {NoTask})
           ids == {IdOf(t) : t \in {u \in tasks : u.proj = p}}
       IN  /\ ids # {}
           /\ cancelReq' = cancelReq \cup ids
           /\ removing' = IF lease.pid \in Worker THEN {} ELSE ids
    /\ Spend("cancels", MaxCancels)
    /\ UNCHANGED <<head, pending, dead, lease, gen, run, local, history>>

CancelRemove(id) ==
    /\ id \in removing
    /\ removing' = removing \ {id}
    /\ LET named(t) == IdOf(t) = id
       IN  \/ \E i \in DOMAIN pending :
                /\ First(i, named)
                /\ pending' = RemoveAt(pending, i)
                /\ CarryOut(id, ToSet(pending') \cup {lease.active})
           \/ /\ \A i \in DOMAIN pending : ~named(pending[i])
              /\ UNCHANGED <<pending, cancelled, voided>>
    /\ UNCHANGED <<head, dead, lease, gen, cancelReq, run, local, accepted, used>>
-----------------------------------------------------------------------------
(* The fence. *)

Owns(w) == lease.pid = w /\ lease.epoch = epoch[w]
Busy(w) == task[w] # NoTask

(* surrender(): latch and halt the loops, once ... *)
StandDown(w) ==
    /\ superseded' = [superseded EXCEPT ![w] = TRUE]
    /\ pc' = [pc EXCEPT ![w] = IF @ = "up" /\ ~superseded[w] THEN "down" ELSE @]

(* ... and abort the child of the run in flight. *)
Surrender(w) ==
    /\ StandDown(w)
    /\ abort' = [abort EXCEPT ![w] = IF Busy(w) /\ @ = "none" THEN "lost" ELSE @]

StandDownUnlessOwner(w) == IF Owns(w) THEN UNCHANGED <<pc, superseded>> ELSE StandDown(w)

(* The run is over: nothing of it stays in memory. *)
EndRun(w) ==
    /\ task' = [task EXCEPT ![w] = NoTask]
    /\ child' = [child EXCEPT ![w] = "none"]
    /\ seen' = [seen EXCEPT ![w] = 0]
    /\ actual' = [actual EXCEPT ![w] = 0]
    /\ abort' = [abort EXCEPT ![w] = "none"]

(* The process is gone; its pid in the state file now names nobody. *)
Vanish(w, state) ==
    /\ lease' = IF state.pid = w THEN [state EXCEPT !.pid = DeadPid] ELSE state
    /\ EndRun(w)
    /\ pc' = [pc EXCEPT ![w] = "off"]
    /\ epoch' = [epoch EXCEPT ![w] = 0]
    /\ superseded' = [superseded EXCEPT ![w] = FALSE]
    /\ orphan' = [orphan EXCEPT ![w] = NoTask]
    /\ sweep' = [sweep EXCEPT ![w] = {}]
-----------------------------------------------------------------------------
(* start() and stop(). *)

(* The election: refused while the holder lives and its heartbeat is fresh. *)
Start(w) ==
    /\ pc[w] = "off"
    /\ ~(lease.pid \in Worker /\ lease.fresh)
    /\ lease' = [lease EXCEPT !.pid = w, !.epoch = @ + 1, !.fresh = TRUE]
    /\ epoch' = [epoch EXCEPT ![w] = lease.epoch + 1]
    /\ superseded' = [superseded EXCEPT ![w] = FALSE]
    /\ orphan' = [orphan EXCEPT ![w] = lease.active]
    /\ pc' = [pc EXCEPT ![w] = IF lease.active = NoTask THEN "up" ELSE "elected"]
    /\ UNCHANGED <<head, pending, dead, gen, cancelReq, run, sweep, removing, history, used>>

(* Recovery: the orphan goes back to the queue unless its id is there already. *)
Recover(w) ==
    /\ pc[w] = "elected"
    /\ pending' = IF \E t \in ToSet(pending) : IdOf(t) = IdOf(orphan[w])
                  THEN pending
                  ELSE Append(pending, [orphan[w] EXCEPT !.wait = FALSE])
    /\ pc' = [pc EXCEPT ![w] = "recovered"]
    /\ UNCHANGED <<head, dead, lease, gen, cancelReq, run, epoch, superseded, orphan, sweep,
                   removing, history, used>>

(* Mutant of FinishStart: the claim is cleared without asking whose it is. *)
FinishStart_Unfenced(w) ==
    /\ pc[w] = "recovered"
    /\ lease' = [lease EXCEPT !.active = NoTask]
    /\ superseded' = [superseded EXCEPT ![w] = ~Owns(w)]
    /\ orphan' = [orphan EXCEPT ![w] = NoTask]
    /\ pc' = [pc EXCEPT ![w] = "up"]
    /\ UNCHANGED <<head, pending, dead, gen, cancelReq, run, epoch, sweep, removing,
                   history, used>>

(* Bookkeeping last.  The loops start whether or not the fenced write landed. *)
FinishStart(w) ==
    /\ pc[w] = "recovered"
    /\ lease' = IF Owns(w) THEN [lease EXCEPT !.active = NoTask] ELSE lease
    /\ superseded' = [superseded EXCEPT ![w] = ~Owns(w)]
    /\ orphan' = [orphan EXCEPT ![w] = NoTask]
    /\ pc' = [pc EXCEPT ![w] = "up"]
    /\ UNCHANGED <<head, pending, dead, gen, cancelReq, run, epoch, sweep, removing,
                   history, used>>

(* stop(): the timers go first, the run in flight is awaited. *)
Stop(w) ==
    /\ pc[w] = "up" /\ sweep[w] = {}
    /\ Spend("stops", MaxStops)
    /\ pc' = [pc EXCEPT ![w] = "stopping"]
    /\ UNCHANGED <<disk, run, epoch, superseded, orphan, sweep, removing, history>>

(* Fenced release: only the current owner removes the state file. *)
Exit(w) ==
    /\ pc[w] \in {"stopping", "down"}
    /\ ~Busy(w)
    /\ lease' = IF pc[w] = "stopping" /\ Owns(w) THEN NoLease ELSE lease
    /\ pc' = [pc EXCEPT ![w] = "off"]
    /\ epoch' = [epoch EXCEPT ![w] = 0]
    /\ superseded' = [superseded EXCEPT ![w] = FALSE]
    /\ UNCHANGED <<head, pending, dead, gen, cancelReq, run, orphan, sweep, removing,
                   history, used>>

(* kill -9, a power cut: at any point between two steps. *)
Crash(w) ==
    /\ pc[w] # "off"
    /\ Spend("crashes", MaxCrashes)
    /\ Vanish(w, lease)
    /\ UNCHANGED <<head, pending, dead, gen, cancelReq, removing, history>>

(* leaseTtlMs passes without a heartbeat: a stalled or a stopping owner. *)
LeaseExpires ==
    /\ lease.pid \in Worker /\ lease.fresh
    /\ Spend("stalls", MaxStalls)
    /\ lease' = [lease EXCEPT !.fresh = FALSE]
    /\ UNCHANGED <<head, pending, dead, gen, cancelReq, run, local, removing, history>>
-----------------------------------------------------------------------------
(* The heartbeat and the cancellation sweep that rides on it. *)

Heartbeat(w) ==
    /\ pc[w] = "up" /\ sweep[w] = {}
    /\ IF Owns(w)
       THEN /\ lease' = [lease EXCEPT !.fresh = TRUE]
            /\ sweep' = [sweep EXCEPT ![w] = IF superseded[w] THEN {} ELSE cancelReq]
            /\ UNCHANGED <<pc, superseded, abort>>
       ELSE Surrender(w) /\ UNCHANGED <<lease, sweep>>
    /\ UNCHANGED <<head, pending, dead, gen, cancelReq, task, child, seen, actual, epoch,
                   orphan, removing, history, used>>

(* One request: abort the run it names, or drop the queued entry, or leave it. *)
Sweep(w, id) ==
    /\ id \in sweep[w]
    /\ sweep' = [sweep EXCEPT ![w] = @ \ {id}]
    /\ LET named(t) == IdOf(t) = id
           mine == Busy(w) /\ named(task[w])
       IN  \/ /\ mine
              /\ abort' = [abort EXCEPT ![w] = "cancel"]
              /\ cancelReq' = cancelReq \ {id}
              /\ CarryOut(id, ToSet(pending))
              /\ UNCHANGED pending
           \/ /\ ~mine
              /\ \E i \in DOMAIN pending :
                   /\ First(i, named)
                   /\ pending' = RemoveAt(pending, i)
              /\ cancelReq' = cancelReq \ {id}
              /\ CarryOut(id, ToSet(pending') \cup {lease.active})
              /\ UNCHANGED abort
           \/ /\ ~mine
              /\ \A i \in DOMAIN pending : ~named(pending[i])
              /\ UNCHANGED <<pending, cancelReq, cancelled, voided, abort>>
    /\ UNCHANGED <<head, dead, lease, gen, task, child, seen, actual, pc, epoch, superseded,
                   orphan, removing, accepted, used>>
-----------------------------------------------------------------------------
(* One work step: claim, run the child, activate or requeue. *)

BackoffElapses(i) ==
    /\ i \in DOMAIN pending /\ pending[i].wait
    /\ pending' = [pending EXCEPT ![i].wait = FALSE]
    /\ UNCHANGED <<head, dead, lease, gen, cancelReq, run, local, removing, history, used>>

Claimable(w, i) ==
    /\ pc[w] = "up" /\ sweep[w] = {} /\ ~Busy(w) /\ ~superseded[w]
    /\ LET eligible(t) == ~t.wait IN First(i, eligible)

(* Lease first, dequeue second; the dequeue only if the fenced lease landed. *)
Claim(w) ==
    \E i \in DOMAIN pending :
      /\ Claimable(w, i)
      /\ IF Owns(w)
         THEN /\ lease' = [lease EXCEPT !.active = pending[i]]
              /\ pending' = RemoveAt(pending, i)
              /\ task' = [task EXCEPT ![w] = pending[i]]
              /\ child' = [child EXCEPT ![w] = "updating"]
              /\ UNCHANGED <<pc, superseded, abort>>
         ELSE /\ Surrender(w)
              /\ UNCHANGED <<lease, pending, task, child>>
      /\ UNCHANGED <<head, dead, gen, cancelReq, seen, actual, epoch, orphan, sweep, removing,
                     history, used>>

(* Mutant of ClaimCrash: the dequeue is the first write. *)
ClaimCrash_DequeueFirst(w) ==
    /\ "claim" \in CrashWindows
    /\ Spend("crashes", MaxCrashes)
    /\ \E i \in DOMAIN pending :
         /\ Claimable(w, i) /\ Owns(w)
         /\ pending' = RemoveAt(pending, i)
    /\ Vanish(w, lease)
    /\ UNCHANGED <<head, dead, gen, cancelReq, removing, history>>

ClaimCrash(w) ==
    /\ "claim" \in CrashWindows
    /\ Spend("crashes", MaxCrashes)
    /\ \E i \in DOMAIN pending :
         /\ Claimable(w, i) /\ Owns(w)
         /\ Vanish(w, [lease EXCEPT !.active = pending[i]])
    /\ UNCHANGED <<head, pending, dead, gen, cancelReq, removing, history>>

(* The child: `crib update` processes the repository as it is ... *)
ChildUpdate(w) ==
    /\ child[w] = "updating"
    /\ child' = [child EXCEPT ![w] = "updated"]
    /\ seen' = [seen EXCEPT ![w] = head[task[w].proj]]
    /\ UNCHANGED <<disk, task, actual, abort, local, removing, history, used>>

(* ... and the head is read for the report afterwards. *)
ChildStage(w) ==
    /\ child[w] = "updated"
    /\ child' = [child EXCEPT ![w] = "staged"]
    /\ actual' = [actual EXCEPT ![w] = head[task[w].proj]]
    /\ UNCHANGED <<disk, task, seen, abort, local, removing, history, used>>

(* The update fails, or the child dies or is killed before it reports. *)
ChildFail(w) ==
    /\ child[w] \in {"updating", "updated"}
    /\ child' = [child EXCEPT ![w] = "failed"]
    /\ seen' = [seen EXCEPT ![w] = 0]
    /\ UNCHANGED <<disk, task, actual, abort, local, removing, history, used>>

Settling(w) == Busy(w) /\ sweep[w] = {}

(* A result arrived for an aborted run: discard it, and do not leak the claim. *)
Discard(w) ==
    /\ Settling(w) /\ child[w] = "staged" /\ abort[w] # "none"
    /\ lease' = IF Owns(w) THEN [lease EXCEPT !.active = NoTask] ELSE lease
    /\ StandDownUnlessOwner(w)
    /\ EndRun(w)
    /\ UNCHANGED <<head, pending, dead, gen, cancelReq, epoch, orphan, sweep, removing,
                   history, used>>

Published(w) == [head |-> actual[w], content |-> seen[w]]
Activatable(w) == Settling(w) /\ child[w] = "staged" /\ abort[w] = "none"

(* Mutant of Activate: the ownership check is missing. *)
Activate_Unfenced(w) ==
    /\ Activatable(w)
    /\ gen' = [gen EXCEPT ![task[w].proj] = Published(w)]
    /\ lease' = IF Owns(w)
                THEN [lease EXCEPT !.active = NoTask, !.lkg[task[w].proj] = actual[w]]
                ELSE lease
    /\ StandDownUnlessOwner(w)
    /\ EndRun(w)
    /\ UNCHANGED <<head, pending, dead, cancelReq, epoch, orphan, sweep, removing, history, used>>

(* Activation: publish, last-known-good and acknowledgement under the fence. *)
Activate(w) ==
    /\ Activatable(w)
    /\ IF Owns(w)
       THEN /\ gen' = [gen EXCEPT ![task[w].proj] = Published(w)]
            /\ lease' = [lease EXCEPT !.active = NoTask,
                                      !.lkg[task[w].proj] = actual[w]]
       ELSE UNCHANGED <<gen, lease>>
    /\ StandDownUnlessOwner(w)
    /\ EndRun(w)
    /\ UNCHANGED <<head, pending, dead, cancelReq, epoch, orphan, sweep, removing, history, used>>

(* Mutant of ActivateCrash: last-known-good is the first write. *)
ActivateCrash_LastKnownGoodFirst(w) ==
    /\ "activate" \in CrashWindows
    /\ Spend("crashes", MaxCrashes)
    /\ Activatable(w) /\ Owns(w)
    /\ Vanish(w, [lease EXCEPT !.lkg[task[w].proj] = actual[w]])
    /\ UNCHANGED <<head, pending, dead, gen, cancelReq, removing, history>>

ActivateCrash(w) ==
    /\ "activate" \in CrashWindows
    /\ Spend("crashes", MaxCrashes)
    /\ Activatable(w) /\ Owns(w)
    /\ gen' = [gen EXCEPT ![task[w].proj] = Published(w)]
    /\ Vanish(w, lease)
    /\ UNCHANGED <<head, pending, dead, cancelReq, removing, history>>

(* Mutant of Requeueable: the killed child of a cancelled run is a failure. *)
Requeueable_IgnoringAbort(w) == Settling(w) /\ child[w] = "failed"

Requeueable(w) == Settling(w) /\ child[w] = "failed" /\ abort[w] = "none"

(* Mutants of Requeue: no dead letter at the last attempt; the failed attempt *)
(* is not counted.                                                            *)
Requeue_NoDeadLetter(w) ==
    /\ Requeueable(w)
    /\ pending' = IF Owns(w)
                  THEN Append(pending, [task[w] EXCEPT !.attempts = @ + 1, !.wait = TRUE])
                  ELSE pending
    /\ lease' = IF Owns(w) THEN [lease EXCEPT !.active = NoTask] ELSE lease
    /\ StandDownUnlessOwner(w)
    /\ EndRun(w)
    /\ UNCHANGED <<head, dead, gen, cancelReq, epoch, orphan, sweep, removing, history, used>>

Requeue_Uncounted(w) ==
    /\ Requeueable(w)
    /\ pending' = IF Owns(w) THEN Append(pending, [task[w] EXCEPT !.wait = TRUE]) ELSE pending
    /\ lease' = IF Owns(w) THEN [lease EXCEPT !.active = NoTask] ELSE lease
    /\ StandDownUnlessOwner(w)
    /\ EndRun(w)
    /\ UNCHANGED <<head, dead, gen, cancelReq, epoch, orphan, sweep, removing, history, used>>

(* The failure path: retry with backoff, or dead-letter at the last attempt. *)
Requeue(w) ==
    /\ Requeueable(w)
    /\ LET failed == [task[w] EXCEPT !.attempts = @ + 1]
       IN  \/ /\ Owns(w) /\ failed.attempts >= MaxAttempts
              /\ dead' = dead \cup {[failed EXCEPT !.wait = FALSE]}
              /\ UNCHANGED pending
           \/ /\ Owns(w) /\ failed.attempts < MaxAttempts
              /\ pending' = Append(pending, [failed EXCEPT !.wait = TRUE])
              /\ UNCHANGED dead
           \/ /\ ~Owns(w)
              /\ UNCHANGED <<pending, dead>>
    /\ lease' = IF Owns(w) THEN [lease EXCEPT !.active = NoTask] ELSE lease
    /\ StandDownUnlessOwner(w)
    /\ EndRun(w)
    /\ UNCHANGED <<head, gen, cancelReq, epoch, orphan, sweep, removing, history, used>>

(* The state file is written inside the queue's read-modify-write, so a crash *)
(* may fall after the lease forgot the task and before the queue has it.       *)
RequeueCrash(w) ==
    /\ "requeue" \in CrashWindows
    /\ Spend("crashes", MaxCrashes)
    /\ Requeueable(w) /\ Owns(w)
    /\ Vanish(w, [lease EXCEPT !.active = NoTask])
    /\ UNCHANGED <<head, pending, dead, gen, cancelReq, removing, history>>

(* Mutant of Aborted: the claim of a cancelled run is leaked. *)
Aborted_LeakingClaim(w) ==
    /\ Settling(w) /\ child[w] = "failed" /\ abort[w] # "none"
    /\ IF abort[w] = "lost" THEN UNCHANGED <<pc, superseded>> ELSE StandDownUnlessOwner(w)
    /\ EndRun(w)
    /\ UNCHANGED <<head, pending, dead, lease, gen, cancelReq, epoch, orphan, sweep, removing,
                   history, used>>

(* The killed child of an aborted run: a cancelled one releases the claim. *)
Aborted(w) ==
    /\ Settling(w) /\ child[w] = "failed" /\ abort[w] # "none"
    /\ lease' = IF abort[w] = "cancel" /\ Owns(w)
                THEN [lease EXCEPT !.active = NoTask] ELSE lease
    /\ IF abort[w] = "lost" THEN UNCHANGED <<pc, superseded>> ELSE StandDownUnlessOwner(w)
    /\ EndRun(w)
    /\ UNCHANGED <<head, pending, dead, gen, cancelReq, epoch, orphan, sweep, removing,
                   history, used>>
-----------------------------------------------------------------------------
Work(w) ==
    \/ Recover(w) \/ FinishStart(w) \/ Exit(w)
    \/ Claim(w) \/ ChildUpdate(w) \/ ChildStage(w)
    \/ Discard(w) \/ Activate(w) \/ Requeue(w) \/ Aborted(w)

Faults(w) == Stop(w) \/ Crash(w) \/ ClaimCrash(w) \/ ActivateCrash(w) \/ RequeueCrash(w)

Next ==
    \/ \E p \in Project : Commit(p) \/ Enqueue(p) \/ CancelRequest(p)
    \/ \E id \in Id : CancelRemove(id)
    \/ \E w \in Worker : Start(w) \/ Work(w) \/ Heartbeat(w) \/ ChildFail(w) \/ Faults(w)
    \/ \E w \in Worker, id \in Id : Sweep(w, id)
    \/ \E i \in DOMAIN pending : BackoffElapses(i)
    \/ LeaseExpires

Spec == Init /\ [][Next]_vars

(***************************************************************************)
(* The service manager restarts the worker, its timers fire, the child     *)
(* ends one way or the other, time passes.  No fault, commit, enqueue or   *)
(* cancellation is fair.                                                   *)
(***************************************************************************)
LiveSpec ==
    /\ Spec
    /\ \A w \in Worker :
         /\ WF_vars(Start(w)) /\ WF_vars(Work(w)) /\ WF_vars(Heartbeat(w))
         /\ \A id \in Id : WF_vars(Sweep(w, id))
    /\ \A i \in 1 .. MaxEnqueues : WF_vars(BackoffElapses(i))
-----------------------------------------------------------------------------
Queued(id) == \E t \in ToSet(pending) : IdOf(t) = id
Leased(id) == lease.active # NoTask /\ IdOf(lease.active) = id
DeadLettered(id) == \E t \in dead : IdOf(t) = id

(***************************************************************************)
(* At-least-once revalidation (freshness.ts:511-513, every crash window    *)
(* heals): the newest durably enqueued head of a project is published,     *)
(* queued, leased, dead-lettered or was cancelled; it is never nowhere.    *)
(***************************************************************************)
NoTaskLost ==
    \A p \in Project :
      LET id == <<p, accepted[p]>>
      IN  \/ accepted[p] = 0 \/ gen[p].head >= accepted[p] \/ id \in cancelled
          \/ Queued(id) \/ Leased(id) \/ DeadLettered(id)

(* A claim never leaks (freshness.ts:913-915): what the state file says the *)
(* owner is working on is what its run is working on, through discards,     *)
(* cancellations and failures.                                              *)
ClaimMatchesRun ==
    \A w \in Worker :
      Owns(w) /\ pc[w] \in {"up", "stopping"} => lease.active = task[w]

(* lastKnownGood is written only after a successful publication: across     *)
(* takeovers and crashes it never names a head the generation file lacks.   *)
LastKnownGoodBacked == \A p \in Project : lease.lkg[p] <= gen[p].head

(***************************************************************************)
(* The fence (freshness.ts:929-932): a worker that lost its lease cannot   *)
(* publish over its successor, so what a project's published generation    *)
(* was built from never goes back to an older commit.                      *)
(***************************************************************************)
NeverRegresses ==
    [][\A p \in Project : gen'[p].content >= gen[p].content
                         /\ gen'[p].head >= gen[p].head]_vars

(***************************************************************************)
(* A publication settles the task that the state file names at that moment *)
(* (freshness.ts:927-943, 850-853), and from its commit or a newer one:    *)
(* whatever takeovers, recoveries and sweeps did to the one file since the *)
(* claim, what is published and acknowledged is the task a successor would *)
(* have recovered.                                                         *)
(***************************************************************************)
PublishesItsClaim ==
    [][\A p \in Project : gen'[p] # gen[p] =>
         /\ lease.active # NoTask
         /\ lease.active.proj = p
         /\ gen'[p].content >= lease.active.head]_vars

(***************************************************************************)
(* Cancellation (freshness.ts:522-524, 958-960; cli.ts:4049-4056): what is *)
(* published is not a task that was cancelled, whatever the sweep, the     *)
(* child's late answer, retries and a stop race for, unless its commit has *)
(* another entry.  A worker that is lost between its sweep and the end of  *)
(* the run leaves the claim and no request, and its successor recovers it. *)
(***************************************************************************)
NoWorkerLost == used["crashes"] = 0 /\ used["stalls"] = 0
CancelledNotPublished ==
    [][\A p \in Project : gen'[p] # gen[p] /\ NoWorkerLost =>
         /\ lease.active # NoTask
         /\ IdOf(lease.active) \notin voided]_vars

(* A commit that was enqueued is refreshed, given up on or cancelled in the *)
(* end, whatever crashes, stalls and cancellations fall in between.         *)
EventuallySettled ==
    \A p \in Project, h \in Heads :
      (h > 0 /\ accepted[p] = h) ~>
        (gen[p].head >= h \/ DeadLettered(<<p, h>>) \/ <<p, h>> \in cancelled
         \/ accepted[p] > h)

-----------------------------------------------------------------------------
(* What comments of the code say and the model refutes: README.md, Known     *)
(* divergences.                                                              *)

(* Coalescing law (freshness.ts:291-292, 520-521): a project has at most one *)
(* pending entry.  A retry is appended beside a newer one.                   *)
AtMostOnePending ==
    \A i, j \in DOMAIN pending : pending[i].proj = pending[j].proj => i = j

(* The published head is the head the child actually processed               *)
(* (freshness.ts:924-925), never a newer one stamped on an older result.  It *)
(* is read after the update.                                                 *)
StampedHonestly == \A p \in Project : gen[p].head = gen[p].content
=============================================================================
