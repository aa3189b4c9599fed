------------------------------ MODULE CribLock ------------------------------
(***************************************************************************)
(* The cross-process advisory lock of packages/core/src/lock.ts: a file    *)
(* created with O_EXCL that carries its holder's pid, reclaimed when it is *)
(* stale.  Every system call is a step of its own, because contenders are  *)
(* separate processes and interleave between any two of them.              *)
(*                                                                         *)
(* The lock file is abstracted to what the code reads of it: the pid in it *)
(* (NoPid while the creator has not written it yet), its mtime (a stamp    *)
(* that no file or remembered judgement in use carries, standing also for  *)
(* the inode) and whether it is older than staleMs.                        *)
(***************************************************************************)
EXTENDS Integers, FiniteSets

CONSTANTS
    Proc,           \* the processes that contend for the lock, by pid
    NoPid,          \* what readHolder() answers for an empty or absent file
    Stamp,          \* mtimes; large enough that a fresh one always exists
    NoStamp,        \* "no file remembered"
    RaceAttempts,   \* ACQUIRE_RACE_ATTEMPTS
    MaxCrashes,     \* how many processes may die
    MaxFailures,    \* how many processes may see a system call fail (each one once)
    MayAge,         \* may a lock file that nobody will release outlive staleMs?
    Windows         \* on win32 a contended create may also fail transiently

ASSUME LockAssumption ==
    /\ NoPid \notin Proc
    /\ Stamp \subseteq Nat
    /\ NoStamp \notin Stamp
    /\ RaceAttempts \in Nat \ {0}
    /\ MaxCrashes \in Nat
    /\ MaxFailures \in Nat
    /\ MayAge \in BOOLEAN
    /\ Windows \in BOOLEAN

VARIABLES
    file,       \* the lock file: there?, holder pid, mtime stamp, older than staleMs?
    pc,         \* where each process is in acquire() / release()
    ino,        \* the file a process created (its open descriptor), by stamp
    judged,     \* what a contender remembers of the file it found: mtime, pid, age
    attempt,    \* passes of the acquire loop already used
    failed      \* history: the processes one of whose system calls failed

vars == <<file, pc, ino, judged, attempt, failed>>

Labels == {"idle", "create", "write", "held", "readOwn", "unlinkOwn",
           "stat", "read", "restat", "reread", "unlink", "recreate", "dead"}

NoFile == [there |-> FALSE, holder |-> NoPid, stamp |-> NoStamp, old |-> FALSE]
NoJudgement == [stamp |-> NoStamp, holder |-> NoPid, old |-> FALSE]

TypeOK ==
    /\ file \in [there : BOOLEAN, holder : Proc \cup {NoPid},
                 stamp : Stamp \cup {NoStamp}, old : BOOLEAN]
    /\ pc \in [Proc -> Labels]
    /\ ino \in [Proc -> Stamp \cup {NoStamp}]
    /\ judged \in [Proc -> [stamp : Stamp \cup {NoStamp},
                            holder : Proc \cup {NoPid}, old : BOOLEAN]]
    /\ attempt \in [Proc -> 0 .. RaceAttempts - 1]
    /\ failed \subseteq Proc

Init ==
    /\ file = NoFile
    /\ pc = [p \in Proc |-> "idle"]
    /\ ino = [p \in Proc |-> NoStamp]
    /\ judged = [p \in Proc |-> NoJudgement]
    /\ attempt = [p \in Proc |-> 0]
    /\ failed = {}

Alive(p) == pc[p] # "dead"

(***************************************************************************)
(* A new file gets an mtime nobody remembers.  Taking the least one keeps  *)
(* the state space finite without a bound on the number of acquisitions.   *)
(***************************************************************************)
InUse == {file.stamp} \cup {ino[p] : p \in Proc} \cup {judged[p].stamp : p \in Proc}
Fresh(s) == s \in Stamp \ InUse /\ \A t \in Stamp \ InUse : s <= t

(* readHolder(): 0 when the file is empty or gone. *)
ReadHolder == IF file.there THEN file.holder ELSE NoPid

(* acquire() returned or threw, or release() returned: nothing is remembered. *)
Leave(p) ==
    /\ pc' = [pc EXCEPT ![p] = "idle"]
    /\ ino' = [ino EXCEPT ![p] = NoStamp]
    /\ judged' = [judged EXCEPT ![p] = NoJudgement]
    /\ attempt' = [attempt EXCEPT ![p] = 0]

(* Mutant of Retry: the loop has no last pass. *)
Retry_Endless(p) ==
    /\ pc' = [pc EXCEPT ![p] = "create"]
    /\ ino' = [ino EXCEPT ![p] = NoStamp]
    /\ judged' = [judged EXCEPT ![p] = NoJudgement]
    /\ attempt' = [attempt EXCEPT ![p] = @ + 1]

(* `continue`: another pass of the loop, or LockBusyError after the last one. *)
Retry(p) ==
    IF attempt[p] + 1 < RaceAttempts
    THEN /\ pc' = [pc EXCEPT ![p] = "create"]
         /\ ino' = [ino EXCEPT ![p] = NoStamp]
         /\ judged' = [judged EXCEPT ![p] = NoJudgement]
         /\ attempt' = [attempt EXCEPT ![p] = @ + 1]
    ELSE Leave(p)

Acquire(p) ==
    /\ pc[p] = "idle"
    /\ pc' = [pc EXCEPT ![p] = "create"]
    /\ UNCHANGED <<file, ino, judged, attempt, failed>>

(* openSync(path, 'wx') succeeded: the file exists and is still empty. *)
Create(p) ==
    /\ ~file.there
    /\ \E s \in Stamp :
         /\ Fresh(s)
         /\ file' = [there |-> TRUE, holder |-> NoPid, stamp |-> s, old |-> FALSE]
         /\ ino' = [ino EXCEPT ![p] = s]
    /\ pc' = [pc EXCEPT ![p] = "write"]
    /\ judged' = [judged EXCEPT ![p] = NoJudgement]
    /\ UNCHANGED attempt

TryCreate(p) ==
    /\ pc[p] = "create"
    /\ UNCHANGED failed
    /\ \/ Create(p)
       \/ /\ file.there
          /\ pc' = [pc EXCEPT ![p] = "stat"]
          /\ UNCHANGED <<file, ino, judged, attempt>>

(* win32: the path is being opened or deleted by another process; re-race. *)
Transient(p) ==
    /\ Windows
    /\ pc[p] \in {"create", "recreate"}
    /\ Retry(p)
    /\ UNCHANGED <<file, failed>>

(* writeSync(fd, pid) writes to the inode that was opened, wherever it is now. *)
Named(p) ==
    IF file.there /\ file.stamp = ino[p] THEN [file EXCEPT !.holder = p] ELSE file

WritePid(p) ==
    /\ pc[p] = "write"
    /\ file' = Named(p)
    /\ pc' = [pc EXCEPT ![p] = "held"]
    /\ attempt' = [attempt EXCEPT ![p] = 0]
    /\ UNCHANGED <<ino, judged, failed>>

(* staleness(): stat the file; a vanished one is re-raced, never unlinked. *)
Stat(p) ==
    /\ pc[p] = "stat"
    /\ IF file.there
       THEN /\ judged' = [judged EXCEPT ![p] = [stamp |-> file.stamp, holder |-> NoPid,
                                                old |-> file.old]]
            /\ pc' = [pc EXCEPT ![p] = "read"]
            /\ UNCHANGED <<ino, attempt>>
       ELSE Retry(p)
    /\ UNCHANGED <<file, failed>>

(* Mutants of Stale: an empty file is taken for a dead holder's; the age does *)
(* not count.                                                                 *)
Stale_EmptyIsDead(p, h) == judged[p].old \/ ~(h \in Proc /\ Alive(h))
Stale_PidOnly(p, h) == h # NoPid /\ ~(h \in Proc /\ Alive(h))

(* staleness(): read the pid and judge.  A live verdict throws LockBusyError. *)
Stale(p, h) == judged[p].old \/ (h # NoPid /\ ~(h \in Proc /\ Alive(h)))

JudgeAs(p, h) ==
    /\ pc[p] = "read"
    /\ IF Stale(p, h)
       THEN /\ judged' = [judged EXCEPT ![p].holder = h]
            /\ pc' = [pc EXCEPT ![p] = "restat"]
            /\ UNCHANGED <<ino, attempt>>
       ELSE Leave(p)
    /\ UNCHANGED file

Judge(p) == JudgeAs(p, ReadHolder) /\ UNCHANGED failed

(* steal(): the mtime, then the pid, must still be the judged ones. *)
Restat(p) ==
    /\ pc[p] = "restat"
    /\ CASE ~file.there ->
              /\ pc' = [pc EXCEPT ![p] = "recreate"]
              /\ UNCHANGED <<ino, judged, attempt>>
         [] file.there /\ file.stamp = judged[p].stamp ->
              /\ pc' = [pc EXCEPT ![p] = "reread"]
              /\ UNCHANGED <<ino, judged, attempt>>
         [] OTHER -> Retry(p)
    /\ UNCHANGED <<file, failed>>

RereadAs(p, h) ==
    /\ pc[p] = "reread"
    /\ IF h = judged[p].holder
       THEN /\ pc' = [pc EXCEPT ![p] = "unlink"]
            /\ UNCHANGED <<ino, judged, attempt>>
       ELSE Retry(p)
    /\ UNCHANGED file

Reread(p) == RereadAs(p, ReadHolder) /\ UNCHANGED failed

(* unlinkSync(path) removes whatever is at the path by now. *)
Unlink(p) ==
    /\ pc[p] = "unlink"
    /\ file' = NoFile
    /\ pc' = [pc EXCEPT ![p] = "recreate"]
    /\ UNCHANGED <<ino, judged, attempt, failed>>

Recreate(p) ==
    /\ pc[p] = "recreate"
    /\ UNCHANGED failed
    /\ \/ Create(p)
       \/ file.there /\ Retry(p) /\ UNCHANGED file

(* release(): held is cleared first, so the critical section ends here. *)
Release(p) ==
    /\ pc[p] = "held"
    /\ pc' = [pc EXCEPT ![p] = "readOwn"]
    /\ UNCHANGED <<file, ino, judged, attempt, failed>>

ReadOwn(p) ==
    /\ pc[p] = "readOwn"
    /\ IF ReadHolder = p
       THEN /\ pc' = [pc EXCEPT ![p] = "unlinkOwn"]
            /\ UNCHANGED <<ino, judged, attempt>>
       ELSE Leave(p)
    /\ UNCHANGED <<file, failed>>

(* Mutant of UnlinkOwn: the file stays. *)
UnlinkOwn_Forgotten(p) ==
    /\ pc[p] = "unlinkOwn"
    /\ Leave(p)
    /\ UNCHANGED <<file, failed>>

UnlinkOwn(p) ==
    /\ pc[p] = "unlinkOwn"
    /\ file' = NoFile
    /\ Leave(p)
    /\ UNCHANGED failed

(***************************************************************************)
(* A system call fails (disk full, an I/O error, a sharing violation).  An *)
(* exclusive create that fails for good throws.  After the create, a write *)
(* that fails leaves the file empty and a close that fails leaves it with  *)
(* the pid; both throw, or on win32 may re-race the file just made.        *)
(***************************************************************************)
OpenFails(p) ==
    /\ pc[p] \in {"create", "recreate"}
    /\ Leave(p)
    /\ UNCHANGED file

WriteFails(p) ==
    /\ pc[p] = "write"
    /\ file' \in {file, Named(p)}
    /\ Leave(p) \/ (Windows /\ Retry(p))

(* staleness(): whatever statSync throws is "vanished"; readHolder() is 0. *)
StatFails(p) ==
    /\ pc[p] = "stat"
    /\ Retry(p)
    /\ UNCHANGED file

ReadFails(p) == JudgeAs(p, NoPid) \/ RereadAs(p, NoPid)

(* steal(): the catch goes on to the create, whichever call threw. *)
StealFails(p) ==
    /\ pc[p] \in {"restat", "unlink"}
    /\ pc' = [pc EXCEPT ![p] = "recreate"]
    /\ UNCHANGED <<file, ino, judged, attempt>>

(* release() is best effort: the file stays if it cannot be read or removed. *)
ReleaseFails(p) ==
    /\ pc[p] \in {"readOwn", "unlinkOwn"}
    /\ Leave(p)
    /\ UNCHANGED file

CallFails(p) ==
    /\ p \notin failed
    /\ Cardinality(failed) < MaxFailures
    /\ failed' = failed \cup {p}
    /\ \/ OpenFails(p) \/ WriteFails(p) \/ StatFails(p) \/ ReadFails(p)
       \/ StealFails(p) \/ ReleaseFails(p)

(* The process dies where it stands; what it did to the file stays. *)
Crash(p) ==
    /\ Alive(p)
    /\ Cardinality({q \in Proc : ~Alive(q)}) < MaxCrashes
    /\ pc' = [pc EXCEPT ![p] = "dead"]
    /\ ino' = [ino EXCEPT ![p] = NoStamp]
    /\ judged' = [judged EXCEPT ![p] = NoJudgement]
    /\ attempt' = [attempt EXCEPT ![p] = 0]
    /\ UNCHANGED <<file, failed>>

(***************************************************************************)
(* staleMs passes.  Critical sections are assumed to be shorter than       *)
(* staleMs (10 minutes), so only a file grows old whose creator is dead or *)
(* has left it behind.                                                     *)
(***************************************************************************)
Age ==
    /\ MayAge
    /\ file.there /\ ~file.old
    /\ \A p \in Proc : ino[p] # file.stamp
    /\ file' = [file EXCEPT !.old = TRUE]
    /\ UNCHANGED <<pc, ino, judged, attempt, failed>>

Step(p) ==
    \/ Acquire(p) \/ TryCreate(p) \/ Transient(p) \/ WritePid(p) \/ Stat(p) \/ Judge(p)
    \/ Restat(p) \/ Reread(p) \/ Unlink(p) \/ Recreate(p)
    \/ Release(p) \/ ReadOwn(p) \/ UnlinkOwn(p)

Next == Age \/ \E p \in Proc : Step(p) \/ Crash(p) \/ CallFails(p)

Spec == Init /\ [][Next]_vars

(***************************************************************************)
(* Living processes keep running, callers retry (withFreshnessLock spins   *)
(* on LockBusyError; a user re-runs the command), time passes, and win32's *)
(* delete-pending window does not open on every single create.             *)
(***************************************************************************)
LiveSpec ==
    /\ Spec
    /\ WF_vars(Age)
    /\ \A p \in Proc : WF_vars(Step(p)) /\ SF_vars(TryCreate(p))
-----------------------------------------------------------------------------
Critical(p) == pc[p] = "held"

(* Two processes must not mutate concurrently (lock.ts:4-6): at most one   *)
(* process is between a successful acquire() and its release(), as long as *)
(* no call failed, or what a failed call leaves at the path does not age.  *)
(* When it does, its creator contends anew for what is stale, and two      *)
(* reclaims meet as they do over a dead holder's file with a third         *)
(* contender: README.md, Known divergences.                                *)
MutualExclusion ==
    (MayAge => failed = {}) =>
      \A p, q \in Proc : Critical(p) /\ Critical(q) => p = q

(* Who lives and whose calls succeed never strands the lock, whatever      *)
(* others do to the file: a file that nobody is about to release names a   *)
(* process that died or saw a call fail, or, empty, comes from one.        *)
(* (lock.ts:149-158, 165-176 and every early return of acquire().)         *)
Culprit(p) == ~Alive(p) \/ p \in failed
NoStrandedLock ==
    file.there => \/ \E p \in Proc : ino[p] = file.stamp
                  \/ \E p \in Proc : Culprit(p) /\ file.holder \in {p, NoPid}

(* A crashed crib is self-healing on the next run (lock.ts:17-18), and so  *)
(* is a failed unlink (line 156): a lock file whose creator is dead or has *)
(* left it behind does not stay at the path for ever, even when it is      *)
(* empty for a crash or a failure between the create and the pid write.    *)
Orphaned(s) == file.there /\ file.stamp = s /\ \A p \in Proc : ino[p] # s
SelfHeals == \A s \in Stamp : Orphaned(s) ~> ~Orphaned(s)
=============================================================================
