--------------------------- MODULE CribLockProofs ---------------------------
(***************************************************************************)
(* Machine-checked facts about CribLock for every set of processes.  The   *)
(* exclusive create alone carries mutual exclusion as long as no file is   *)
(* ever judged stale; README.md, Known divergences, shows what a reclaim   *)
(* by two contenders does to it.  And whoever lives, and whose calls       *)
(* succeed, strands no file, through all crashes, failures and reclaims.   *)
(***************************************************************************)
EXTENDS CribLock, FiniteSetTheorems, TLAPS

(* Processes between their exclusive create and the end of release(). *)
OwnerLabels == {"write", "held", "readOwn", "unlinkOwn"}
Owner(p) == pc[p] \in OwnerLabels

(* Without crashes nobody dies, and a file left behind by a failed call     *)
(* does not grow old, so no verdict is ever "stale".                        *)
NoReclaim ==
    /\ ~file.old
    /\ MayAge => failed = {}
    /\ \A p \in Proc :
         /\ pc[p] \notin {"dead", "restat", "reread", "unlink", "recreate"}
         /\ ~judged[p].old

(* The file at the path is the one its owner created, and it names it. *)
OwnerHasFile ==
    \A p \in Proc :
      /\ Owner(p) => file.there /\ file.stamp = ino[p] /\ ino[p] # NoStamp
      /\ Owner(p) /\ pc[p] # "write" => file.holder = p
      /\ ~Owner(p) => ino[p] = NoStamp

FileHasOwner == file.there /\ failed = {} => \E p \in Proc : Owner(p)
OneOwner == \A p, q \in Proc : Owner(p) /\ Owner(q) => p = q

LockInv == TypeOK /\ NoReclaim /\ OwnerHasFile /\ FileHasOwner /\ OneOwner

(* Every state the specification reaches is well typed: pids, stamps and   *)
(* attempt counters stay in their ranges through every early return.       *)
THEOREM TypeCorrect == Spec => []TypeOK
<1>1. Init => TypeOK
  BY LockAssumption DEF Init, TypeOK, Labels, NoFile, NoJudgement
<1>2. TypeOK /\ [Next]_vars => TypeOK'
  <2> SUFFICES ASSUME TypeOK, [Next]_vars PROVE TypeOK'
    OBVIOUS
  <2> USE LockAssumption DEF TypeOK, Labels, NoFile, NoJudgement
  <2>1. ASSUME NEW p \in Proc, Leave(p), file' \in [there : BOOLEAN,
                 holder : Proc \cup {NoPid}, stamp : Stamp \cup {NoStamp}, old : BOOLEAN],
                 failed' \subseteq Proc
        PROVE TypeOK'
    BY <2>1 DEF Leave
  <2>2. ASSUME NEW p \in Proc, Retry(p), file' \in [there : BOOLEAN,
                 holder : Proc \cup {NoPid}, stamp : Stamp \cup {NoStamp}, old : BOOLEAN],
                 failed' \subseteq Proc
        PROVE TypeOK'
    <3>1. CASE attempt[p] + 1 < RaceAttempts
      <4>1. /\ pc' = [pc EXCEPT ![p] = "create"]
            /\ ino' = [ino EXCEPT ![p] = NoStamp]
            /\ judged' = [judged EXCEPT ![p] = NoJudgement]
            /\ attempt' = [attempt EXCEPT ![p] = @ + 1]
        BY <2>2, <3>1 DEF Retry
      <4>2. attempt[p] + 1 \in 0 .. RaceAttempts - 1
        BY <3>1
      <4> QED
        BY <2>2, <4>1, <4>2
    <3>2. CASE ~(attempt[p] + 1 < RaceAttempts)
      <4>1. Leave(p)
        BY <2>2, <3>2 DEF Retry
      <4> QED
        BY <2>1, <2>2, <4>1
    <3> QED
      BY <3>1, <3>2
  <2>3. ASSUME NEW p \in Proc, Create(p), failed' \subseteq Proc PROVE TypeOK'
    BY <2>3 DEF Create
  <2>4. ReadHolder \in Proc \cup {NoPid}
    BY DEF ReadHolder
  <2>5. CASE Age
    BY <2>5 DEF Age
  <2>a. ASSUME NEW p \in Proc, NEW h \in Proc \cup {NoPid}, JudgeAs(p, h), failed' \subseteq Proc
        PROVE TypeOK'
    BY <2>a, <2>1 DEF JudgeAs
  <2>b. ASSUME NEW p \in Proc, NEW h \in Proc \cup {NoPid}, RereadAs(p, h), failed' \subseteq Proc
        PROVE TypeOK'
    BY <2>b, <2>2 DEF RereadAs
  <2>c. ASSUME NEW p \in Proc
        PROVE  Named(p) \in [there : BOOLEAN, holder : Proc \cup {NoPid},
                             stamp : Stamp \cup {NoStamp}, old : BOOLEAN]
    BY DEF Named
  <2>6. ASSUME NEW p \in Proc, Step(p) PROVE TypeOK'
    <3>1. CASE Acquire(p)
      BY <3>1 DEF Acquire
    <3>2. CASE TryCreate(p)
      BY <3>2, <2>3 DEF TryCreate
    <3>3. CASE Transient(p)
      BY <3>3, <2>2 DEF Transient
    <3>4. CASE WritePid(p)
      BY <3>4, <2>c DEF WritePid
    <3>5. CASE Stat(p)
      BY <3>5, <2>2 DEF Stat
    <3>6. CASE Judge(p)
      BY <3>6, <2>4, <2>a DEF Judge
    <3>7. CASE Restat(p)
      BY <3>7, <2>2 DEF Restat
    <3>8. CASE Reread(p)
      BY <3>8, <2>4, <2>b DEF Reread
    <3>9. CASE Unlink(p)
      BY <3>9 DEF Unlink
    <3>10. CASE Recreate(p)
      BY <3>10, <2>2, <2>3 DEF Recreate
    <3>11. CASE Release(p)
      BY <3>11 DEF Release
    <3>12. CASE ReadOwn(p)
      BY <3>12, <2>1 DEF ReadOwn
    <3>13. CASE UnlinkOwn(p)
      BY <3>13, <2>1 DEF UnlinkOwn
    <3> QED
      BY <2>6, <3>1, <3>2, <3>3, <3>4, <3>5, <3>6, <3>7, <3>8, <3>9, <3>10, <3>11,
         <3>12, <3>13 DEF Step
  <2>7. ASSUME NEW p \in Proc, Crash(p) PROVE TypeOK'
    BY <2>7 DEF Crash
  <2>8. ASSUME NEW p \in Proc, CallFails(p) PROVE TypeOK'
    <3>0. failed' \subseteq Proc
      BY <2>8 DEF CallFails
    <3>1. CASE OpenFails(p) \/ ReleaseFails(p)
      BY <3>0, <3>1, <2>1 DEF OpenFails, ReleaseFails
    <3>2. CASE WriteFails(p)
      BY <3>0, <3>2, <2>1, <2>2, <2>c DEF WriteFails
    <3>3. CASE StatFails(p)
      BY <3>0, <3>3, <2>2 DEF StatFails
    <3>4. CASE ReadFails(p)
      BY <3>0, <3>4, <2>a, <2>b DEF ReadFails
    <3>5. CASE StealFails(p)
      BY <3>0, <3>5 DEF StealFails
    <3> QED
      BY <2>8, <3>1, <3>2, <3>3, <3>4, <3>5 DEF CallFails
  <2>9. CASE UNCHANGED vars
    BY <2>9 DEF vars
  <2> QED
    BY <2>5, <2>6, <2>7, <2>8, <2>9 DEF Next
<1> QED
  BY <1>1, <1>2, PTL DEF Spec

(* The initial state satisfies the strengthened invariant. *)
LEMMA LockInvInit == Init => LockInv
BY LockAssumption DEF Init, LockInv, TypeOK, Labels, NoFile, NoJudgement, NoReclaim,
   OwnerHasFile, FileHasOwner, OneOwner, Owner, OwnerLabels

(* What a process does outside the owner states leaves file and owners alone. *)
LEMMA OutsiderStep ==
  ASSUME LockInv, NEW p \in Proc, ~Owner(p), file' = file, ino' = ino,
         failed \subseteq failed', MayAge => failed' = {},
         \E l \in {"idle", "create", "stat", "read"} : pc' = [pc EXCEPT ![p] = l],
         \A q \in Proc : ~judged'[q].old
  PROVE  NoReclaim' /\ OwnerHasFile' /\ FileHasOwner' /\ OneOwner'
<1> USE DEF LockInv, TypeOK, Owner, OwnerLabels
<1>1. PICK l \in {"idle", "create", "stat", "read"} : pc' = [pc EXCEPT ![p] = l]
  OBVIOUS
<1>2. \A q \in Proc : Owner(q)' <=> Owner(q)
  BY <1>1
<1>3. NoReclaim'
  BY <1>1 DEF NoReclaim
<1>4. OwnerHasFile'
  BY <1>1, <1>2 DEF OwnerHasFile
<1>5. FileHasOwner'
  BY <1>2 DEF FileHasOwner
<1>6. OneOwner'
  BY <1>2 DEF OneOwner
<1> QED
  BY <1>3, <1>4, <1>5, <1>6

(* An owner's own progress through write, held and release. *)
LEMMA OwnerStep ==
  ASSUME LockInv, NEW p \in Proc, Owner(p), ino' = ino, judged' = judged, failed' = failed,
         file' = [file EXCEPT !.holder = p],
         \E l \in {"held", "readOwn", "unlinkOwn"} : pc' = [pc EXCEPT ![p] = l]
  PROVE  NoReclaim' /\ OwnerHasFile' /\ FileHasOwner' /\ OneOwner'
<1> USE DEF LockInv, TypeOK, Owner, OwnerLabels
<1>1. PICK l \in {"held", "readOwn", "unlinkOwn"} : pc' = [pc EXCEPT ![p] = l]
  OBVIOUS
<1>2. \A q \in Proc : Owner(q)' <=> Owner(q)
  BY <1>1
<1>3. NoReclaim'
  BY <1>1 DEF NoReclaim
<1>4. OwnerHasFile'
  BY <1>1, <1>2 DEF OwnerHasFile, OneOwner
<1>5. FileHasOwner'
  BY <1>2 DEF FileHasOwner
<1>6. OneOwner'
  BY <1>2 DEF OneOwner
<1> QED
  BY <1>3, <1>4, <1>5, <1>6

(* The exclusive create: nobody owned the absent file, and now p alone does. *)
LEMMA CreateStep ==
  ASSUME LockInv, NEW p \in Proc, Create(p), failed' = failed
  PROVE  NoReclaim' /\ OwnerHasFile' /\ FileHasOwner' /\ OneOwner'
<1> USE LockAssumption DEF LockInv, TypeOK, Owner, OwnerLabels, Create, NoJudgement
<1>1. \A q \in Proc : ~Owner(q)
  BY DEF OwnerHasFile
<1>2. \A q \in Proc : Owner(q)' <=> q = p
  BY <1>1
<1>3. NoReclaim'
  BY DEF NoReclaim
<1>4. OwnerHasFile'
  BY <1>1, <1>2 DEF OwnerHasFile, Fresh
<1>5. FileHasOwner' /\ OneOwner'
  BY <1>2 DEF FileHasOwner, OneOwner
<1> QED
  BY <1>3, <1>4, <1>5

(* release() unlinks: the one owner leaves and takes its file with it. *)
LEMMA UnlinkOwnStep ==
  ASSUME LockInv, NEW p \in Proc, UnlinkOwn(p)
  PROVE  NoReclaim' /\ OwnerHasFile' /\ FileHasOwner' /\ OneOwner'
<1> USE LockAssumption DEF LockInv, TypeOK, Owner, OwnerLabels, UnlinkOwn, Leave,
        NoJudgement, NoFile
<1>1. \A q \in Proc : ~Owner(q)'
  BY DEF OneOwner
<1>2. NoReclaim'
  BY DEF NoReclaim
<1>3. OwnerHasFile'
  BY <1>1 DEF OwnerHasFile, OneOwner
<1>4. FileHasOwner' /\ OneOwner'
  BY <1>1 DEF FileHasOwner, OneOwner
<1> QED
  BY <1>2, <1>3, <1>4

(* An owner whose call fails leaves; the file may stay, as its call left it. *)
LEMMA OwnerLeaves ==
  ASSUME LockInv, NEW p \in Proc, Owner(p), Leave(p) \/ Retry(p), file' \in {file, Named(p)},
         failed' # {}, ~MayAge
  PROVE  NoReclaim' /\ OwnerHasFile' /\ FileHasOwner' /\ OneOwner'
<1> USE LockAssumption DEF LockInv, TypeOK, Owner, OwnerLabels
<1>1. /\ \E l \in {"idle", "create"} : pc' = [pc EXCEPT ![p] = l]
      /\ ino' = [ino EXCEPT ![p] = NoStamp]
      /\ judged' = [judged EXCEPT ![p] = NoJudgement]
  BY DEF Leave, Retry
<1>2. \A q \in Proc : ~Owner(q)'
  BY <1>1 DEF OneOwner
<1>3. NoReclaim'
  BY <1>1 DEF NoReclaim, NoJudgement, Named
<1>4. OwnerHasFile'
  BY <1>1, <1>2 DEF OwnerHasFile, OneOwner
<1> QED
  BY <1>2, <1>3, <1>4 DEF FileHasOwner, OneOwner

(* An outsider that leaves or starts another pass. *)
LEMMA OutsiderLeaves ==
  ASSUME LockInv, NEW p \in Proc, ~Owner(p), Leave(p) \/ Retry(p), file' = file,
         failed \subseteq failed', MayAge => failed' = {}
  PROVE  NoReclaim' /\ OwnerHasFile' /\ FileHasOwner' /\ OneOwner'
<1>1. ino' = ino
  BY DEF Leave, Retry, LockInv, TypeOK, OwnerHasFile
<1>2. \E l \in {"idle", "create", "stat", "read"} : pc' = [pc EXCEPT ![p] = l]
  BY DEF Leave, Retry
<1>3. \A q \in Proc : ~judged'[q].old
  BY DEF Leave, Retry, NoJudgement, NoReclaim, LockInv, TypeOK
<1> QED
  BY <1>1, <1>2, <1>3, OutsiderStep

(* No pid that can be read is a dead one's, and nothing is old. *)
LEMMA NothingIsStale ==
  ASSUME LockInv, NEW p \in Proc, NEW h \in {NoPid, ReadHolder}
  PROVE  ~Stale(p, h)
<1>1. h \in Proc \cup {NoPid}
  BY DEF LockInv, TypeOK, ReadHolder
<1> QED
  BY <1>1 DEF Stale, Alive, LockInv, NoReclaim

(* One step of acquire() or release() keeps the one-owner invariant. *)
LEMMA ProcessStep ==
  ASSUME LockInv, NEW p \in Proc, Step(p)
  PROVE  NoReclaim' /\ OwnerHasFile' /\ FileHasOwner' /\ OneOwner'
<1> USE LockAssumption DEF LockInv, TypeOK
<1>0. (MayAge => failed = {}) /\ \A q \in Proc : ~judged[q].old
  BY DEF NoReclaim
<1>1. CASE Acquire(p)
  BY <1>0, <1>1, OutsiderStep DEF Acquire, Owner, OwnerLabels
<1>2. CASE TryCreate(p)
  <2>1. CASE Create(p)
    BY <1>2, <2>1, CreateStep DEF TryCreate
  <2>2. CASE pc' = [pc EXCEPT ![p] = "stat"] /\ UNCHANGED <<file, ino, judged, attempt>>
    BY <1>0, <1>2, <2>2, OutsiderStep DEF TryCreate, Owner, OwnerLabels
  <2> QED
    BY <1>2, <2>1, <2>2 DEF TryCreate
<1>3. CASE Transient(p)
  BY <1>0, <1>3, OutsiderLeaves DEF Transient, Owner, OwnerLabels
<1>4. CASE WritePid(p)
  <2>1. Owner(p) /\ file' = [file EXCEPT !.holder = p]
    BY <1>4 DEF WritePid, Named, Owner, OwnerLabels, OwnerHasFile
  <2> QED
    BY <1>4, <2>1, OwnerStep DEF WritePid
<1>5. CASE Stat(p)
  <2>0. ~Owner(p) /\ file' = file /\ failed' = failed
    BY <1>5 DEF Stat, Owner, OwnerLabels
  <2>1. CASE file.there
    <3>1. ino' = ino /\ pc' = [pc EXCEPT ![p] = "read"]
      BY <1>5, <2>1 DEF Stat
    <3>2. \A r \in Proc : ~judged'[r].old
      BY <1>5, <2>1 DEF Stat, NoReclaim
    <3> QED
      BY <1>0, <2>0, <3>1, <3>2, OutsiderStep
  <2>2. CASE ~file.there
    BY <1>0, <1>5, <2>0, <2>2, OutsiderLeaves DEF Stat
  <2> QED
    BY <2>1, <2>2
<1>6. CASE Judge(p)
  BY <1>0, <1>6, NothingIsStale, OutsiderLeaves DEF Judge, JudgeAs, Owner, OwnerLabels
<1>7. CASE Restat(p) \/ Reread(p) \/ Unlink(p) \/ Recreate(p)
  BY <1>7 DEF Restat, Reread, RereadAs, Unlink, Recreate, NoReclaim
<1>8. CASE Release(p)
  <2>1. Owner(p) /\ file' = [file EXCEPT !.holder = p]
    BY <1>8 DEF Release, Owner, OwnerLabels, OwnerHasFile
  <2> QED
    BY <1>8, <2>1, OwnerStep DEF Release
<1>9. CASE ReadOwn(p)
  <2>1. Owner(p) /\ file' = [file EXCEPT !.holder = p] /\ ReadHolder = p
    BY <1>9 DEF ReadOwn, Owner, OwnerLabels, OwnerHasFile, ReadHolder
  <2> QED
    BY <1>9, <2>1, OwnerStep DEF ReadOwn
<1>10. CASE UnlinkOwn(p)
  BY <1>10, UnlinkOwnStep
<1> QED
  BY <1>1, <1>2, <1>3, <1>4, <1>5, <1>6, <1>7, <1>8, <1>9, <1>10 DEF Step

(* A failing call keeps it too, as long as what it leaves does not age. *)
LEMMA FailureStep ==
  ASSUME LockInv, NEW p \in Proc, CallFails(p), ~MayAge
  PROVE  NoReclaim' /\ OwnerHasFile' /\ FileHasOwner' /\ OneOwner'
<1>1. failed \subseteq failed' /\ failed' # {}
  BY DEF CallFails
<1>2. CASE OpenFails(p) \/ StatFails(p)
  BY <1>1, <1>2, OutsiderLeaves DEF OpenFails, StatFails, Owner, OwnerLabels
<1>3. CASE WriteFails(p) \/ ReleaseFails(p)
  BY <1>1, <1>3, OwnerLeaves DEF WriteFails, ReleaseFails, Owner, OwnerLabels
<1>4. CASE ReadFails(p) \/ StealFails(p)
  <2>1. JudgeAs(p, NoPid)
    BY <1>4 DEF ReadFails, StealFails, RereadAs, LockInv, NoReclaim
  <2> QED
    BY <1>1, <2>1, NothingIsStale, OutsiderLeaves DEF JudgeAs, Owner, OwnerLabels
<1> QED
  BY <1>2, <1>3, <1>4 DEF CallFails

(* What has failed stays on record. *)
LEMMA FailedGrows == [Next]_vars => failed \subseteq failed'
<1>1. ASSUME NEW p \in Proc, Step(p) PROVE failed \subseteq failed'
  BY <1>1 DEF Step, Acquire, TryCreate, Transient, WritePid, Stat, Judge, Restat, Reread,
     Unlink, Recreate, Release, ReadOwn, UnlinkOwn
<1>2. ASSUME NEW p \in Proc, Crash(p) \/ CallFails(p) PROVE failed \subseteq failed'
  BY <1>2 DEF Crash, CallFails
<1>3. Age => failed \subseteq failed'
  BY DEF Age
<1> QED
  BY <1>1, <1>2, <1>3 DEF Next, vars

(***************************************************************************)
(* For every set of processes: as long as no holder crashes, and no file   *)
(* that a failed call left behind outlives staleMs, at most one process is *)
(* inside the critical section (lock.ts acquire() and release(), every     *)
(* interleaving of their system calls).                                    *)
(***************************************************************************)
THEOREM ExclusionWithoutCrashes ==
  ASSUME MaxCrashes = 0
  PROVE  Spec => []MutualExclusion
<1> DEFINE Undisturbed == MayAge => failed = {}
           I == Undisturbed => LockInv
<1>1. I /\ TypeOK' /\ [Next]_vars => I'
  <2> SUFFICES ASSUME I, Undisturbed', TypeOK', [Next]_vars PROVE LockInv'
    OBVIOUS
  <2>0. LockInv
    <3>1. failed \subseteq failed'
      BY FailedGrows
    <3> QED
      BY <3>1
  <2>1. CASE Age
    <3>1. failed = {} /\ file.there
      BY <2>0, <2>1 DEF Age, LockInv, NoReclaim
    <3>2. PICK p \in Proc : Owner(p)
      BY <2>0, <3>1 DEF LockInv, FileHasOwner
    <3> QED
      BY <2>0, <2>1, <3>2 DEF Age, LockInv, OwnerHasFile
  <2>2. ASSUME NEW p \in Proc, Step(p) PROVE LockInv'
    BY <2>0, <2>2, ProcessStep DEF LockInv
  <2>3. ASSUME NEW p \in Proc, Crash(p) PROVE FALSE
    <3>1. {q \in Proc : ~Alive(q)} = {}
      BY <2>0 DEF LockInv, NoReclaim, Alive
    <3> QED
      BY <2>3, <3>1, FS_EmptySet DEF Crash
  <2>4. ASSUME NEW p \in Proc, CallFails(p) PROVE LockInv'
    <3>1. ~MayAge
      BY <2>4 DEF CallFails
    <3> QED
      BY <2>0, <2>4, <3>1, FailureStep DEF LockInv
  <2>5. CASE UNCHANGED vars
    BY <2>0, <2>5 DEF vars, LockInv, TypeOK, NoReclaim, OwnerHasFile, FileHasOwner,
       OneOwner, Owner
  <2> QED
    BY <2>1, <2>2, <2>3, <2>4, <2>5 DEF Next
<1>2. I => MutualExclusion
  BY DEF LockInv, OneOwner, Owner, OwnerLabels, MutualExclusion, Critical
<1>3. Init => I
  BY LockInvInit
<1> QED
  BY TypeCorrect, <1>1, <1>2, <1>3, PTL DEF Spec

(***************************************************************************)
(* What a file on disk says of those who made it.  A descriptor is open    *)
(* exactly while its process is on its way; a file that names a process    *)
(* which lives and saw no failure is still that process's own; an empty    *)
(* one is being written, or somebody died or saw a failure.                *)
(***************************************************************************)
Descriptors == \A p \in Proc : ino[p] # NoStamp <=> Owner(p)
RealFile == file.there => file.stamp # NoStamp
NamedFile ==
    \A p \in Proc : file.there /\ file.holder = p /\ ~Culprit(p)
                      => Owner(p) /\ ino[p] = file.stamp
EmptyFile ==
    file.there /\ file.holder = NoPid
      => \/ \E p \in Proc : pc[p] = "write" /\ ino[p] = file.stamp
         \/ \E p \in Proc : Culprit(p)
StrandInv == TypeOK /\ Descriptors /\ RealFile /\ NamedFile /\ EmptyFile

(* The file is left alone, and p moves without touching its descriptor or   *)
(* gives up one that the file does not depend on.                           *)
LEMMA StrandMove ==
  ASSUME StrandInv, NEW p \in Proc, NEW l \in Labels, pc' = [pc EXCEPT ![p] = l],
         failed \subseteq failed', Alive(p), TypeOK',
         file' = file,
         \/ ino' = ino /\ (Owner(p) <=> l \in OwnerLabels) /\ pc[p] # "write"
         \/ /\ ino' = [ino EXCEPT ![p] = NoStamp]
            /\ l \notin OwnerLabels
            /\ ~file.there \/ file.holder # p \/ l = "dead" \/ p \in failed'
            /\ pc[p] # "write" \/ l = "dead" \/ p \in failed'
  PROVE  StrandInv'
<1> USE DEF StrandInv, TypeOK, Owner, OwnerLabels, Culprit, Alive
<1>1. Descriptors'
  BY DEF Descriptors
<1>2. RealFile'
  BY DEF RealFile
<1>3. NamedFile'
  BY DEF NamedFile, Descriptors
<1>4. EmptyFile'
  BY DEF EmptyFile
<1> QED
  BY <1>1, <1>2, <1>3, <1>4

(* Leaving, or starting over, by a process that holds no descriptor.        *)
LEMMA StrandLeave ==
  ASSUME StrandInv, NEW p \in Proc, Leave(p) \/ Retry(p), file' = file, Alive(p), TypeOK',
         failed \subseteq failed', ~Owner(p) \/ p \in failed'
  PROVE  StrandInv'
<1>1. /\ \E l \in {"idle", "create"} : pc' = [pc EXCEPT ![p] = l]
      /\ ino' = [ino EXCEPT ![p] = NoStamp]
  BY DEF Leave, Retry
<1>2. CASE p \in failed'
  BY <1>1, <1>2, StrandMove DEF Labels, OwnerLabels
<1>3. CASE p \notin failed'
  <2>1. ~Owner(p) /\ p \notin failed
    BY <1>3
  <2>2. ~file.there \/ file.holder # p
    BY <2>1 DEF StrandInv, NamedFile, Culprit
  <2>3. pc[p] # "write"
    BY <2>1 DEF Owner, OwnerLabels
  <2> QED
    BY <1>1, <2>2, <2>3, StrandMove DEF Labels, OwnerLabels
<1> QED
  BY <1>2, <1>3

(* The exclusive create. *)
LEMMA StrandCreate ==
  ASSUME StrandInv, NEW p \in Proc, Create(p), failed' = failed, TypeOK',
         pc[p] \in {"create", "recreate"}
  PROVE  StrandInv'
<1> USE LockAssumption DEF StrandInv, TypeOK, Owner, OwnerLabels, Culprit, Alive, Create
<1>1. Descriptors' /\ RealFile'
  BY DEF Descriptors, RealFile
<1>2. NamedFile' /\ EmptyFile'
  BY DEF NamedFile, EmptyFile
<1> QED
  BY <1>1, <1>2

(* The pid is written to what was created, if that is still at the path; p  *)
(* goes on holding it, or gives up after a failure.                         *)
LEMMA StrandName ==
  ASSUME StrandInv, NEW p \in Proc, pc[p] = "write", file' = Named(p), TypeOK',
         \/ /\ pc' = [pc EXCEPT ![p] = "held"]
            /\ ino' = ino /\ failed' = failed
         \/ /\ \E l \in {"idle", "create"} : pc' = [pc EXCEPT ![p] = l]
            /\ ino' = [ino EXCEPT ![p] = NoStamp]
            /\ failed' = failed \cup {p}
  PROVE  StrandInv'
<1> USE LockAssumption DEF StrandInv, TypeOK, Owner, OwnerLabels, Culprit, Alive
<1>1. Descriptors'
  BY DEF Descriptors
<1>2. RealFile'
  BY DEF RealFile, Named
<1>3. NamedFile'
  BY DEF NamedFile, Descriptors, Named
<1>4. EmptyFile'
  BY DEF EmptyFile, Named
<1> QED
  BY <1>1, <1>2, <1>3, <1>4

(* The path is unlinked; whoever did it moves on. *)
LEMMA StrandUnlink ==
  ASSUME StrandInv, NEW p \in Proc, file' = NoFile, failed' = failed, TypeOK',
         \/ Leave(p)
         \/ /\ pc[p] = "unlink" /\ ino' = ino
            /\ pc' = [pc EXCEPT ![p] = "recreate"]
  PROVE  StrandInv'
<1>1. ~file'.there
  BY DEF NoFile
<1>2. Descriptors'
  BY DEF StrandInv, TypeOK, Descriptors, Owner, OwnerLabels, Leave
<1> QED
  BY <1>1, <1>2 DEF StrandInv, RealFile, NamedFile, EmptyFile

(* Every step of acquire() and release(). *)
LEMMA StrandStep ==
  ASSUME StrandInv, NEW p \in Proc, Step(p), TypeOK'
  PROVE  StrandInv'
<1> USE DEF OwnerLabels, Owner, Labels, Alive
<1>1. CASE Acquire(p)
  BY <1>1, StrandMove DEF Acquire
<1>2. CASE TryCreate(p)
  <2>1. CASE Create(p)
    BY <1>2, <2>1, StrandCreate DEF TryCreate
  <2>2. CASE pc' = [pc EXCEPT ![p] = "stat"] /\ UNCHANGED <<file, ino, judged, attempt>>
    BY <1>2, <2>2, StrandMove DEF TryCreate
  <2> QED
    BY <1>2, <2>1, <2>2 DEF TryCreate
<1>3. CASE Transient(p)
  BY <1>3, StrandLeave DEF Transient
<1>4. CASE WritePid(p)
  BY <1>4, StrandName DEF WritePid
<1>5. CASE Stat(p)
  <2>1. CASE file.there
    BY <1>5, <2>1, StrandMove DEF Stat
  <2>2. CASE ~file.there
    BY <1>5, <2>2, StrandLeave DEF Stat
  <2> QED
    BY <2>1, <2>2
<1>6. CASE Judge(p)
  <2>1. CASE Stale(p, ReadHolder)
    BY <1>6, <2>1, StrandMove DEF Judge, JudgeAs
  <2>2. CASE ~Stale(p, ReadHolder)
    BY <1>6, <2>2, StrandLeave DEF Judge, JudgeAs
  <2> QED
    BY <2>1, <2>2
<1>7. CASE Restat(p)
  <2>1. CASE pc' = [pc EXCEPT ![p] = "recreate"] /\ UNCHANGED <<ino, judged, attempt>>
    BY <1>7, <2>1, StrandMove DEF Restat
  <2>2. CASE pc' = [pc EXCEPT ![p] = "reread"] /\ UNCHANGED <<ino, judged, attempt>>
    BY <1>7, <2>2, StrandMove DEF Restat
  <2>3. CASE Retry(p)
    BY <1>7, <2>3, StrandLeave DEF Restat
  <2> QED
    BY <1>7, <2>1, <2>2, <2>3 DEF Restat
<1>8. CASE Reread(p)
  <2>1. CASE ReadHolder = judged[p].holder
    BY <1>8, <2>1, StrandMove DEF Reread, RereadAs
  <2>2. CASE ReadHolder # judged[p].holder
    BY <1>8, <2>2, StrandLeave DEF Reread, RereadAs
  <2> QED
    BY <2>1, <2>2
<1>9. CASE Unlink(p)
  BY <1>9, StrandUnlink DEF Unlink
<1>10. CASE Recreate(p)
  <2>1. CASE Create(p)
    BY <1>10, <2>1, StrandCreate DEF Recreate
  <2>2. CASE Retry(p) /\ UNCHANGED file
    BY <1>10, <2>2, StrandLeave DEF Recreate
  <2> QED
    BY <1>10, <2>1, <2>2 DEF Recreate
<1>11. CASE Release(p)
  BY <1>11, StrandMove DEF Release
<1>12. CASE ReadOwn(p)
  <2>1. CASE ReadHolder = p
    BY <1>12, <2>1, StrandMove DEF ReadOwn
  <2>2. CASE ReadHolder # p
    <3>1. ~file.there \/ file.holder # p
      BY <2>2 DEF ReadHolder
    <3>2. ino' = [ino EXCEPT ![p] = NoStamp] /\ pc' = [pc EXCEPT ![p] = "idle"]
      BY <1>12, <2>2 DEF ReadOwn, Leave
    <3> QED
      BY <1>12, <3>1, <3>2, StrandMove DEF ReadOwn
  <2> QED
    BY <2>1, <2>2
<1>13. CASE UnlinkOwn(p)
  BY <1>13, StrandUnlink DEF UnlinkOwn
<1> QED
  BY <1>1, <1>2, <1>3, <1>4, <1>5, <1>6, <1>7, <1>8, <1>9, <1>10, <1>11, <1>12,
     <1>13 DEF Step

(* Every call that may fail: who leaves a file behind is on record. *)
LEMMA StrandFailure ==
  ASSUME StrandInv, NEW p \in Proc, CallFails(p), TypeOK'
  PROVE  StrandInv'
<1> USE DEF OwnerLabels, Owner, Labels, Alive
<1>1. failed' = failed \cup {p}
  BY DEF CallFails
<1>2. CASE OpenFails(p) \/ StatFails(p) \/ ReleaseFails(p)
  BY <1>1, <1>2, StrandLeave DEF OpenFails, StatFails, ReleaseFails
<1>3. CASE WriteFails(p)
  <2>1. Leave(p) \/ Retry(p)
    BY <1>3 DEF WriteFails
  <2>2. CASE file' = file
    BY <1>1, <1>3, <2>1, <2>2, StrandLeave DEF WriteFails
  <2>3. CASE file' = Named(p)
    BY <1>1, <1>3, <2>1, <2>3, StrandName DEF WriteFails, Leave, Retry
  <2> QED
    BY <1>3, <2>2, <2>3 DEF WriteFails
<1>4. CASE ReadFails(p)
  <2>1. CASE Leave(p) \/ Retry(p)
    BY <1>1, <1>4, <2>1, StrandLeave DEF ReadFails, JudgeAs, RereadAs
  <2>2. CASE \E l \in {"restat", "unlink"} : pc' = [pc EXCEPT ![p] = l] /\ ino' = ino
    BY <1>1, <1>4, <2>2, StrandMove DEF ReadFails, JudgeAs, RereadAs
  <2> QED
    BY <1>4, <2>1, <2>2 DEF ReadFails, JudgeAs, RereadAs
<1>5. CASE StealFails(p)
  BY <1>1, <1>5, StrandMove DEF StealFails
<1> QED
  BY <1>2, <1>3, <1>4, <1>5 DEF CallFails

(***************************************************************************)
(* For every set of processes, every number of crashes and failures, every *)
(* environment and every order of reclaims: a lock file that nobody is     *)
(* about to release points at a process that died or saw a call fail       *)
(* (lock.ts acquire(), release()).                                         *)
(***************************************************************************)
THEOREM LivingHoldersStrandNothing == Spec => []NoStrandedLock
<1>1. Init => StrandInv
  BY LockAssumption DEF Init, StrandInv, TypeOK, Labels, NoFile, NoJudgement, Descriptors,
     RealFile, NamedFile, EmptyFile, Owner, OwnerLabels
<1>2. StrandInv /\ TypeOK' /\ [Next]_vars => StrandInv'
  <2> SUFFICES ASSUME StrandInv, TypeOK', [Next]_vars PROVE StrandInv'
    OBVIOUS
  <2>1. CASE Age
    BY <2>1 DEF Age, StrandInv, TypeOK, Descriptors, RealFile, NamedFile, EmptyFile, Culprit,
       Alive, Owner
  <2>2. ASSUME NEW p \in Proc, Step(p) PROVE StrandInv'
    BY <2>2, StrandStep
  <2>3. ASSUME NEW p \in Proc, Crash(p) PROVE StrandInv'
    BY <2>3, StrandMove DEF Crash, Labels, OwnerLabels
  <2>4. ASSUME NEW p \in Proc, CallFails(p) PROVE StrandInv'
    BY <2>4, StrandFailure
  <2>5. CASE UNCHANGED vars
    BY <2>5 DEF vars, StrandInv, TypeOK, Descriptors, RealFile, NamedFile, EmptyFile, Culprit,
       Alive, Owner
  <2> QED
    BY <2>1, <2>2, <2>3, <2>4, <2>5 DEF Next
<1>3. StrandInv => NoStrandedLock
  <2> SUFFICES ASSUME StrandInv, file.there PROVE NoStrandedLock
    BY DEF NoStrandedLock
  <2>1. CASE file.holder = NoPid
    BY <2>1 DEF StrandInv, EmptyFile, NoStrandedLock
  <2>2. CASE file.holder \in Proc
    BY <2>2 DEF StrandInv, NamedFile, NoStrandedLock
  <2> QED
    BY <2>1, <2>2 DEF StrandInv, TypeOK
<1> QED
  BY TypeCorrect, <1>1, <1>2, <1>3, PTL DEF Spec
=============================================================================
