---------------------------- MODULE CaptureQueue ----------------------------
(***************************************************************************)
(* The durable capture queue (packages/memory/src/outbox.ts): observers    *)
(* stage captures, `crib memory distill` drains them through a provider    *)
(* that answers outside of any lock, admission and operators take them off *)
(* the queue meanwhile.  A hold of the store's lock is one step, but for a *)
(* drain's mark, whose first write can be read without the lock before the *)
(* second; what the code does in several holds, or between an await and    *)
(* the next, is several steps, and a process may die between two writes.   *)
(*                                                                         *)
(* A capture is its content-addressed id; captures carry distinct claims.  *)
(* A decision that verifies and cannot be applied is recorded just as one  *)
(* that does not verify; a run of several batches is several cycles.       *)
(***************************************************************************)
EXTENDS Integers, FiniteSets

CONSTANTS
    Capture,
    Rank,           \* the order of their ids
    Drain,          \* processes that drain the queue, of one checkout
    MaxAttempts,    \* DEFAULT_MAX_CAPTURE_ATTEMPTS
    BatchSize,      \* DISTILL_BATCH_SIZE
    Shaky,          \* captures whose answers may fail verification
    MaxFailures,    \* bound: an answer fails while fewer failures are on record
    Managed,        \* captures that operators and rechecks act on
    Mortal,         \* drains that may die
    Faulty          \* may an observer or an operator's command die half-way?

ASSUME CaptureAssumption ==
    /\ \A c \in Capture : Rank[c] \in Nat
    /\ \A c, d \in Capture : Rank[c] = Rank[d] => c = d
    /\ MaxAttempts \in Nat \ {0}
    /\ BatchSize \in Nat \ {0}
    /\ MaxFailures \in Nat
    /\ Shaky \subseteq Capture
    /\ Managed \subseteq Capture
    /\ Mortal \subseteq Drain
    /\ Faulty \in BOOLEAN

VARIABLES
    outbox,     \* status of a capture's row in the outbox, or none
    dead,       \* captures in the dead collection
    staged,     \* captures of which something is in staging, or a successor made
    active,     \* captures admitted as records
    attempts,   \* numbers of the attempt events of a capture
    marker,     \* distill-state.json: the queue nothing landed of
    drain,      \* what each drain has in memory, and where it is
    admitting,  \* captures an observer or a recheck is about to decide on
    dismissing, \* captures an operator found pending and is about to dismiss
    captured,   \* history: captures that were ever staged
    dropped,    \* history: captures whose candidate an operator removed
    dismissed,  \* history: captures an operator dismissed
    finished,   \* history: captures whose row ever said done
    cut,        \* history: captures a drain died marking, and not marked since
    failures    \* history: failed answers recorded

store == <<outbox, dead, staged, active, attempts>>
calls == <<admitting, dismissing>>
marks == <<finished, cut>>
history == <<captured, dropped, dismissed, failures, marks>>
vars == <<store, marker, drain, calls, history>>

\* distill-state.json names no queue.  An empty queue is never offered.
NoMarker == {}

Answers == {"none", "fail", "noop", "new"}
Phases == {"off", "ask", "apply", "append", "bury", "remove", "mark", "stamp", "close"}

Off == [at |-> "off", queue |-> {}, batch |-> {}, count |-> 0, landed |-> FALSE,
        answer |-> [c \in Capture |-> "none"]]

Cycle ==
    [at : Phases,
     queue : SUBSET Capture,        \* the queue as read
     batch : SUBSET Capture,        \* what of its head is still to be applied
     count : Nat,                   \* the number of the next attempt
     landed : BOOLEAN,              \* did something land, or die, this cycle?
     answer : [Capture -> Answers]]

TypeOK ==
    /\ outbox \in [Capture -> {"none", "pending", "done"}]
    /\ {dead, staged, active, admitting, dismissing, captured, dropped, dismissed, finished,
           cut}
           \subseteq SUBSET Capture
    /\ attempts \in [Capture -> SUBSET Nat]
    /\ failures \in [Capture -> Nat]
    /\ marker \in SUBSET Capture
    /\ drain \in [Drain -> Cycle]
    /\ \A w \in Drain :
          drain[w].at # "ask" => \A c \in drain[w].batch : drain[w].answer[c] # "none"

Init ==
    /\ outbox = [c \in Capture |-> "none"]
    /\ dead = {} /\ staged = {} /\ active = {}
    /\ attempts = [c \in Capture |-> {}]
    /\ marker = NoMarker
    /\ drain = [w \in Drain |-> Off]
    /\ admitting = {} /\ dismissing = {}
    /\ captured = {} /\ dropped = {} /\ dismissed = {} /\ finished = {} /\ cut = {}
    /\ failures = [c \in Capture |-> 0]

\* Dead wins over outbox.
Pending == {c \in Capture : outbox[c] = "pending" /\ c \notin dead}
Before(c, captures) == {x \in captures : Rank[x] < Rank[c]}
Offered(queue) == {c \in queue : Cardinality(Before(c, queue)) < BatchSize}

-----------------------------------------------------------------------------
(* Observers, admission, operators. *)

\* The lock of the store: a drain holds it between the two writes of its mark.
Free == \A w \in Drain : drain[w].at # "stamp"

\* A row that is done is left alone.  The dead collection is not looked at.
Row(c) == IF outbox[c] = "done" THEN "done" ELSE "pending"

\* One hold: the row, then the candidate.  Admission follows.
Observe(c) ==
    /\ Free
    /\ outbox' = [outbox EXCEPT ![c] = Row(c)]
    /\ staged' = staged \cup {c}
    /\ admitting' = admitting \cup {c}
    /\ captured' = captured \cup {c}
    /\ UNCHANGED <<dead, active, attempts, marker, drain, dismissing, dropped, dismissed,
                   failures, marks>>

ObserveDies(c) ==
    /\ Faulty /\ Free
    /\ outbox' = [outbox EXCEPT ![c] = Row(c)]
    /\ captured' = captured \cup {c}
    /\ UNCHANGED <<dead, staged, active, attempts, marker, drain, calls, dropped,
                   dismissed, failures, marks>>

\* recheckPending lists the queue without a lock.
Recheck(c) ==
    /\ c \in Pending \cap Managed
    /\ admitting' = admitting \cup {c}
    /\ UNCHANGED <<store, marker, drain, dismissing, history>>

Marked(c) == IF outbox[c] = "none" THEN outbox ELSE [outbox EXCEPT ![c] = "done"]
Finishes(c) ==
    IF outbox[c] = "none" THEN UNCHANGED marks
    ELSE finished' = finished \cup {c} /\ cut' = cut \ {c}

\* The gate admits: one hold writes the record, removes the candidate, marks
\* the row, if there is one.
Admit(c) ==
    /\ Free
    /\ c \in admitting
    /\ active' = active \cup {c}
    /\ staged' = staged \ {c}
    /\ outbox' = Marked(c)
    /\ Finishes(c)
    /\ admitting' = admitting \ {c}
    /\ UNCHANGED <<dead, attempts, marker, drain, dismissing, captured, dropped, dismissed,
                   failures>>

\* The process dies in that hold: the record is there, the row is pending.
AdmitDies(c) ==
    /\ Faulty /\ Free
    /\ c \in admitting
    /\ active' = active \cup {c}
    /\ staged' \in {staged, staged \ {c}}
    /\ admitting' = admitting \ {c}
    /\ UNCHANGED <<outbox, dead, attempts, marker, drain, dismissing, history>>

\* The gate holds the capture, or the process is gone.
Hold(c) ==
    /\ c \in admitting
    /\ admitting' = admitting \ {c}
    /\ UNCHANGED <<store, marker, drain, dismissing, history>>

\* dismissPending looks the capture up without a lock.
Find(c) ==
    /\ c \in Pending \cap Managed
    /\ dismissing' = dismissing \cup {c}
    /\ UNCHANGED <<store, marker, drain, admitting, history>>

\* One hold: dead first, the row second, the candidate last.
Dismiss(c) ==
    /\ Free
    /\ c \in dismissing
    /\ dead' = dead \cup {c}
    /\ outbox' = [outbox EXCEPT ![c] = "none"]
    /\ staged' = staged \ {c}
    /\ dismissing' = dismissing \ {c}
    /\ dismissed' = dismissed \cup {c}
    /\ UNCHANGED <<active, attempts, marker, drain, admitting, captured, dropped, failures,
                   marks>>

\* Mutant: the row goes first.
DismissDies_RowFirst(c) ==
    /\ Faulty /\ Free
    /\ c \in dismissing
    /\ outbox' = [outbox EXCEPT ![c] = "none"]
    /\ dismissing' = dismissing \ {c}
    /\ dismissed' = dismissed \cup {c}
    /\ UNCHANGED <<dead, staged, active, attempts, marker, drain, admitting, captured,
                   dropped, failures, marks>>

DismissDies(c) ==
    /\ Faulty /\ Free
    /\ c \in dismissing
    /\ dead' = dead \cup {c}
    /\ outbox' \in {outbox, [outbox EXCEPT ![c] = "none"]}
    /\ dismissing' = dismissing \ {c}
    /\ dismissed' = dismissed \cup {c}
    /\ UNCHANGED <<staged, active, attempts, marker, drain, admitting, captured,
                   dropped, failures, marks>>

\* dismissPending of a candidate id: only the candidate goes.
Drop(c) ==
    /\ Free
    /\ c \in staged \cap Managed
    /\ staged' = staged \ {c}
    /\ dropped' = dropped \cup {c}
    /\ UNCHANGED <<outbox, dead, active, attempts, marker, drain, calls,
                   captured, dismissed, failures, marks>>

-----------------------------------------------------------------------------
(* A cycle of a drain. *)

Set(w, next) == drain' = [drain EXCEPT ![w] = next]

\* The outcomes are taken in the order of the queue: c is next.
Item(w, c) == c \in drain[w].batch /\ Before(c, drain[w].batch) = {}
At(w, c, phase) == drain[w].at = phase /\ Item(w, c)
Applies(w, c, answers) == At(w, c, "apply") /\ drain[w].answer[c] \in answers

\* c is dealt with.
Done(w, c, landed) ==
    [drain[w] EXCEPT !.at = "apply", !.batch = @ \ {c}, !.landed = @ \/ landed,
                     !.count = 0, !.answer = [@ EXCEPT ![c] = "none"]]

\* The queue is read without a lock.  The cycle stops at once if its marker
\* says that nothing landed of this very queue.
Offer(w) ==
    /\ drain[w].at = "off"
    /\ Pending \notin {NoMarker, marker}
    /\ Set(w, [Off EXCEPT !.at = "ask", !.queue = Pending, !.batch = Offered(Pending)])
    /\ UNCHANGED <<store, marker, calls, history>>

\* How verifyDistillDecision may judge an answer: a duplicate of what is there
\* is no work, and so is adding the capture as it is when that is there.
Verdicts(c) ==
    {"new"} \cup (IF c \in staged \cup active THEN {"noop"} ELSE {})
            \cup (IF c \in Shaky /\ failures[c] < MaxFailures THEN {"fail"} ELSE {})

Answer(w, c, a) ==
    /\ drain[w].at = "ask"
    /\ c \in drain[w].batch
    /\ drain[w].answer[c] = "none"
    /\ a \in Verdicts(c)
    /\ Set(w, [drain[w] EXCEPT !.answer = [@ EXCEPT ![c] = a]])
    /\ UNCHANGED <<store, marker, calls, history>>

\* Mutant: the provider is not awaited.
Answered_Early(w) == drain[w].at = "ask"

Answered(w) == drain[w].at = "ask" /\ \A c \in drain[w].batch : drain[w].answer[c] # "none"
Holds(w) == drain[w].at \in {"apply", "append", "bury", "remove", "mark", "stamp"}

\* Mutant: the crib lock is not taken.
Take_Unlocked(w) ==
    /\ Answered(w)
    /\ Set(w, [drain[w] EXCEPT !.at = "apply"])
    /\ UNCHANGED <<store, marker, calls, history>>

\* What follows is done under the crib lock.
Take(w) ==
    /\ Answered(w)
    /\ \A v \in Drain : ~Holds(v)
    /\ Set(w, [drain[w] EXCEPT !.at = "apply"])
    /\ UNCHANGED <<store, marker, calls, history>>

\* Somebody else holds it for too long: the answers are thrown away.
Busy(w) ==
    /\ Answered(w)
    /\ \E v \in Drain : Holds(v)
    /\ Set(w, Off)
    /\ UNCHANGED <<store, marker, calls, history>>

\* failDistillItem: the attempts are counted ...
Count(w, c) ==
    /\ Applies(w, c, {"fail"})
    /\ Set(w, [drain[w] EXCEPT !.at = "append", !.count = Cardinality(attempts[c]) + 1])
    /\ UNCHANGED <<store, marker, calls, history>>

Exhausted(n) == n >= MaxAttempts

\* ... one more is appended under that number ...
Append(w, c) ==
    /\ At(w, c, "append") /\ Free
    /\ attempts' = [attempts EXCEPT ![c] = @ \cup {drain[w].count}]
    /\ failures' = [failures EXCEPT ![c] = @ + 1]
    /\ Set(w, IF Exhausted(drain[w].count) THEN [drain[w] EXCEPT !.at = "bury"]
                                           ELSE Done(w, c, FALSE))
    /\ UNCHANGED <<outbox, dead, staged, active, marker, calls, captured, dropped, dismissed,
                   marks>>

\* ... and at the limit the capture is buried, then taken off the queue.
Bury(w, c) ==
    /\ At(w, c, "bury") /\ Free
    /\ dead' = dead \cup {c}
    /\ Set(w, [drain[w] EXCEPT !.at = "remove"])
    /\ UNCHANGED <<outbox, staged, active, attempts, marker, calls, history>>

Remove(w, c) ==
    /\ At(w, c, "remove") /\ Free
    /\ outbox' = [outbox EXCEPT ![c] = "none"]
    /\ Set(w, Done(w, c, TRUE))
    /\ UNCHANGED <<dead, staged, active, attempts, marker, calls, history>>

\* applyVerifiedDecision: the durable result first ...
Write(w, c) ==
    /\ Applies(w, c, {"new"}) /\ Free
    /\ staged' = staged \cup {c}
    /\ Set(w, [drain[w] EXCEPT !.at = "mark"])
    /\ UNCHANGED <<outbox, dead, active, attempts, marker, calls, history>>

\* Mutant: the row is marked before the result is written.
ToMark_Early(w, c) == Applies(w, c, {"noop", "new"})
ToMark(w, c) == At(w, c, "mark") \/ Applies(w, c, {"noop"})

\* ... then, in one hold, the entry as it was read before the provider was
\* asked, whatever the row says by now ...
Stamp(w, c) ==
    /\ ToMark(w, c) /\ Free
    /\ outbox' = [outbox EXCEPT ![c] = "pending"]
    /\ Set(w, [drain[w] EXCEPT !.at = "stamp"])
    /\ UNCHANGED <<dead, staged, active, attempts, marker, calls, history>>

\* ... and the mark.
Mark(w, c) ==
    /\ At(w, c, "stamp")
    /\ outbox' = [outbox EXCEPT ![c] = "done"]
    /\ finished' = finished \cup {c}
    /\ cut' = cut \ {c}
    /\ Set(w, Done(w, c, TRUE))
    /\ UNCHANGED <<dead, staged, active, attempts, marker, calls, captured, dropped, dismissed,
                   failures>>

Release(w) ==
    /\ drain[w].at = "apply"
    /\ drain[w].batch = {}
    /\ Set(w, [drain[w] EXCEPT !.at = "close"])
    /\ UNCHANGED <<store, marker, calls, history>>

\* Mutant: the marker names the queue as it is now.
Marker_Reread(w) == IF drain[w].landed THEN NoMarker ELSE Pending

Marker(w) == IF drain[w].landed THEN NoMarker ELSE drain[w].queue

\* The lock is gone when the marker is written.
Close(w) ==
    /\ drain[w].at = "close"
    /\ marker' = Marker(w)
    /\ Set(w, Off)
    /\ UNCHANGED <<store, calls, history>>

\* A drain dies, possibly between the two writes of its mark.
Die(w) ==
    /\ w \in Mortal
    /\ drain[w].at # "off"
    /\ cut' = cut \cup {c \in Capture : At(w, c, "stamp")}
    /\ Set(w, Off)
    /\ UNCHANGED <<store, marker, calls, captured, dropped, dismissed, failures, finished>>

Goes(w) ==
    \/ \E c \in Capture, a \in Answers : Answer(w, c, a)
    \/ \E c \in Capture :
          Count(w, c) \/ Append(w, c) \/ Bury(w, c) \/ Remove(w, c) \/ Write(w, c)
              \/ Stamp(w, c) \/ Mark(w, c)
    \/ Take(w) \/ Busy(w) \/ Release(w) \/ Close(w)

Calls(c) ==
    \/ Observe(c) \/ ObserveDies(c) \/ Recheck(c) \/ Admit(c) \/ AdmitDies(c) \/ Hold(c)
    \/ Find(c) \/ Dismiss(c) \/ DismissDies(c) \/ Drop(c)

Next ==
    \/ \E c \in Capture : Calls(c)
    \/ \E w \in Drain : Offer(w) \/ Goes(w) \/ Die(w)

Spec == Init /\ [][Next]_vars

-----------------------------------------------------------------------------
(* Properties. *)

Landed(c) == c \in staged \cup active \cup dropped

(***************************************************************************)
(* "The durable result first, the bookkeeping last" (outbox.ts:5): a       *)
(* capture that was ever staged is on the queue, or dead with its history, *)
(* or done with what it became.                                            *)
(***************************************************************************)
NothingLost ==
    \A c \in captured :
        \/ c \in Pending \cup dead
        \/ outbox[c] = "done" /\ Landed(c)

(***************************************************************************)
(* A finished capture cannot be rewound into the queue (outbox.ts:102-104, *)
(* "dead wins" 216-219), through re-captures, dismissals, burials and the  *)
(* deaths in them: it is there again only while a drain that read it       *)
(* before is between the writes of its mark, or died there (distill.ts:    *)
(* 679-688, the window of outbox.ts:129-131).                              *)
(***************************************************************************)
TerminalStays ==
    \A c \in finished \cap Pending :
        c \in cut \/ \E w \in Drain : At(w, c, "stamp")

(***************************************************************************)
(* No failed attempt is lost: concurrent drains that fail on one capture   *)
(* number their attempts apart, since they count under the crib lock.      *)
(***************************************************************************)
AttemptsHonest == \A c \in Capture : Cardinality(attempts[c]) = failures[c]

(***************************************************************************)
(* A capture is dead only if an operator dismissed it or its attempts are  *)
(* used up, however many drains failed on it at once.                      *)
(***************************************************************************)
DeadEarned ==
    \A c \in dead : c \in dismissed \/ failures[c] >= MaxAttempts

(***************************************************************************)
(* The dead letters are what the ledger misses (outbox.ts:254-258): a      *)
(* capture that no operator dismissed is not dead once it is admitted.     *)
(* Two drains that fail on it meanwhile refute it: README.md, Known        *)
(* divergences.                                                            *)
(***************************************************************************)
DeadIsMissing == \A c \in dead \ dismissed : c \notin active

(***************************************************************************)
(* Fairness: somebody drains again and again, the provider answers, and    *)
(* drains do not die forever.  Calls are not fair.                         *)
(***************************************************************************)
Fairness ==
    \A w \in Drain : WF_vars(Goes(w)) /\ SF_vars(Offer(w)) /\ SF_vars(Take(w))

LiveSpec == Spec /\ Fairness /\ <>[][\A w \in Drain : ~Die(w)]_vars

(***************************************************************************)
(* "a poison capture cannot wedge the drain" (cli.ts:7219): a capture      *)
(* whose answers verify leaves the queue.                                  *)
(***************************************************************************)
NoWedge == \A c \in Capture \ Shaky : c \in Pending ~> c \notin Pending

=============================================================================
