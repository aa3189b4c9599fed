------------------------- MODULE CaptureQueueProofs -------------------------
(***************************************************************************)
(* Theorems about CaptureQueue, for any set of captures, of drains and of  *)
(* mortals among them.  Landing says where a result must be on disk before *)
(* the bookkeeping that relies on it, Counting what a drain that is        *)
(* counting an attempt knows; NothingLost and AttemptsHonest follow.       *)
(***************************************************************************)
EXTENDS CaptureQueue, FiniteSetTheorems, TLAPS

USE CaptureAssumption DEF marks

-----------------------------------------------------------------------------
(* Types. *)

\* A cycle that has what TypeOK asks of one.
Awaited(x) == x.at # "ask" => \A c \in x.batch : x.answer[c] # "none"

\* A drain that is off has an empty, typed cycle.
LEMMA OffTyped == Off \in Cycle /\ Off.at = "off" /\ Off.batch = {} /\ Awaited(Off)
                  /\ \A c \in Capture : Off.answer[c] = "none"
  BY DEF Off, Cycle, Phases, Answers, Awaited

\* Dealing with a capture leaves a typed cycle with a smaller batch.
LEMMA DoneTyped ==
  ASSUME TypeOK, NEW w \in Drain, NEW c \in Capture, NEW landed \in BOOLEAN,
         drain[w].at # "ask"
  PROVE  /\ Done(w, c, landed) \in Cycle
         /\ Done(w, c, landed).at = "apply"
         /\ Done(w, c, landed).batch = drain[w].batch \ {c}
         /\ Done(w, c, landed).answer = [drain[w].answer EXCEPT ![c] = "none"]
         /\ Awaited(Done(w, c, landed))
<1>1. drain[w] \in Cycle
  BY DEF TypeOK
<1>2. /\ Done(w, c, landed) \in Cycle
      /\ Done(w, c, landed).at = "apply"
      /\ Done(w, c, landed).batch = drain[w].batch \ {c}
      /\ Done(w, c, landed).answer = [drain[w].answer EXCEPT ![c] = "none"]
  BY <1>1 DEF Cycle, Phases, Answers, Done
<1>3. \A d \in drain[w].batch : drain[w].answer[d] # "none"
  BY DEF TypeOK
<1>4. drain[w].answer \in [Capture -> Answers] /\ drain[w].batch \subseteq Capture
  BY <1>1 DEF Cycle
<1> QED
  BY <1>2, <1>3, <1>4 DEF Awaited

\* A change of phase.
LEMMA PhaseTyped ==
  ASSUME NEW x \in Cycle, NEW p \in Phases \ {"ask"}
  PROVE  LET y == [x EXCEPT !.at = p] IN
         /\ y \in Cycle
         /\ y.at = p /\ y.batch = x.batch /\ y.answer = x.answer /\ y.count = x.count
         /\ (\A c \in x.batch : x.answer[c] # "none") => Awaited(y)
  BY DEF Cycle, Phases, Awaited

\* What an action that only replaces one cycle leaves of TypeOK.
LEMMA SetTyped ==
  ASSUME TypeOK, NEW w \in Drain, NEW x \in Cycle, Awaited(x), Set(w, x)
  PROVE  /\ drain' \in [Drain -> Cycle]
         /\ \A v \in Drain :
               drain'[v].at # "ask" => \A c \in drain'[v].batch : drain'[v].answer[c] # "none"
         /\ drain'[w] = x
         /\ \A v \in Drain \ {w} : drain'[v] = drain[v]
  BY DEF TypeOK, Awaited, Set

\* The type of everything but the cycles.
StoreTyped ==
    /\ outbox \in [Capture -> {"none", "pending", "done"}]
    /\ {dead, staged, active, admitting, dismissing, captured, dropped, dismissed, finished,
           cut}
           \subseteq SUBSET Capture
    /\ attempts \in [Capture -> SUBSET Nat]
    /\ failures \in [Capture -> Nat]
    /\ marker \in SUBSET Capture

CyclesTyped ==
    /\ drain \in [Drain -> Cycle]
    /\ \A w \in Drain :
          drain[w].at # "ask" => \A c \in drain[w].batch : drain[w].answer[c] # "none"

\* TypeOK is what it says of the store and what it says of the cycles.
LEMMA TypeSplit == TypeOK <=> StoreTyped /\ CyclesTyped
  BY DEF TypeOK, StoreTyped, CyclesTyped

\* Observers, admission and operators keep the types, and no drain moves.
LEMMA CallsTyped ==
  ASSUME TypeOK, NEW c \in Capture, Calls(c)
  PROVE  TypeOK' /\ drain' = drain
<1>1. StoreTyped /\ CyclesTyped
  BY TypeSplit
<1>2. drain' = drain
  BY Zenon DEF Calls, Observe, ObserveDies, Recheck, Admit, AdmitDies, Hold, Find, Dismiss,
               DismissDies, Drop, store, calls, history
<1>3. CyclesTyped'
  BY <1>1, <1>2 DEF CyclesTyped
<1>4. StoreTyped'
  <2>1. CASE Observe(c) \/ ObserveDies(c)
    BY <1>1, <2>1 DEF StoreTyped, Observe, ObserveDies, Row, calls
  <2>2. CASE Recheck(c) \/ Hold(c) \/ Find(c)
    BY <1>1, <2>2 DEF StoreTyped, Recheck, Hold, Find, store, history
  <2>3. CASE Admit(c) \/ AdmitDies(c)
    BY <1>1, <2>3 DEF StoreTyped, Admit, AdmitDies, Marked, Finishes, history
  <2>4. CASE Dismiss(c) \/ DismissDies(c)
    BY <1>1, <2>4 DEF StoreTyped, Dismiss, DismissDies
  <2>5. CASE Drop(c)
    BY <1>1, <2>5 DEF StoreTyped, Drop, calls
  <2> QED
    BY <2>1, <2>2, <2>3, <2>4, <2>5 DEF Calls
<1> QED
  BY <1>2, <1>3, <1>4 DEF TypeOK, StoreTyped, CyclesTyped

\* A drain whose phase alone changes.
LEMMA FromPhase ==
  ASSUME TypeOK, NEW w \in Drain, NEW p \in Phases \ {"ask"}, Answered(w) \/ drain[w].at # "ask",
         Set(w, [drain[w] EXCEPT !.at = p])
  PROVE  /\ CyclesTyped'
         /\ drain'[w].at = p /\ drain'[w].batch = drain[w].batch
         /\ drain'[w].answer = drain[w].answer /\ drain'[w].count = drain[w].count
         /\ \A v \in Drain \ {w} : drain'[v] = drain[v]
<1> DEFINE y == [drain[w] EXCEPT !.at = p]
<1>1. drain[w] \in Cycle
  BY DEF TypeOK
<1>2. \A c \in drain[w].batch : drain[w].answer[c] # "none"
  BY DEF TypeOK, Answered
<1>3. /\ y \in Cycle /\ Awaited(y)
      /\ y.at = p /\ y.batch = drain[w].batch /\ y.answer = drain[w].answer
      /\ y.count = drain[w].count
  BY <1>1, <1>2, PhaseTyped
<1>4. Set(w, y)
  OBVIOUS
<1> HIDE DEF y
<1>5. /\ CyclesTyped' /\ drain'[w] = y
      /\ \A v \in Drain \ {w} : drain'[v] = drain[v]
  BY <1>3, <1>4, SetTyped DEF CyclesTyped
<1> QED
  BY <1>3, <1>5

\* A drain that has dealt with a capture.
LEMMA FromDone ==
  ASSUME TypeOK, NEW w \in Drain, NEW c \in Capture, NEW landed \in BOOLEAN,
         drain[w].at # "ask", Set(w, Done(w, c, landed))
  PROVE  /\ CyclesTyped'
         /\ drain'[w].at = "apply" /\ drain'[w].batch = drain[w].batch \ {c}
         /\ drain'[w].answer = [drain[w].answer EXCEPT ![c] = "none"]
         /\ \A v \in Drain \ {w} : drain'[v] = drain[v]
<1> DEFINE x == Done(w, c, landed)
<1>1. /\ x \in Cycle /\ Awaited(x) /\ Set(w, x)
      /\ x.at = "apply" /\ x.batch = drain[w].batch \ {c}
      /\ x.answer = [drain[w].answer EXCEPT ![c] = "none"]
  BY DoneTyped
<1> HIDE DEF x
<1>2. /\ CyclesTyped' /\ drain'[w] = x
      /\ \A v \in Drain \ {w} : drain'[v] = drain[v]
  BY <1>1, SetTyped DEF CyclesTyped
<1> QED
  BY <1>1, <1>2

\* A drain that stops.
LEMMA FromOff ==
  ASSUME TypeOK, NEW w \in Drain, Set(w, Off)
  PROVE  /\ CyclesTyped'
         /\ drain'[w].at = "off" /\ drain'[w].batch = {}
         /\ \A c \in Capture : drain'[w].answer[c] = "none"
         /\ \A v \in Drain \ {w} : drain'[v] = drain[v]
<1>1. /\ CyclesTyped' /\ drain'[w] = Off
      /\ \A v \in Drain \ {w} : drain'[v] = drain[v]
  BY OffTyped, SetTyped DEF CyclesTyped
<1> QED
  BY <1>1, OffTyped

\* A drain reads the queue.
LEMMA OfferTyped ==
  ASSUME TypeOK, NEW w \in Drain, Offer(w)
  PROVE  /\ TypeOK'
         /\ drain'[w].at = "ask" /\ \A c \in Capture : drain'[w].answer[c] = "none"
         /\ \A v \in Drain \ {w} : drain'[v] = drain[v]
<1> DEFINE x == [Off EXCEPT !.at = "ask", !.queue = Pending, !.batch = Offered(Pending)]
<1>1. /\ x \in Cycle /\ x.at = "ask" /\ \A c \in Capture : x.answer[c] = "none"
  BY OffTyped DEF Cycle, Phases, Pending, Offered
<1>2. Set(w, x) /\ UNCHANGED <<store, marker, calls, history>>
  BY DEF Offer
<1> HIDE DEF x
<1>3. Awaited(x)
  BY <1>1 DEF Awaited
<1>4. /\ CyclesTyped' /\ drain'[w] = x
      /\ \A v \in Drain \ {w} : drain'[v] = drain[v]
  BY <1>1, <1>2, <1>3, SetTyped DEF CyclesTyped
<1>5. StoreTyped'
  BY <1>2, TypeSplit DEF StoreTyped, store, calls, history
<1> QED
  BY <1>1, <1>4, <1>5 DEF TypeOK, StoreTyped, CyclesTyped

\* The provider answers for a capture.
LEMMA AnswerTyped ==
  ASSUME TypeOK, NEW w \in Drain, NEW c \in Capture, NEW a \in Answers, Answer(w, c, a)
  PROVE  /\ TypeOK'
         /\ drain[w].at = "ask" /\ drain'[w].at = "ask"
         /\ drain'[w].answer = [drain[w].answer EXCEPT ![c] = a]
         /\ \A v \in Drain \ {w} : drain'[v] = drain[v]
<1> DEFINE x == [drain[w] EXCEPT !.answer = [@ EXCEPT ![c] = a]]
<1>1. drain[w] \in Cycle /\ drain[w].at = "ask"
  BY DEF TypeOK, Answer
<1>2. /\ x \in Cycle /\ x.at = "ask" /\ x.answer = [drain[w].answer EXCEPT ![c] = a]
  BY <1>1 DEF Cycle
<1>3. Set(w, x) /\ UNCHANGED <<store, marker, calls, history>>
  BY DEF Answer
<1> HIDE DEF x
<1>4. Awaited(x)
  BY <1>2 DEF Awaited
<1>5. /\ CyclesTyped' /\ drain'[w] = x
      /\ \A v \in Drain \ {w} : drain'[v] = drain[v]
  BY <1>2, <1>3, <1>4, SetTyped DEF CyclesTyped
<1>6. StoreTyped'
  BY <1>3, TypeSplit DEF StoreTyped, store, calls, history
<1> QED
  BY <1>1, <1>2, <1>5, <1>6 DEF TypeOK, StoreTyped, CyclesTyped

\* A drain counts the attempts on record.
LEMMA CountTyped ==
  ASSUME TypeOK, NEW w \in Drain, NEW c \in Capture, Count(w, c),
         Cardinality(attempts[c]) \in Nat
  PROVE  /\ TypeOK'
         /\ drain'[w].at = "append" /\ drain'[w].batch = drain[w].batch
         /\ drain'[w].answer = drain[w].answer
         /\ drain'[w].count = Cardinality(attempts[c]) + 1
         /\ \A v \in Drain \ {w} : drain'[v] = drain[v]
<1> DEFINE n == Cardinality(attempts[c]) + 1
           x == [drain[w] EXCEPT !.at = "append", !.count = n]
<1>1. drain[w] \in Cycle /\ drain[w].at # "ask" /\ n \in Nat
  BY DEF TypeOK, Count, Applies, At
<1>3. Set(w, x) /\ UNCHANGED <<store, marker, calls, history>>
  BY DEF Count
<1>a. n = Cardinality(attempts[c]) + 1
  OBVIOUS
<1> HIDE DEF n
<1>2. /\ x \in Cycle /\ x.at = "append" /\ x.batch = drain[w].batch
      /\ x.answer = drain[w].answer /\ x.count = n
  BY <1>1 DEF Cycle, Phases
<1> HIDE DEF x
<1>4. Awaited(x)
  BY <1>1, <1>2 DEF Awaited, TypeOK
<1>5. /\ CyclesTyped' /\ drain'[w] = x
      /\ \A v \in Drain \ {w} : drain'[v] = drain[v]
  BY <1>2, <1>3, <1>4, SetTyped DEF CyclesTyped
<1>6. StoreTyped'
  BY <1>3, TypeSplit DEF StoreTyped, store, calls, history
<1> QED
  BY <1>a, <1>2, <1>5, <1>6 DEF TypeOK, StoreTyped, CyclesTyped

Finite == \A c \in Capture : IsFiniteSet(attempts[c])

\* The attempts on record stay finitely many, so they can be counted.
LEMMA FiniteStep ==
  ASSUME TypeOK, Finite, [Next]_vars
  PROVE  Finite'
<1>1. CASE attempts' = attempts
  BY <1>1 DEF Finite
<1>2. CASE \E w \in Drain, c \in Capture : Append(w, c)
  <2>1. PICK w \in Drain, c \in Capture : Append(w, c)
    BY <1>2
  <2>2. attempts' = [attempts EXCEPT ![c] = @ \cup {drain[w].count}]
    BY <2>1 DEF Append
  <2>3. IsFiniteSet(attempts[c] \cup {drain[w].count})
    BY FS_AddElement DEF Finite
  <2> QED
    BY <2>2, <2>3 DEF Finite, TypeOK
<1>3. CASE \E c \in Capture : Calls(c)
  BY <1>1, <1>3, Zenon DEF Calls, Observe, ObserveDies, Recheck, Admit, AdmitDies, Hold, Find, Dismiss,
               DismissDies, Drop, store, calls, history
<1>4. CASE \E w \in Drain : Offer(w) \/ Die(w)
  BY <1>1, <1>4, Zenon DEF Offer, Die, store
<1>5. CASE \E w \in Drain : Goes(w)
  BY <1>1, <1>2, <1>5, Zenon DEF Goes, Answer, Count, Bury, Remove, Write, Stamp, Mark, Take,
                                 Busy, Release, Close, store
<1> QED
  BY <1>1, <1>3, <1>4, <1>5, Zenon DEF Next, vars, store

\* What follows from a step's mapping of its phase, with the store typed.
LEMMA GoesTyped ==
  ASSUME TypeOK, Finite, NEW w \in Drain, Goes(w)
  PROVE  TypeOK'
<1> USE DEF Phases
<1> SUFFICES StoreTyped' /\ CyclesTyped'
  BY DEF TypeOK, StoreTyped, CyclesTyped
<1>0. StoreTyped /\ CyclesTyped
  BY TypeSplit
<1>1. CASE \E c \in Capture, a \in Answers : Answer(w, c, a)
  BY <1>1, AnswerTyped DEF TypeOK, StoreTyped, CyclesTyped
<1>2. ASSUME NEW c \in Capture, Count(w, c)
      PROVE  StoreTyped' /\ CyclesTyped'
  <2>1. Cardinality(attempts[c]) \in Nat
    BY FS_CardinalityType DEF Finite
  <2> QED
    BY <1>2, <2>1, CountTyped DEF TypeOK, StoreTyped, CyclesTyped
<1>3. ASSUME NEW c \in Capture, Append(w, c)
      PROVE  StoreTyped' /\ CyclesTyped'
  <2>1. drain[w].at # "ask" /\ drain[w].count \in Nat
    BY <1>3 DEF Append, At, TypeOK, Cycle
  <2>2. StoreTyped'
    BY <1>0, <1>3, <2>1 DEF StoreTyped, Append, calls
  <2>3. CASE Set(w, [drain[w] EXCEPT !.at = "bury"])
    BY <2>1, <2>2, <2>3, FromPhase
  <2>4. CASE Set(w, Done(w, c, FALSE))
    BY <2>1, <2>2, <2>4, FromDone
  <2> QED
    BY <1>3, <2>3, <2>4 DEF Append
<1>4. ASSUME NEW c \in Capture, Bury(w, c)
      PROVE  StoreTyped' /\ CyclesTyped'
  <2>1. CyclesTyped'
    BY <1>4, FromPhase DEF Bury, At
  <2> QED
    BY <1>0, <1>4, <2>1 DEF StoreTyped, Bury, calls, history
<1>5. ASSUME NEW c \in Capture, Remove(w, c)
      PROVE  StoreTyped' /\ CyclesTyped'
  <2>1. CyclesTyped'
    BY <1>5, FromDone DEF Remove, At
  <2> QED
    BY <1>0, <1>5, <2>1 DEF StoreTyped, Remove, calls, history
<1>6. ASSUME NEW c \in Capture, Write(w, c)
      PROVE  StoreTyped' /\ CyclesTyped'
  <2>1. CyclesTyped'
    BY <1>6, FromPhase DEF Write, Applies, At
  <2> QED
    BY <1>0, <1>6, <2>1 DEF StoreTyped, Write, calls, history
<1>7. ASSUME NEW c \in Capture, Mark(w, c)
      PROVE  StoreTyped' /\ CyclesTyped'
  <2>1. CyclesTyped'
    BY <1>7, FromDone DEF Mark, At
  <2> QED
    BY <1>0, <1>7, <2>1 DEF StoreTyped, Mark, calls, history
<1>12. ASSUME NEW c \in Capture, Stamp(w, c)
       PROVE  StoreTyped' /\ CyclesTyped'
  <2>1. CyclesTyped'
    BY <1>12, FromPhase DEF Stamp, ToMark, Applies, At
  <2> QED
    BY <1>0, <1>12, <2>1 DEF StoreTyped, Stamp, calls, history
<1>8. CASE Take(w)
  <2>1. CyclesTyped'
    BY <1>8, FromPhase DEF Take
  <2> QED
    BY <1>0, <1>8, <2>1 DEF StoreTyped, Take, store, calls, history
<1>9. CASE Busy(w)
  <2>1. CyclesTyped'
    BY <1>9, FromOff DEF Busy
  <2> QED
    BY <1>0, <1>9, <2>1 DEF StoreTyped, Busy, store, calls, history
<1>10. CASE Release(w)
  <2>1. CyclesTyped'
    BY <1>10, FromPhase DEF Release
  <2> QED
    BY <1>0, <1>10, <2>1 DEF StoreTyped, Release, store, calls, history
<1>11. CASE Close(w)
  <2>1. CyclesTyped'
    BY <1>11, FromOff DEF Close
  <2>2. Marker(w) \in SUBSET Capture
    BY <1>0 DEF CyclesTyped, Cycle, Marker, NoMarker
  <2> QED
    BY <1>0, <1>11, <2>1, <2>2 DEF StoreTyped, Close, store, calls, history
<1> QED
  BY <1>1, <1>2, <1>3, <1>4, <1>5, <1>6, <1>7, <1>8, <1>9, <1>10, <1>11, <1>12,
     Zenon DEF Goes

\* Every step keeps the types.
LEMMA TypeStep ==
  ASSUME TypeOK, Finite, [Next]_vars
  PROVE  TypeOK'
<1>1. CASE \E c \in Capture : Calls(c)
  BY <1>1, CallsTyped
<1>2. CASE \E w \in Drain : Offer(w)
  BY <1>2, OfferTyped
<1>3. CASE \E w \in Drain : Goes(w)
  BY <1>3, GoesTyped
<1>4. CASE \E w \in Drain : Die(w)
  <2>1. PICK w \in Drain : Die(w)
    BY <1>4
  <2>2. CyclesTyped'
    BY <2>1, FromOff DEF Die
  <2>3. StoreTyped'
    <3>1. UNCHANGED <<store, marker, calls, captured, dropped, dismissed, failures, finished>>
      BY <2>1 DEF Die
    <3>2. cut' \subseteq cut \cup Capture
      BY <2>1 DEF Die
    <3> QED
      BY <3>1, <3>2, TypeSplit DEF StoreTyped, store, calls
  <2> QED
    BY <2>2, <2>3 DEF TypeOK, StoreTyped, CyclesTyped
<1>5. CASE UNCHANGED vars
  BY <1>5 DEF vars, store, calls, history, TypeOK
<1> QED
  BY <1>1, <1>2, <1>3, <1>4, <1>5 DEF Next

\* An empty store is typed.
LEMMA TypeInit == Init => TypeOK /\ Finite
<1> SUFFICES ASSUME Init PROVE TypeOK /\ Finite
  OBVIOUS
<1>1. StoreTyped
  BY DEF Init, StoreTyped, NoMarker
<1>2. CyclesTyped
  BY OffTyped DEF Init, CyclesTyped, Awaited
<1>3. Finite
  BY FS_EmptySet DEF Init, Finite
<1> QED
  BY <1>1, <1>2, <1>3, TypeSplit

\* The types, and that the attempt events of a capture are finitely many,
\* in every reachable state: what every other argument starts from.
THEOREM TypeAlways == Spec => [](TypeOK /\ Finite)
<1>1. TypeOK /\ Finite /\ [Next]_vars => (TypeOK /\ Finite)'
  BY TypeStep, FiniteStep
<1> QED
  BY TypeInit, <1>1, PTL DEF Spec

\* Every variable keeps its type (TypeOK): a drain that applies the answers
\* of its batch (cli.ts, cmdMemoryDistill) has an answer for each capture
\* left in it, whatever observers, operators and crashes do meanwhile.
THEOREM TypeCorrect == Spec => []TypeOK
  BY TypeAlways, PTL

-----------------------------------------------------------------------------
(* Results are on disk before the rows that speak of them. *)

Secure(c) == Landed(c) \/ c \in dead

Rows ==
    \A c \in Capture :
       /\ c \in captured => c \in dead \/ outbox[c] # "none"
       /\ outbox[c] = "done" => Secure(c)

Backed(w, c) ==
    /\ drain[w].answer[c] = "noop" => Secure(c)
    /\ At(w, c, "mark") \/ At(w, c, "stamp") => Secure(c)
    /\ At(w, c, "remove") => c \in dead

Landing == Rows /\ \A w \in Drain, c \in Capture : Backed(w, c)

\* The batch is applied in one order: at most one capture is next.
LEMMA ItemUnique ==
  ASSUME TypeOK, NEW w \in Drain, NEW c \in Capture, NEW d \in Capture, Item(w, c), Item(w, d)
  PROVE  c = d
  BY DEF Item, Before

\* Nothing dead comes back, and a capture with a result keeps one.
LEMMA SecureStays ==
  ASSUME TypeOK, [Next]_vars
  PROVE  dead \subseteq dead' /\ \A c \in Capture : Secure(c) => Secure(c)'
<1> USE DEF Secure, Landed
<1>1. ASSUME NEW d \in Capture, Calls(d)
      PROVE  dead \subseteq dead' /\ \A c \in Capture : Secure(c) => Secure(c)'
  <2>1. CASE Observe(d) \/ ObserveDies(d) \/ Recheck(d) \/ Hold(d) \/ Find(d)
    BY <2>1 DEF Observe, ObserveDies, Recheck, Hold, Find, store, calls, history
  <2>2. CASE Admit(d) \/ AdmitDies(d) \/ Dismiss(d) \/ DismissDies(d) \/ Drop(d)
    BY <2>2 DEF Admit, AdmitDies, Dismiss, DismissDies, Drop, history
  <2> QED
    BY <1>1, <2>1, <2>2 DEF Calls
<1>2. ASSUME NEW w \in Drain, Offer(w) \/ Goes(w) \/ Die(w)
      PROVE  dead \subseteq dead' /\ \A c \in Capture : Secure(c) => Secure(c)'
  <2>1. dead \subseteq dead' /\ staged \subseteq staged' /\ UNCHANGED <<active, dropped>>
    <3>1. CASE \E c \in Capture : Bury(w, c) \/ Write(w, c)
      BY <3>1 DEF Bury, Write, history
    <3>2. CASE UNCHANGED <<dead, staged, active, dropped>>
      BY <3>2
    <3> QED
      BY <1>2, <3>1, <3>2, Zenon DEF Goes, Offer, Answer, Count, Append, Remove, Stamp, Mark, Take,
                                     Busy, Release, Close, Die, store, history
  <2> QED
    BY <2>1
<1>3. CASE UNCHANGED vars
  BY <1>3 DEF vars, store, history
<1> QED
  BY <1>1, <1>2, <1>3, Zenon DEF Next

\* A step of one drain leaves the others alone.
LEMMA OnlyOne ==
  ASSUME TypeOK, NEW w \in Drain, Offer(w) \/ Goes(w) \/ Die(w)
  PROVE  \A v \in Drain \ {w} : drain'[v] = drain[v]
<1>1. \E x : Set(w, x)
  BY Zenon DEF Goes, Offer, Answer, Count, Append, Bury, Remove, Write, Stamp, Mark, Take, Busy,
               Release, Close, Die
<1> QED
  BY <1>1 DEF Set, TypeOK

\* What backs a drain's bookkeeping is not undone by others.
LEMMA BackedStays ==
  ASSUME TypeOK, [Next]_vars, NEW v \in Drain, NEW c \in Capture, Backed(v, c), drain'[v] = drain[v]
  PROVE  Backed(v, c)'
  BY SecureStays DEF Backed, At, Item, Before

\* Calls keep a backing behind every row.
LEMMA RowsCalls ==
  ASSUME TypeOK, Rows, NEW d \in Capture, Calls(d)
  PROVE  Rows'
<1>0. dead \subseteq dead' /\ \A c \in Capture : Secure(c) => Secure(c)'
  BY SecureStays DEF Next
<1>1. CASE Observe(d) \/ ObserveDies(d)
  BY <1>0, <1>1 DEF Rows, TypeOK, Observe, ObserveDies, Row
<1>2. CASE Recheck(d) \/ Hold(d) \/ Find(d) \/ AdmitDies(d) \/ Drop(d)
  <2>1. UNCHANGED <<outbox, captured>>
    BY <1>2 DEF Recheck, Hold, Find, AdmitDies, Drop, store, history
  <2> QED
    BY <1>0, <2>1 DEF Rows
<1>3. CASE Admit(d)
  <2>1. Secure(d)'
    BY <1>3 DEF Admit, Secure, Landed
  <2>2. outbox' \in {outbox, [outbox EXCEPT ![d] = "done"]} /\ captured' = captured
    BY <1>3 DEF Admit, Marked, history
  <2> QED
    BY <1>0, <2>1, <2>2 DEF Rows, TypeOK
<1>4. CASE Dismiss(d) \/ DismissDies(d)
  <2>1. /\ d \in dead' /\ captured' = captured
        /\ outbox' \in {outbox, [outbox EXCEPT ![d] = "none"]}
    BY <1>4 DEF Dismiss, DismissDies
  <2> QED
    BY <1>0, <2>1 DEF Rows, TypeOK
<1> QED
  BY <1>1, <1>2, <1>3, <1>4, Zenon DEF Calls

\* Steps of a drain, and its death, keep a backing behind every row.
LEMMA RowsDrain ==
  ASSUME TypeOK, Landing, NEW w \in Drain, Offer(w) \/ Goes(w) \/ Die(w)
  PROVE  Rows'
<1>0. dead \subseteq dead' /\ \A c \in Capture : Secure(c) => Secure(c)'
  BY SecureStays DEF Next
<1>1. CASE UNCHANGED <<outbox, captured>>
  BY <1>0, <1>1 DEF Landing, Rows
<1>2. ASSUME NEW c \in Capture, Remove(w, c)
      PROVE  Rows'
  BY <1>0, <1>2 DEF Landing, Rows, Backed, Remove, TypeOK, history
<1>3. ASSUME NEW c \in Capture, Mark(w, c)
      PROVE  Rows'
  <2>1. Secure(c)
    BY <1>3 DEF Landing, Backed, Mark
  <2> QED
    BY <1>0, <1>3, <2>1 DEF Landing, Rows, Mark, TypeOK, history
<1>4. ASSUME NEW c \in Capture, Stamp(w, c)
      PROVE  Rows'
  BY <1>0, <1>4 DEF Landing, Rows, Stamp, TypeOK, history
<1> QED
  BY <1>1, <1>2, <1>3, <1>4, Zenon DEF Goes, Offer, Answer, Count, Append, Bury, Write, Take, Busy,
                                       Release, Close, Die, store, history

\* The cycle that moves.
LEMMA BackedMoves ==
  ASSUME TypeOK, Finite, Landing, NEW w \in Drain, Offer(w) \/ Goes(w) \/ Die(w),
         NEW d \in Capture
  PROVE  Backed(w, d)'
<1>0. /\ dead \subseteq dead'
      /\ Secure(d) => Secure(d)'
      /\ Backed(w, d)
  BY SecureStays DEF Next, Landing
<1>a. drain[w].answer \in [Capture -> Answers]
  BY DEF TypeOK, Cycle
<1>1. CASE Offer(w)
  BY <1>1, OfferTyped DEF Backed, At
<1>2. CASE Busy(w) \/ Close(w) \/ Die(w)
  BY <1>2, FromOff DEF Busy, Close, Die, Backed, At
<1>3. ASSUME NEW c \in Capture, NEW a \in Answers, Answer(w, c, a)
      PROVE  Backed(w, d)'
  <2>1. a = "noop" => Secure(c)
    BY <1>3 DEF Answer, Verdicts, Secure, Landed
  <2>2. drain'[w].at = "ask" /\ drain'[w].answer = [drain[w].answer EXCEPT ![c] = a]
    BY <1>3, AnswerTyped
  <2> QED
    BY <1>0, <1>a, <2>1, <2>2 DEF Backed, At
<1>4. CASE Take(w) \/ Release(w)
  <2>1. drain'[w].at \in {"apply", "close"} /\ drain'[w].answer = drain[w].answer
    BY <1>4, FromPhase DEF Take, Release, Phases
  <2> QED
    BY <1>0, <2>1 DEF Backed, At
<1>5. ASSUME NEW c \in Capture, Count(w, c)
      PROVE  Backed(w, d)'
  <2>1. Cardinality(attempts[c]) \in Nat
    BY FS_CardinalityType DEF Finite
  <2> QED
    BY <1>0, <1>5, <2>1, CountTyped DEF Backed, At
<1>6. ASSUME NEW c \in Capture, Append(w, c)
      PROVE  Backed(w, d)'
  <2>0. drain[w].at # "ask"
    BY <1>6 DEF Append, At
  <2>1. CASE Set(w, [drain[w] EXCEPT !.at = "bury"])
    BY <1>0, <2>0, <2>1, FromPhase DEF Backed, At, Phases
  <2>2. CASE Set(w, Done(w, c, FALSE))
    <3>1. drain'[w].at = "apply" /\ drain'[w].answer = [drain[w].answer EXCEPT ![c] = "none"]
      BY <2>0, <2>2, FromDone
    <3> QED
      BY <1>0, <1>a, <3>1 DEF Backed, At
  <2> QED
    BY <1>6, <2>1, <2>2 DEF Append
<1>7. ASSUME NEW c \in Capture, Bury(w, c)
      PROVE  Backed(w, d)'
  <2>1. /\ drain'[w].at = "remove" /\ drain'[w].batch = drain[w].batch
        /\ drain'[w].answer = drain[w].answer
    BY <1>7, FromPhase DEF Bury, At, Phases
  <2>2. c \in dead' /\ Item(w, c)
    BY <1>7 DEF Bury, At
  <2>3. At(w, d, "remove")' => d = c
    BY <2>1, <2>2, ItemUnique DEF At, Item, Before
  <2> QED
    BY <1>0, <2>1, <2>2, <2>3 DEF Backed, At
<1>8. ASSUME NEW c \in Capture, Remove(w, c) \/ Mark(w, c)
      PROVE  Backed(w, d)'
  <2>1. drain[w].at # "ask" /\ Set(w, Done(w, c, TRUE))
    BY <1>8 DEF Remove, Mark, At
  <2>2. drain'[w].at = "apply" /\ drain'[w].answer = [drain[w].answer EXCEPT ![c] = "none"]
    BY <2>1, FromDone
  <2> QED
    BY <1>0, <1>a, <2>2 DEF Backed, At
<1>9. ASSUME NEW c \in Capture, Write(w, c)
      PROVE  Backed(w, d)'
  <2>1. /\ drain'[w].at = "mark" /\ drain'[w].batch = drain[w].batch
        /\ drain'[w].answer = drain[w].answer
    BY <1>9, FromPhase DEF Write, Applies, At, Phases
  <2>2. Secure(c)' /\ Item(w, c)
    BY <1>9 DEF Write, Applies, At, Secure, Landed
  <2>3. At(w, d, "mark")' => d = c
    BY <2>1, <2>2, ItemUnique DEF At, Item, Before
  <2> QED
    BY <1>0, <2>1, <2>2, <2>3 DEF Backed, At
<1>10. ASSUME NEW c \in Capture, Stamp(w, c)
       PROVE  Backed(w, d)'
  <2>1. /\ drain'[w].at = "stamp" /\ drain'[w].batch = drain[w].batch
        /\ drain'[w].answer = drain[w].answer
    BY <1>10, FromPhase DEF Stamp, ToMark, Applies, At, Phases
  <2>2. Item(w, c) /\ Secure(c)
    BY <1>10 DEF Stamp, ToMark, Applies, At, Landing, Backed
  <2>3. Secure(c)'
    BY <2>2, SecureStays DEF Next
  <2>4. At(w, d, "stamp")' => d = c
    BY <2>1, <2>2, ItemUnique DEF At, Item, Before
  <2> QED
    BY <1>0, <2>1, <2>3, <2>4 DEF Backed, At
<1> QED
  BY <1>1, <1>2, <1>3, <1>4, <1>5, <1>6, <1>7, <1>8, <1>9, <1>10, Zenon DEF Goes

\* Every step preserves Landing.
LEMMA LandingStep ==
  ASSUME TypeOK, Finite, Landing, [Next]_vars
  PROVE  Landing'
<1>1. ASSUME NEW c \in Capture, Calls(c)
      PROVE  Landing'
  <2>1. drain' = drain
    BY <1>1, CallsTyped
  <2>2. \A w \in Drain, d \in Capture : Backed(w, d)'
    BY <2>1, BackedStays DEF Landing
  <2>3. Rows'
    BY <1>1, RowsCalls DEF Landing
  <2> QED
    BY <2>2, <2>3 DEF Landing
<1>2. ASSUME NEW w \in Drain, Offer(w) \/ Goes(w) \/ Die(w)
      PROVE  Landing'
  <2>1. \A v \in Drain \ {w} : drain'[v] = drain[v]
    BY <1>2, OnlyOne
  <2>2. \A v \in Drain \ {w}, d \in Capture : Backed(v, d)'
    BY <2>1, BackedStays DEF Landing
  <2>3. \A d \in Capture : Backed(w, d)'
    BY <1>2, BackedMoves
  <2>4. Rows'
    BY <1>2, RowsDrain
  <2> QED
    BY <2>2, <2>3, <2>4 DEF Landing
<1>3. CASE UNCHANGED vars
  BY <1>3 DEF vars, store, history, Landing, Rows, Backed, At, Item, Before, Secure, Landed
<1> QED
  BY <1>1, <1>2, <1>3, Zenon DEF Next

\* Landing in every reachable state: a row is marked done, and a drain
\* about to mark one has written, only when the result is on disk
\* (distill.ts, applyVerifiedDecision; outbox.ts:5).
THEOREM LandingAlways == Spec => [](TypeOK /\ Finite /\ Landing)
<1>1. Init => Landing
  <2> SUFFICES ASSUME Init PROVE Landing
    OBVIOUS
  <2>1. Rows
    BY DEF Init, Rows
  <2>2. ASSUME NEW w \in Drain, NEW c \in Capture
        PROVE  Backed(w, c)
    BY OffTyped DEF Init, Backed, At
  <2> QED
    BY <2>1, <2>2 DEF Landing
<1>2. TypeOK /\ Finite /\ Landing /\ [Next]_vars => (TypeOK /\ Finite /\ Landing)'
  BY TypeStep, FiniteStep, LandingStep
<1> QED
  BY TypeInit, <1>1, <1>2, PTL DEF Spec

\* A capture that was staged is pending, dead with its history, or done
\* with its result on disk (NothingLost), for any number of concurrent
\* drains, observers and operators that die between any two of their writes
\* (outbox.ts, stageCaptureOutboxEntry to deadLetterCapture).
THEOREM NoCaptureLost == Spec => []NothingLost
<1>1. TypeOK /\ Landing => NothingLost
  BY DEF TypeOK, Landing, Rows, NothingLost, Pending, Secure
<1> QED
  BY LandingAlways, <1>1, PTL

\* Where a capture is whose row ever said done.
Settled(c) ==
    outbox[c] = "done" \/ c \in dead \cup cut \/ \E w \in Drain : At(w, c, "stamp")

Terminal == \A c \in finished : Settled(c)

\* Calls take a finished capture off the queue only to bury it.
LEMMA TerminalCalls ==
  ASSUME TypeOK, Terminal, NEW d \in Capture, Calls(d)
  PROVE  Terminal'
<1>1. \A c \in Capture, w \in Drain : At(w, c, "stamp") => At(w, c, "stamp")'
  BY CallsTyped DEF At, Item, Before
<1>2. dead \subseteq dead'
  BY SecureStays DEF Next
<1>3. CASE Admit(d)
  BY <1>1, <1>2, <1>3 DEF Terminal, Settled, TypeOK, Admit, Marked, Finishes
<1>4. CASE Dismiss(d) \/ DismissDies(d)
  <2>1. /\ d \in dead' /\ finished' = finished /\ cut' = cut
        /\ \A c \in Capture \ {d} : outbox'[c] = outbox[c]
    BY <1>4 DEF Dismiss, DismissDies, TypeOK
  <2> QED
    BY <1>1, <1>2, <2>1 DEF Terminal, Settled, TypeOK
<1>5. CASE ~Admit(d) /\ ~Dismiss(d) /\ ~DismissDies(d)
  <2>1. finished' = finished /\ cut' = cut
    BY <1>5, Zenon DEF Calls, Observe, ObserveDies, Recheck, AdmitDies, Hold, Find, Drop, history
  <2>2. outbox' \in {outbox, [outbox EXCEPT ![d] = Row(d)]}
    BY <1>5 DEF Calls, Observe, ObserveDies, Recheck, AdmitDies, Hold, Find, Drop, store
  <2>3. \A c \in Capture : outbox[c] = "done" => outbox'[c] = "done"
    BY <2>2 DEF Row, TypeOK
  <2> QED
    BY <1>1, <1>2, <2>1, <2>3 DEF Terminal, Settled, TypeOK
<1> QED
  BY <1>3, <1>4, <1>5

\* A drain takes one off only when it is dead, or while it marks it.
LEMMA TerminalDrain ==
  ASSUME TypeOK, Landing, Terminal, NEW w \in Drain, Offer(w) \/ Goes(w) \/ Die(w)
  PROVE  Terminal'
<1>1. \A c \in Capture, v \in Drain \ {w} : At(v, c, "stamp") => At(v, c, "stamp")'
  BY OnlyOne DEF At, Item, Before
<1>2. dead \subseteq dead'
  BY SecureStays DEF Next
<1>3. CASE Die(w)
  <2>1. /\ finished' = finished /\ outbox' = outbox
        /\ cut' = cut \cup {c \in Capture : At(w, c, "stamp")}
    BY <1>3 DEF Die, store
  <2> QED
    BY <1>1, <1>2, <2>1 DEF Terminal, Settled, TypeOK
<1>4. ASSUME NEW c \in Capture, Mark(w, c)
      PROVE  Terminal'
  <2>1. /\ outbox' = [outbox EXCEPT ![c] = "done"]
        /\ finished' = finished \cup {c} /\ cut' = cut \ {c}
        /\ Item(w, c)
    BY <1>4 DEF Mark, At
  <2>2. \A d \in Capture \ {c} : ~At(w, d, "stamp")
    BY <2>1, ItemUnique DEF At
  <2> QED
    BY <1>1, <1>2, <2>1, <2>2 DEF Terminal, Settled, TypeOK
<1>5. ASSUME NEW c \in Capture, Remove(w, c)
      PROVE  Terminal'
  <2>1. /\ outbox' = [outbox EXCEPT ![c] = "none"] /\ c \in dead
        /\ finished' = finished /\ cut' = cut /\ drain[w].at = "remove"
    BY <1>5 DEF Remove, Landing, Backed, At, history
  <2> QED
    BY <1>1, <1>2, <2>1 DEF Terminal, Settled, TypeOK, At
<1>6. ASSUME NEW c \in Capture, Stamp(w, c)
      PROVE  Terminal'
  <2>1. /\ outbox' = [outbox EXCEPT ![c] = "pending"]
        /\ finished' = finished /\ cut' = cut /\ drain[w].at # "stamp"
    BY <1>6 DEF Stamp, ToMark, Applies, At, history
  <2>2. At(w, c, "stamp")'
    <3>1. Item(w, c) /\ drain[w].at # "ask"
      BY <1>6 DEF Stamp, ToMark, Applies, At
    <3>2. drain'[w].at = "stamp" /\ drain'[w].batch = drain[w].batch
      BY <1>6, <3>1, FromPhase DEF Stamp, Phases
    <3> QED
      BY <3>1, <3>2 DEF At, Item, Before
  <2> QED
    BY <1>1, <1>2, <2>1, <2>2 DEF Terminal, Settled, TypeOK, At
<1>7. CASE drain[w].at # "stamp" /\ outbox' = outbox /\ finished' = finished /\ cut' = cut
  BY <1>1, <1>2, <1>7 DEF Terminal, Settled, TypeOK, At
<1>8. CASE \E c \in Capture : Count(w, c) \/ Append(w, c) \/ Bury(w, c) \/ Write(w, c)
  BY <1>7, <1>8 DEF Count, Append, Bury, Write, Applies, At, store, history
<1>9. CASE \/ Offer(w) \/ Take(w) \/ Busy(w) \/ Release(w) \/ Close(w)
           \/ \E c \in Capture, a \in Answers : Answer(w, c, a)
  BY <1>7, <1>9 DEF Offer, Take, Busy, Release, Close, Answer, Answered, store, history
<1> QED
  BY <1>3, <1>4, <1>5, <1>6, <1>8, <1>9, Zenon DEF Goes

\* A capture whose row ever said done is on the queue again only while a
\* drain is between the two writes of its mark, or died there
\* (TerminalStays): neither staging it again (outbox.ts:102) nor a
\* dismissal or a burial that dies half-way (outbox.ts:204-219) rewinds it.
THEOREM FinishedStaysFinished == Spec => []TerminalStays
<1>1. Init => Terminal
  BY DEF Init, Terminal
<1>2. TypeOK /\ Landing /\ Terminal /\ [Next]_vars => Terminal'
  <2> SUFFICES ASSUME TypeOK, Landing, Terminal, [Next]_vars PROVE Terminal'
    OBVIOUS
  <2>1. CASE UNCHANGED vars
    BY <2>1 DEF vars, store, history, Terminal, Settled, At, Item, Before
  <2> QED
    BY <2>1, TerminalCalls, TerminalDrain DEF Next
<1>3. TypeOK /\ Terminal => TerminalStays
  BY DEF TypeOK, Terminal, Settled, TerminalStays, Pending
<1> QED
  BY LandingAlways, <1>1, <1>2, <1>3, PTL DEF Spec

-----------------------------------------------------------------------------
(* Attempts are numbered apart. *)

Exclusive == \A v, w \in Drain : Holds(v) /\ Holds(w) => v = w

Numbered == \A c \in Capture : attempts[c] = 1..failures[c]

Counted(w, c) ==
    /\ At(w, c, "append") => drain[w].count = failures[c] + 1
    /\ At(w, c, "bury") => failures[c] >= MaxAttempts

Counting ==
    /\ Exclusive
    /\ Numbered
    /\ \A w \in Drain, c \in Capture : Counted(w, c)
    /\ DeadEarned

\* At most one drain holds the crib lock.
LEMMA HoldsStep ==
  ASSUME TypeOK, Finite, Exclusive, NEW w \in Drain, Offer(w) \/ Goes(w) \/ Die(w)
  PROVE  Exclusive'
<1>0. \A v \in Drain \ {w} : drain'[v] = drain[v]
  BY OnlyOne
<1>1. CASE ~Holds(w)'
  BY <1>0, <1>1 DEF Exclusive, Holds
<1>2. CASE Holds(w)
  BY <1>0, <1>2 DEF Exclusive, Holds
<1>3. CASE Take(w)
  BY <1>0, <1>3 DEF Exclusive, Holds, Take
<1>4. Holds(w)' => Holds(w) \/ Take(w)
  <2>1. CASE Offer(w)
    BY <2>1, OfferTyped DEF Holds
  <2>2. CASE Busy(w) \/ Close(w) \/ Die(w)
    BY <2>2, FromOff DEF Busy, Close, Die, Holds
  <2>3. CASE Release(w)
    BY <2>3 DEF Release, Holds
  <2>4. CASE \E c \in Capture, a \in Answers : Answer(w, c, a)
    BY <2>4, AnswerTyped DEF Holds
  <2>5. CASE \E c \in Capture : Count(w, c) \/ Append(w, c) \/ Bury(w, c) \/ Remove(w, c)
                                   \/ Write(w, c) \/ Stamp(w, c) \/ Mark(w, c)
    BY <2>5 DEF Count, Append, Bury, Remove, Write, Stamp, Mark, ToMark, Applies, At, Holds
  <2> QED
    BY <2>1, <2>2, <2>3, <2>4, <2>5, Zenon DEF Goes
<1> QED
  BY <1>1, <1>2, <1>3, <1>4

\* Only an append of a failed answer touches the counts.
LEMMA FailuresStay ==
  ASSUME [Next]_vars, ~\E w \in Drain, c \in Capture : Append(w, c)
  PROVE  UNCHANGED <<attempts, failures>>
<1>1. CASE \E c \in Capture : Calls(c)
  BY <1>1, Zenon DEF Calls, Observe, ObserveDies, Recheck, Admit, AdmitDies, Hold, Find, Dismiss,
                     DismissDies, Drop, store, history
<1>2. CASE \E w \in Drain : Offer(w) \/ Goes(w) \/ Die(w)
  BY <1>2, Zenon DEF Goes, Offer, Answer, Count, Bury, Remove, Write, Stamp, Mark, Take, Busy,
                     Release, Close, Die, store, history
<1>3. CASE UNCHANGED vars
  BY <1>3 DEF vars, store, history
<1> QED
  BY <1>1, <1>2, <1>3, Zenon DEF Next

\* The step that counts.
LEMMA AppendStep ==
  ASSUME TypeOK, Finite, Counting, NEW w \in Drain, NEW c \in Capture, Append(w, c)
  PROVE  Numbered' /\ (\A v \in Drain, d \in Capture : Counted(v, d)') /\ DeadEarned'
<1>0. /\ At(w, c, "append") /\ drain[w].at # "ask"
      /\ failures \in [Capture -> Nat] /\ attempts \in [Capture -> SUBSET Nat]
      /\ drain[w].count = failures[c] + 1
  BY DEF Append, At, TypeOK, Counting, Counted
<1>1. /\ failures' = [failures EXCEPT ![c] = @ + 1]
      /\ attempts' = [attempts EXCEPT ![c] = @ \cup {drain[w].count}]
      /\ UNCHANGED <<dead, dismissed>>
  BY DEF Append
<1>2. Numbered'
  <2>1. attempts[c] = 1..failures[c] /\ failures[c] \in Nat
    BY <1>0 DEF Counting, Numbered
  <2>2. attempts'[c] = 1..failures[c] \cup {failures[c] + 1} /\ failures'[c] = failures[c] + 1
    BY <1>0, <1>1, <2>1
  <2>3. attempts'[c] = 1..failures'[c]
    BY <2>1, <2>2
  <2>4. ASSUME NEW d \in Capture, d # c
        PROVE  attempts'[d] = 1..failures'[d]
    BY <1>0, <1>1, <2>4 DEF Counting, Numbered
  <2> QED
    BY <2>3, <2>4 DEF Numbered
<1>3. \A d \in Capture : failures'[d] \in Nat /\ failures'[d] >= failures[d]
  BY <1>0, <1>1
<1>4. DeadEarned'
  BY <1>0, <1>1, <1>3 DEF Counting, DeadEarned, TypeOK
<1>5. ASSUME NEW v \in Drain \ {w}, NEW d \in Capture
      PROVE  Counted(v, d)'
  <2>1. drain'[v] = drain[v]
    BY OnlyOne DEF Goes
  <2>2. ~Holds(v)
    BY <1>0 DEF Counting, Exclusive, Holds, At
  <2> QED
    BY <2>1, <2>2 DEF Counted, At, Holds
<1>6. ASSUME NEW d \in Capture
      PROVE  Counted(w, d)'
  <2>1. CASE Exhausted(drain[w].count) /\ Set(w, [drain[w] EXCEPT !.at = "bury"])
    <3>1. drain'[w].at = "bury" /\ drain'[w].batch = drain[w].batch
      BY <1>0, <2>1, FromPhase DEF Phases
    <3>2. failures'[c] >= MaxAttempts
      BY <1>0, <1>1, <2>1 DEF Exhausted
    <3>3. At(w, d, "bury")' => d = c
      BY <1>0, <3>1, ItemUnique DEF At, Item, Before
    <3> QED
      BY <3>1, <3>2, <3>3 DEF Counted, At
  <2>2. CASE Set(w, Done(w, c, FALSE))
    <3>1. drain'[w].at = "apply"
      BY <1>0, <2>2, FromDone
    <3> QED
      BY <3>1 DEF Counted, At
  <2> QED
    BY <2>1, <2>2 DEF Append
<1> QED
  BY <1>2, <1>4, <1>5, <1>6

\* The moving drain's count is that of the attempts on record.
LEMMA CountedMoves ==
  ASSUME TypeOK, Finite, Counting, NEW w \in Drain, Offer(w) \/ Goes(w) \/ Die(w),
         UNCHANGED <<attempts, failures>>, NEW d \in Capture
  PROVE  Counted(w, d)'
<1>1. CASE drain'[w].at \notin {"append", "bury"}
  BY <1>1 DEF Counted, At
<1>2. ASSUME NEW c \in Capture, Count(w, c)
      PROVE  Counted(w, d)'
  <2>1. Cardinality(attempts[c]) = failures[c] /\ failures[c] \in Nat
    BY FS_Interval DEF Counting, Numbered, TypeOK
  <2>2. /\ drain'[w].at = "append" /\ drain'[w].batch = drain[w].batch
        /\ drain'[w].count = Cardinality(attempts[c]) + 1
    BY <1>2, <2>1, CountTyped
  <2>3. At(w, d, "append")' => d = c
    BY <1>2, <2>2, ItemUnique DEF Count, Applies, At, Item, Before
  <2> QED
    BY <2>1, <2>2, <2>3 DEF Counted, At
<1>3. CASE \E c \in Capture : Append(w, c)
  <2>1. PICK c \in Capture : Append(w, c)
    BY <1>3
  <2>2. failures'[c] = failures[c] + 1 /\ failures[c] \in Nat
    BY <2>1 DEF Append, TypeOK
  <2> QED
    BY <2>2
<1>4. CASE \E c \in Capture : Bury(w, c) \/ Remove(w, c) \/ Write(w, c)
                                 \/ Stamp(w, c) \/ Mark(w, c)
  <2>1. PICK c \in Capture : Bury(w, c) \/ Remove(w, c) \/ Write(w, c)
                                 \/ Stamp(w, c) \/ Mark(w, c)
    BY <1>4
  <2>2. drain[w].at # "ask"
    BY <2>1 DEF Bury, Remove, Write, Stamp, Mark, ToMark, Applies, At
  <2>3. \/ Set(w, [drain[w] EXCEPT !.at = "remove"])
        \/ Set(w, [drain[w] EXCEPT !.at = "mark"])
        \/ Set(w, [drain[w] EXCEPT !.at = "stamp"])
        \/ Set(w, Done(w, c, TRUE))
    BY <2>1 DEF Bury, Remove, Write, Stamp, Mark
  <2>4. drain'[w].at \in {"remove", "mark", "stamp", "apply"}
    BY <2>2, <2>3, FromPhase, FromDone DEF Phases
  <2> QED
    BY <1>1, <2>4
<1>5. CASE Offer(w)
  BY <1>1, <1>5, OfferTyped
<1>6. CASE Busy(w) \/ Close(w) \/ Die(w)
  BY <1>1, <1>6, FromOff DEF Busy, Close, Die
<1>7. CASE Take(w) \/ Release(w)
  BY <1>1, <1>7, FromPhase DEF Take, Release, Phases
<1>8. CASE \E c \in Capture, a \in Answers : Answer(w, c, a)
  BY <1>1, <1>8, AnswerTyped
<1> QED
  BY <1>2, <1>3, <1>4, <1>5, <1>6, <1>7, <1>8, Zenon DEF Goes

\* Without an append, a capture that dies is dismissed or exhausted.
LEMMA DeadStep ==
  ASSUME TypeOK, Counting, [Next]_vars, UNCHANGED <<attempts, failures>>
  PROVE  DeadEarned'
<1>1. CASE UNCHANGED <<dead, dismissed>>
  BY <1>1 DEF Counting, DeadEarned
<1>2. ASSUME NEW c \in Capture, Dismiss(c) \/ DismissDies(c)
      PROVE  DeadEarned'
  BY <1>2 DEF Counting, DeadEarned, Dismiss, DismissDies
<1>3. ASSUME NEW w \in Drain, NEW c \in Capture, Bury(w, c)
      PROVE  DeadEarned'
  BY <1>3 DEF Counting, Counted, DeadEarned, Bury, history
<1>4. CASE \E c \in Capture : Calls(c)
  <2>1. PICK c \in Capture : Calls(c)
    BY <1>4
  <2>2. CASE Dismiss(c) \/ DismissDies(c)
    BY <1>2, <2>2
  <2>3. CASE ~(Dismiss(c) \/ DismissDies(c))
    BY <1>1, <2>1, <2>3 DEF Calls, Observe, ObserveDies, Recheck, Admit, AdmitDies, Hold, Find,
                            Drop, store, history
  <2> QED
    BY <2>2, <2>3
<1>5. CASE \E w \in Drain : Offer(w) \/ Goes(w) \/ Die(w)
  <2>1. PICK w \in Drain : Offer(w) \/ Goes(w) \/ Die(w)
    BY <1>5
  <2>2. CASE \E c \in Capture : Bury(w, c)
    BY <1>3, <2>2
  <2>3. CASE ~\E c \in Capture : Bury(w, c)
    BY <1>1, <2>1, <2>3 DEF Goes, Offer, Answer, Count, Append, Remove, Write, Stamp, Mark, Take,
                            Busy, Release, Close, Die, store, history
  <2> QED
    BY <2>2, <2>3
<1>6. CASE UNCHANGED vars
  BY <1>1, <1>6 DEF vars, store, history
<1> QED
  BY <1>4, <1>5, <1>6, Zenon DEF Next

\* Every step preserves Counting.
LEMMA CountingStep ==
  ASSUME TypeOK, Finite, Counting, [Next]_vars
  PROVE  Counting'
<1>1. ASSUME NEW w \in Drain, NEW c \in Capture, Append(w, c)
      PROVE  Counting'
  BY <1>1, AppendStep, HoldsStep DEF Counting, Goes
<1>2. CASE UNCHANGED <<attempts, failures>>
  <2>1. Numbered' /\ DeadEarned'
    BY <1>2, DeadStep DEF Counting, Numbered
  <2>2. ASSUME NEW v \in Drain, NEW d \in Capture, drain'[v] = drain[v]
        PROVE  Counted(v, d)'
    BY <1>2, <2>2 DEF Counting, Counted, At, Item, Before
  <2>3. CASE drain' = drain
    <3>1. Exclusive'
      BY <2>3 DEF Counting, Exclusive, Holds
    <3> QED
      BY <2>1, <2>2, <2>3, <3>1 DEF Counting
  <2>4. ASSUME NEW w \in Drain, Offer(w) \/ Goes(w) \/ Die(w)
        PROVE  Counting'
    <3>1. \A v \in Drain \ {w} : drain'[v] = drain[v]
      BY <2>4, OnlyOne
    <3>2. Exclusive'
      BY <2>4, HoldsStep DEF Counting
    <3>3. \A d \in Capture : Counted(w, d)'
      BY <1>2, <2>4, CountedMoves
    <3> QED
      BY <2>1, <2>2, <3>1, <3>2, <3>3 DEF Counting
  <2> QED
    BY <2>3, <2>4, CallsTyped DEF Next, vars
<1> QED
  BY <1>1, <1>2, FailuresStay

\* Counting in every reachable state: one drain at a time is between
\* counting the attempts and appending one (distill.ts, failDistillItem,
\* under the crib lock), so the numbers in use are 1 up to the failures.
THEOREM CountingAlways == Spec => [](TypeOK /\ Finite /\ Counting)
<1>1. Init => Counting
  <2> SUFFICES ASSUME Init PROVE Counting
    OBVIOUS
  <2>1. Exclusive
    BY OffTyped DEF Init, Exclusive, Holds
  <2>2. Numbered /\ DeadEarned
    BY DEF Init, Numbered, DeadEarned
  <2>3. ASSUME NEW w \in Drain, NEW c \in Capture
        PROVE  Counted(w, c)
    BY OffTyped DEF Init, Counted, At
  <2> QED
    BY <2>1, <2>2, <2>3 DEF Counting
<1>2. TypeOK /\ Finite /\ Counting /\ [Next]_vars => (TypeOK /\ Finite /\ Counting)'
  BY TypeStep, FiniteStep, CountingStep
<1> QED
  BY TypeInit, <1>1, <1>2, PTL DEF Spec

\* Concurrent drains never record two failures under one number
\* (AttemptsHonest): the retry count of outbox.ts, recordCaptureRetry, is
\* exact.
THEOREM AttemptsNumberedApart == Spec => []AttemptsHonest
<1>1. TypeOK /\ Counting => AttemptsHonest
  <2> SUFFICES ASSUME TypeOK, Counting, NEW c \in Capture
               PROVE  Cardinality(attempts[c]) = failures[c]
    BY DEF AttemptsHonest
  <2>1. failures[c] \in Nat /\ attempts[c] = 1..failures[c]
    BY DEF TypeOK, Counting, Numbered
  <2> QED
    BY <2>1, FS_Interval
<1> QED
  BY CountingAlways, <1>1, PTL

\* A capture is dead-lettered (outbox.ts, shouldDeadLetter) only after
\* MaxAttempts recorded failures, or by an operator (DeadEarned).
THEOREM DeathsEarned == Spec => []DeadEarned
<1>1. Counting => DeadEarned
  BY DEF Counting
<1> QED
  BY CountingAlways, <1>1, PTL

=============================================================================
