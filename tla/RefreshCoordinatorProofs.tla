---------------------- MODULE RefreshCoordinatorProofs ----------------------
(***************************************************************************)
(* Machine-checked facts about RefreshCoordinator, for every set of        *)
(* requests and bundles and every bound on the sources.  The methods nest, *)
(* so each has a lemma about the coordinator's state it returns; an action *)
(* cites the lemmas of the methods it calls.                               *)
(***************************************************************************)
EXTENDS RefreshCoordinator, FiniteSetTheorems, TLAPS

(* What serves or waits is open, and the first publication fills both. *)
Core(s) ==
    /\ s.current \in s.open \cup {None}
    /\ s.published \in s.open \cup {None}
    /\ s.current = None <=> s.published = None
    /\ s.closed => s.current = None
    /\ s.wired /\ ~s.closed => s.slot = s.current /\ s.current # None

(* The candidate exists from the build to the re-check, open and not visible. *)
Hidden(s) ==
    /\ s.step = "check" => s.cand \in s.open /\ s.cand \notin {s.current, s.published}
    /\ s.step # "check" => s.cand = None

(* Nothing else is open. *)
Covered(s) ==
    s.open \subseteq {s.current, s.published} \cup (IF s.step = "check" THEN {s.cand} ELSE {})

Good(s) == s \in Coordinator /\ Core(s) /\ Hidden(s) /\ Covered(s)

(* What no method touches. *)
SameRest(s, t) == t.inFlight = s.inFlight /\ t.closed = s.closed /\ t.wired = s.wired

\* Blank is a capture.
LEMMA BlankType == Blank \in Capture
BY RefreshAssumption DEF Blank, Capture

\* Setting a flag of a bundle keeps it typed.
LEMMA FlagType ==
  ASSUME NEW s \in Coordinator, NEW x \in BOOLEAN
  PROVE  [s EXCEPT !.pending = x] \in Coordinator /\ [s EXCEPT !.failed = x] \in Coordinator
<1>1. [s EXCEPT !.pending = x] \in Coordinator
  BY DEF Coordinator
<1>2. [s EXCEPT !.failed = x] \in Coordinator
  BY DEF Coordinator
<1> QED
  BY <1>1, <1>2

\* What disposing of a bundle changes.
LEMMA DisposeFacts ==
  ASSUME NEW s \in Coordinator, NEW b
  PROVE  /\ Dispose(s, b) \in Coordinator
         /\ Dispose(s, b).open = s.open \ {b}
         /\ SameRest(s, Dispose(s, b))
         /\ Dispose(s, b).current = s.current /\ Dispose(s, b).published = s.published
         /\ Dispose(s, b).cand = s.cand /\ Dispose(s, b).step = s.step
         /\ Dispose(s, b).slot = s.slot /\ Dispose(s, b).last = s.last
         /\ Dispose(s, b).start = s.start
<1>1. CASE b \in s.open
  <2> DEFINE blank == [capture |-> Blank, content |-> Blank]
             m == [s.made EXCEPT ![b] = blank]
  <2>1. m \in [Bundle -> [capture : Capture, content : Capture]]
    BY BlankType DEF Coordinator
  <2>2. Dispose(s, b) = [s EXCEPT !.open = s.open \ {b}, !.made = m]
    BY <1>1 DEF Dispose, Coordinator
  <2> HIDE DEF m
  <2>3. Dispose(s, b) \in Coordinator
    BY <2>1, <2>2 DEF Coordinator
  <2>4. Dispose(s, b).open = s.open \ {b} /\ SameRest(s, Dispose(s, b))
    BY <2>2 DEF Coordinator, SameRest
  <2> QED
    BY <2>2, <2>3, <2>4 DEF Coordinator
<1>2. CASE b \notin s.open
  BY <1>2 DEF Dispose, Coordinator, SameRest
<1> QED
  BY <1>1, <1>2

\* A cycle that starts preserves the invariant.
LEMMA StartCycleGood ==
  ASSUME NEW s, Good(s), s.step = "idle", NEW now \in Capture
  PROVE  Good(StartCycle(s, now)) /\ SameRest(s, StartCycle(s, now))
         /\ StartCycle(s, now).slot = s.slot
<1>1. now.canon \in 0 .. MaxCanon
  BY DEF Capture
<1> QED
  BY <1>1 DEF StartCycle, Good, Coordinator, Core, Hidden, Covered, SameRest

\* A refresh request preserves the invariant.
LEMMA RequestRefreshGood ==
  ASSUME NEW s, Good(s), NEW now \in Capture
  PROVE  Good(RequestRefresh(s, now)) /\ SameRest(s, RequestRefresh(s, now))
         /\ RequestRefresh(s, now).slot = s.slot
<1>1. CASE Busy(s)
  <2>1. RequestRefresh(s, now) = [s EXCEPT !.pending = TRUE]
    BY <1>1 DEF RequestRefresh
  <2> DEFINE t == [s EXCEPT !.pending = TRUE]
  <2>2. t \in Coordinator
    <3>1. s \in Coordinator
      BY DEF Good
    <3> QED
      BY <3>1, FlagType
  <2>3. /\ t.open = s.open /\ t.current = s.current /\ t.published = s.published
        /\ t.step = s.step /\ t.cand = s.cand /\ t.slot = s.slot /\ SameRest(s, t)
    BY DEF Good, Coordinator, SameRest
  <2> HIDE DEF t
  <2>4. Good(t)
    BY <2>2, <2>3 DEF Good, Core, Hidden, Covered, SameRest
  <2> QED
    BY <2>1, <2>3, <2>4 DEF t
<1>2. CASE ~Busy(s) /\ (s.closed \/ s.last = now)
  BY <1>2 DEF RequestRefresh, SameRest
<1>3. CASE ~Busy(s) /\ ~(s.closed \/ s.last = now)
  <2>1. s.step = "idle" /\ RequestRefresh(s, now) = StartCycle(s, now)
    BY <1>3 DEF RequestRefresh, Busy
  <2> QED
    BY <2>1, StartCycleGood
<1> QED
  BY <1>1, <1>2, <1>3

(* A swap retires the bundle that served; the one adopted is open. *)
LEMMA SwappedFacts ==
  ASSUME NEW s \in Coordinator, Core(s), Covered(s), Swappable(s)
  PROVE  /\ Swapped(s) \in Coordinator /\ Core(Swapped(s)) /\ Covered(Swapped(s))
         /\ SameRest(s, Swapped(s))
         /\ Hidden(s) => Hidden(Swapped(s))
         /\ Swapped(s).current = s.published /\ Swapped(s).published = s.published
         /\ Swapped(s).open = s.open \ {s.current}
         /\ Swapped(s).step = s.step /\ Swapped(s).cand = s.cand
         /\ Swapped(s).start = s.start
<1> DEFINE sl == IF s.wired THEN s.published ELSE s.slot
           t == [s EXCEPT !.current = s.published, !.slot = sl]
<1>1. Swapped(s) = Dispose(t, s.current)
  BY DEF Swapped
<1>2. sl \in Bundle \cup {None}
  BY DEF Coordinator
<1>3. /\ t \in Coordinator /\ SameRest(s, t)
      /\ t.current = s.published /\ t.published = s.published /\ t.slot = sl
      /\ t.open = s.open /\ t.step = s.step /\ t.cand = s.cand /\ t.start = s.start
  BY <1>2 DEF Coordinator, SameRest
<1> HIDE DEF t
<1>4. /\ Dispose(t, s.current) \in Coordinator
      /\ Dispose(t, s.current).open = t.open \ {s.current}
      /\ SameRest(t, Dispose(t, s.current))
      /\ Dispose(t, s.current).current = t.current
      /\ Dispose(t, s.current).published = t.published
      /\ Dispose(t, s.current).cand = t.cand /\ Dispose(t, s.current).step = t.step
      /\ Dispose(t, s.current).slot = t.slot /\ Dispose(t, s.current).start = t.start
  BY <1>3, DisposeFacts
<1> DEFINE u == Dispose(t, s.current)
<1>5. /\ u \in Coordinator /\ u.open = s.open \ {s.current} /\ SameRest(s, u)
      /\ u.current = s.published /\ u.published = s.published /\ u.slot = sl
      /\ u.step = s.step /\ u.cand = s.cand /\ u.start = s.start
  BY <1>3, <1>4 DEF SameRest
<1> HIDE DEF u
<1>6. s.published # None /\ s.published # s.current /\ s.inFlight = 0
  BY DEF Swappable
<1>7. Core(u)
  BY <1>5, <1>6 DEF Core, SameRest
<1>8. Covered(u)
  BY <1>5, <1>6 DEF Covered
<1>9. Hidden(s) => Hidden(u)
  BY <1>5, <1>6 DEF Hidden
<1> QED
  BY <1>1, <1>5, <1>7, <1>8, <1>9 DEF u

(* publish() leaves open exactly what serves or waits; under a pin the slot *)
(* of Verbs does not move.                                                  *)
LEMMA PublishFacts ==
  ASSUME NEW s, Good(s), s.step = "check", ~s.closed
  PROVE  LET p == Publish(s, s.cand) IN
         /\ p \in Coordinator /\ Core(p) /\ SameRest(s, p)
         /\ p.open \subseteq {p.current, p.published}
         /\ s.inFlight # 0 => p.slot = s.slot
<1> DEFINE b == s.cand
           superseded == s.published
           t == IF superseded # s.current /\ superseded # b THEN Dispose(s, superseded) ELSE s
           u == [t EXCEPT !.published = b]
           p == Publish(s, b)
<1> SUFFICES /\ p \in Coordinator /\ Core(p) /\ SameRest(s, p)
             /\ p.open \subseteq {p.current, p.published}
             /\ s.inFlight # 0 => p.slot = s.slot
  OBVIOUS
<1>1. s \in Coordinator /\ b \in s.open /\ b \notin {s.current, s.published} /\ b # None
      /\ b \in Bundle /\ s.open \subseteq {s.current, s.published, b}
  BY RefreshAssumption DEF Good, Hidden, Covered, Coordinator
<1>2. t \in Coordinator /\ SameRest(s, t) /\ t.open = s.open \ ({superseded} \ {s.current})
      /\ t.current = s.current /\ t.published = s.published /\ t.slot = s.slot
      /\ t.step = s.step /\ t.cand = s.cand
  <2>1. CASE superseded # s.current
    BY <1>1, <2>1, DisposeFacts
  <2>2. CASE superseded = s.current
    BY <1>1, <2>2 DEF SameRest
  <2> QED
    BY <2>1, <2>2
<1>3. p = IF s.current = None THEN [u EXCEPT !.current = b] ELSE MaybeSwap(u)
  BY DEF Publish
<1> HIDE DEF t, p
<1>4. u \in Coordinator /\ SameRest(s, u) /\ u.open = s.open \ ({superseded} \ {s.current})
      /\ u.current = s.current /\ u.published = b /\ u.slot = s.slot
      /\ u.step = s.step /\ u.cand = s.cand
  BY <1>1, <1>2 DEF Coordinator, SameRest
<1> HIDE DEF u
<1>5. Core(s)
  BY DEF Good
<1>6. CASE s.current = None
  <2> DEFINE v == [u EXCEPT !.current = b]
  <2>1. p = v
    BY <1>3, <1>6
  <2>2. v \in Coordinator /\ SameRest(s, v) /\ v.open = u.open /\ v.current = b
        /\ v.published = b /\ v.slot = s.slot
    BY <1>1, <1>4 DEF Coordinator, SameRest
  <2> HIDE DEF v
  <2>3. s.published = None
    BY <1>5, <1>6 DEF Core
  <2>4. v.open = s.open /\ None \notin s.open
    BY <1>1, <1>4, <2>2, <2>3, <1>6, RefreshAssumption DEF Coordinator
  <2>5. Core(v)
    BY <1>1, <1>5, <1>6, <2>2, <2>4 DEF Core, SameRest
  <2>6. v.open \subseteq {v.current, v.published}
    BY <1>1, <1>6, <2>2, <2>3, <2>4
  <2> QED
    BY <2>1, <2>2, <2>5, <2>6
<1>7. CASE s.current # None
  <2>1. u.current \in u.open /\ b \in u.open /\ u.open \subseteq {u.current, b}
    BY <1>1, <1>4, <1>5, <1>7 DEF Core
  <2>2. Core(u)
    BY <1>1, <1>4, <1>5, <1>7, <2>1 DEF Core, SameRest
  <2>3. Covered(u)
    BY <1>4, <2>1 DEF Covered
  <2>4. p = MaybeSwap(u)
    BY <1>3, <1>7
  <2>5. CASE Swappable(u)
    <3>1. p = Swapped(u)
      BY <2>4, <2>5 DEF MaybeSwap
    <3>2. /\ Swapped(u) \in Coordinator /\ Core(Swapped(u)) /\ SameRest(u, Swapped(u))
          /\ Swapped(u).current = b /\ Swapped(u).published = b
          /\ Swapped(u).open = u.open \ {u.current}
      BY <1>4, <2>2, <2>3, <2>5, SwappedFacts
    <3>3. s.inFlight = 0
      BY <1>4, <2>5 DEF Swappable, SameRest
    <3>4. p.open \subseteq {p.current, p.published} /\ SameRest(s, p)
      BY <1>4, <2>1, <3>1, <3>2 DEF SameRest
    <3> QED
      BY <3>1, <3>2, <3>3, <3>4
  <2>6. CASE ~Swappable(u)
    BY <1>4, <2>1, <2>2, <2>4, <2>6 DEF MaybeSwap
  <2> QED
    BY <2>5, <2>6
<1> QED
  BY <1>6, <1>7

(* The end of a cycle leaves nothing open that is not served or waiting. *)
LEMMA SettleGood ==
  ASSUME NEW s \in Coordinator, Core(s), NEW now \in Capture,
         NEW published \in BOOLEAN, NEW reschedule \in BOOLEAN,
         published => s.open \subseteq {s.current, s.published},
         ~published => Hidden(s) /\ Covered(s)
  PROVE  LET q == Settle(s, published, reschedule, now) IN
         Good(q) /\ SameRest(s, q) /\ q.slot = s.slot
<1> DEFINE t == IF published THEN s ELSE Dispose(s, s.cand)
           u == [t EXCEPT !.step = "idle", !.cand = None, !.parsed = 0, !.start = Blank,
                          !.pending = FALSE]
           q == Settle(s, published, reschedule, now)
<1>1. q = IF ~s.closed /\ (s.pending \/ reschedule) THEN RequestRefresh(u, now) ELSE u
  BY DEF Settle
<1>2. t \in Coordinator /\ SameRest(s, t) /\ t.current = s.current
      /\ t.published = s.published /\ t.slot = s.slot
      /\ t.open = (IF published THEN s.open ELSE s.open \ {s.cand})
  BY DisposeFacts DEF SameRest
<1>3. t.open \subseteq {s.current, s.published} /\ s.current \in t.open \cup {None}
      /\ s.published \in t.open \cup {None}
  <2>1. CASE published
    BY <1>2, <2>1 DEF Core
  <2>2. CASE ~published /\ s.step = "check"
    BY <1>2, <2>2 DEF Core, Hidden, Covered
  <2>3. CASE ~published /\ s.step # "check"
    BY <1>2, <2>3, RefreshAssumption DEF Core, Hidden, Covered, Coordinator
  <2> QED
    BY <2>1, <2>2, <2>3
<1> HIDE DEF t, q
<1>4. 0 \in 0 .. MaxCode
  BY RefreshAssumption
<1>5. u \in Coordinator /\ SameRest(s, u) /\ u.current = s.current
      /\ u.published = s.published /\ u.slot = s.slot /\ u.open = t.open
      /\ u.step = "idle" /\ u.cand = None
  <2>1. u \in Coordinator
    BY <1>2, <1>4, BlankType DEF Coordinator
  <2>2. u.current = t.current /\ u.published = t.published /\ u.slot = t.slot
        /\ u.open = t.open /\ u.step = "idle" /\ u.cand = None /\ SameRest(t, u)
    BY <1>2 DEF Coordinator, SameRest
  <2> QED
    BY <1>2, <2>1, <2>2 DEF SameRest
<1> HIDE DEF u
<1>6. Good(u)
  BY <1>3, <1>5 DEF Good, Core, Hidden, Covered, SameRest
<1>7. Good(q) /\ SameRest(u, q) /\ q.slot = u.slot
  BY <1>1, <1>6, RequestRefreshGood DEF SameRest
<1> QED
  BY <1>5, <1>7 DEF SameRest, q

(* A release adopts only when it is the last pin. *)
LEMMA ReleaseGood ==
  ASSUME NEW s, Good(s), s.inFlight >= 1, NEW now \in Capture
  PROVE  LET q == Release(s, now) IN
         /\ Good(q) /\ q.inFlight = s.inFlight - 1
         /\ q.closed = s.closed /\ q.wired = s.wired
         /\ s.inFlight # 1 => q.slot = s.slot
<1> DEFINE t == [s EXCEPT !.inFlight = IF @ <= 1 THEN 0 ELSE @ - 1]
           q == Release(s, now)
<1>1. t \in Coordinator /\ t.inFlight = s.inFlight - 1 /\ t.closed = s.closed
      /\ t.wired = s.wired /\ t.slot = s.slot /\ Good(t)
  BY DEF Good, Coordinator, Core, Hidden, Covered
<1>2. q = IF t.inFlight = 0 THEN MaybeSwapFromRelease(t, now) ELSE t
  BY DEF Release
<1> HIDE DEF t, q
<1>3. CASE t.inFlight = 0 /\ Swappable(t)
  <2>1. Good(Swapped(t)) /\ SameRest(t, Swapped(t))
    BY <1>1, <1>3, SwappedFacts DEF Good
  <2>2. Good(q) /\ SameRest(t, q)
    BY <1>2, <1>3, <2>1, RequestRefreshGood DEF MaybeSwapFromRelease, SameRest
  <2>3. s.inFlight = 1
    BY <1>1, <1>3 DEF Good, Coordinator
  <2> QED
    BY <1>1, <2>2, <2>3 DEF SameRest, q
<1>4. CASE ~(t.inFlight = 0 /\ Swappable(t))
  <2>1. q = t
    BY <1>2, <1>4 DEF MaybeSwapFromRelease
  <2> QED
    BY <1>1, <2>1 DEF q
<1> QED
  BY <1>3, <1>4

\* Closing preserves the invariant.
LEMMA CloseAllGood ==
  ASSUME NEW s, Good(s)
  PROVE  LET q == CloseAll(s) IN
         /\ Good(q) /\ q.closed /\ q.inFlight = s.inFlight
         /\ q.wired = s.wired /\ q.slot = s.slot
<1> DEFINE t == Dispose(s, s.published)
           u == Dispose(t, s.current)
           q == CloseAll(s)
<1>1. t \in Coordinator /\ t.open = s.open \ {s.published} /\ SameRest(s, t)
      /\ t.cand = s.cand /\ t.step = s.step /\ t.slot = s.slot
  BY DisposeFacts DEF Good
<1> HIDE DEF t
<1>2. u \in Coordinator /\ u.open = t.open \ {s.current} /\ SameRest(t, u)
      /\ u.cand = t.cand /\ u.step = t.step /\ u.slot = t.slot
  BY <1>1, DisposeFacts
<1>3. q = [u EXCEPT !.closed = TRUE, !.current = None, !.published = None]
  BY DEF CloseAll, t
<1> HIDE DEF u, q
<1>4. /\ q \in Coordinator /\ q.open = s.open \ {s.published, s.current}
      /\ q.closed /\ q.inFlight = s.inFlight /\ q.wired = s.wired /\ q.slot = s.slot
      /\ q.cand = s.cand /\ q.step = s.step /\ q.current = None /\ q.published = None
  BY <1>1, <1>2, <1>3 DEF Coordinator, SameRest
<1>5. Core(q)
  BY <1>4 DEF Core
<1>6. Hidden(q)
  <2>1. None \notin s.open
    BY RefreshAssumption DEF Good, Coordinator
  <2> QED
    BY <1>4, <2>1 DEF Good, Hidden
<1>7. Covered(q)
  BY <1>4 DEF Good, Covered
<1> QED
  BY <1>4, <1>5, <1>6, <1>7 DEF Good, q
-----------------------------------------------------------------------------
Pinned == {r \in Request : pin[r] # None}

(* The inductive invariant: the pin count is the number of requests in flight, *)
(* and requests exist only once the server is wired.                           *)
IInv ==
    /\ TypeOK
    /\ Good(c)
    /\ c.inFlight = Cardinality(Pinned)
    /\ NoTornRequest
    /\ c.wired <=> life = "serving"
    /\ life = "new" => c.step = "idle"
    /\ life # "serving" => \A r \in Request : pin[r] = None

\* The invariant holds at the start.
LEMMA InitHolds == Init => IInv
<1> SUFFICES ASSUME Init PROVE IInv
  OBVIOUS
<1> USE RefreshAssumption
<1>1. TypeOK
  <2>1. c \in Coordinator
    BY BlankType DEF Init, Coordinator
  <2> QED
    BY <2>1, BlankType DEF Init, TypeOK
<1>2. Good(c)
  BY <1>1 DEF Init, Good, TypeOK, Core, Hidden, Covered
<1>3. Pinned = {}
  BY DEF Init, Pinned
<1>4. c.inFlight = Cardinality(Pinned)
  BY <1>3, FS_EmptySet DEF Init
<1> QED
  BY <1>1, <1>2, <1>4 DEF Init, IInv, NoTornRequest

(* A step that leaves the requests alone keeps the invariant if its methods    *)
(* keep the coordinator good and do not move the slot under a request.         *)
LEMMA QuietStep ==
  ASSUME IInv, src' \in Capture, fails' \in 0 .. MaxFails, reverts' \in 0 .. MaxReverts,
         UNCHANGED <<life, pin>>,
         Good(c'), c'.inFlight = c.inFlight, c'.wired = c.wired,
         c.inFlight # 0 => c'.slot = c.slot,
         life = "new" => c'.step = "idle"
  PROVE  IInv'
<1>1. TypeOK'
  BY DEF IInv, TypeOK, Good
<1>2. Pinned' = Pinned /\ Pinned \subseteq Request /\ IsFiniteSet(Pinned)
  BY RefreshAssumption, FS_Subset DEF Pinned
<1>3. NoTornRequest'
  <2> SUFFICES ASSUME NEW r \in Request, pin[r] # None PROVE c'.slot = pin[r]
    BY DEF NoTornRequest
  <2>1. r \in Pinned
    BY DEF Pinned
  <2>2. c.inFlight # 0
    BY <1>2, <2>1, FS_EmptySet DEF IInv
  <2> QED
    BY <2>2 DEF IInv, NoTornRequest
<1> QED
  BY <1>1, <1>2, <1>3 DEF IInv

\* Only an edit may return the working tree to an earlier content.
LEMMA RevertsCounted == [Next]_vars => reverts' = reverts \/ (Edit /\ reverts' = reverts + 1)
<1>1. Edit => reverts' = reverts \/ reverts' = reverts + 1
  BY DEF Edit
<1>2. UpdateCanon \/ Initialize \/ InitializeFails \/ Wire \/ Trigger \/ Shutdown
        => reverts' = reverts
  BY DEF UpdateCanon, Initialize, InitializeFails, Wire, Trigger, Shutdown
<1>3. Parse \/ BuildGraph \/ Finish \/ Fail \/ ObserverThrows => reverts' = reverts
  BY DEF Parse, BuildGraph, Finish, Fail, ObserverThrows
<1>4. \A r \in Request : Begin(r) \/ WriteMemory(r) \/ End(r) => reverts' = reverts
  BY DEF Begin, WriteMemory, End
<1> QED
  BY <1>1, <1>2, <1>3, <1>4 DEF Next, Cycle, vars

\* Every step preserves the invariant.
LEMMA StepKeeps == IInv /\ [Next]_vars => IInv'
<1> SUFFICES ASSUME IInv, [Next]_vars PROVE IInv'
  OBVIOUS
<1> USE RefreshAssumption
<1>0. TypeOK /\ Good(c) /\ src \in Capture /\ fails \in 0 .. MaxFails
      /\ reverts' \in 0 .. MaxReverts
  <2>1. TypeOK /\ Good(c) /\ src \in Capture /\ fails \in 0 .. MaxFails
        /\ reverts \in 0 .. MaxReverts
    BY DEF IInv, TypeOK
  <2>2. Edit => reverts' = reverts \/ reverts < MaxReverts
    BY DEF Edit
  <2> QED
    BY <2>1, <2>2, RevertsCounted
<1>1. ASSUME UNCHANGED vars PROVE IInv'
  <2>1. c' = c /\ src' = src /\ fails' = fails /\ UNCHANGED <<life, pin>>
    BY <1>1 DEF vars
  <2> QED
    BY <1>0, <2>1, QuietStep DEF IInv
<1>2. ASSUME Edit \/ UpdateCanon PROVE IInv'
  <2>1. src' \in Capture
    BY <1>0, <1>2 DEF Edit, UpdateCanon, Capture
  <2>2. c' = c /\ fails' = fails /\ UNCHANGED <<life, pin>>
    BY <1>2 DEF Edit, UpdateCanon
  <2> QED
    BY <1>0, <2>1, <2>2, QuietStep DEF IInv
<1>3. ASSUME Initialize PROVE IInv'
  <2>1. life = "new" /\ life' = "starting" /\ c' = StartCycle(c, src) /\ c.step = "idle"
        /\ UNCHANGED <<src, pin, fails>>
    BY <1>3 DEF Initialize, IInv
  <2>2. Good(c') /\ SameRest(c, c') /\ c'.slot = c.slot
    BY <1>0, <2>1, StartCycleGood
  <2>3. TypeOK'
    BY <1>0, <2>1, <2>2 DEF TypeOK, Good
  <2>4. Pinned' = Pinned
    BY <2>1 DEF Pinned
  <2> QED
    BY <2>1, <2>2, <2>3, <2>4 DEF IInv, SameRest, NoTornRequest
<1>4. ASSUME InitializeFails PROVE IInv'
  <2>1. life = "starting" /\ life' = "failed" /\ UNCHANGED <<src, c, pin, fails>>
    BY <1>4 DEF InitializeFails
  <2>2. TypeOK' /\ Pinned' = Pinned
    BY <2>1, <1>0 DEF TypeOK, Pinned
  <2> QED
    BY <2>1, <2>2 DEF IInv, NoTornRequest
<1>5. ASSUME Wire PROVE IInv'
  <2>1. life = "starting" /\ c.current # None /\ life' = "serving"
        /\ c' = [c EXCEPT !.wired = TRUE, !.slot = c.current]
        /\ UNCHANGED <<src, pin, fails>>
    BY <1>5 DEF Wire
  <2>2. Good(c') /\ c'.inFlight = c.inFlight /\ c'.wired
    BY <1>0, <2>1 DEF Good, Coordinator, Core, Hidden, Covered
  <2>3. TypeOK' /\ Pinned' = Pinned
    BY <1>0, <2>1, <2>2 DEF TypeOK, Good, Pinned
  <2> QED
    BY <2>1, <2>2, <2>3 DEF IInv, NoTornRequest
<1>6. ASSUME Trigger PROVE IInv'
  <2>1. c' = RequestRefresh(c, src) /\ UNCHANGED <<src, life, pin, fails>> /\ life = "serving"
    BY <1>6 DEF Trigger
  <2>2. Good(c') /\ SameRest(c, c') /\ c'.slot = c.slot
    BY <1>0, <2>1, RequestRefreshGood
  <2> QED
    BY <1>0, <2>1, <2>2, QuietStep DEF SameRest
<1>7. ASSUME Shutdown PROVE IInv'
  <2>1. c' = CloseAll(c) /\ UNCHANGED <<src, life, pin, fails>> /\ life = "serving"
    BY <1>7 DEF Shutdown
  <2>2. Good(c') /\ c'.inFlight = c.inFlight /\ c'.wired = c.wired /\ c'.slot = c.slot
    BY <1>0, <2>1, CloseAllGood
  <2> QED
    BY <1>0, <2>1, <2>2, QuietStep
<1>8. ASSUME NEW r \in Request, Begin(r) PROVE IInv'
  <2>1. life = "serving" /\ ~c.closed /\ pin[r] = None /\ c' = Retain(c)
        /\ pin' = [pin EXCEPT ![r] = c.slot] /\ UNCHANGED <<src, life, fails>>
    BY <1>8 DEF Begin
  <2>2. c.slot = c.current /\ c.slot # None /\ c.slot \in Bundle
    BY <1>0, <2>1 DEF IInv, Good, Core, Coordinator
  <2>3. Good(c') /\ c'.inFlight = c.inFlight + 1 /\ c'.wired = c.wired /\ c'.slot = c.slot
    BY <1>0, <2>1 DEF Retain, Good, Coordinator, Core, Hidden, Covered
  <2>4. TypeOK'
    BY <1>0, <2>1, <2>2, <2>3 DEF TypeOK, Good
  <2>5. Pinned' = Pinned \cup {r} /\ r \notin Pinned /\ IsFiniteSet(Pinned)
    BY <1>0, <2>1, <2>2, FS_Subset DEF Pinned, TypeOK
  <2>6. Cardinality(Pinned') = Cardinality(Pinned) + 1
    BY <2>5, FS_AddElement
  <2>7. NoTornRequest'
    BY <1>0, <2>1, <2>3 DEF IInv, NoTornRequest, TypeOK
  <2> QED
    BY <2>1, <2>3, <2>4, <2>6, <2>7 DEF IInv
<1>9. ASSUME NEW r \in Request, WriteMemory(r) PROVE IInv'
  <2>1. c' = RequestRefresh(c, src') /\ UNCHANGED <<life, pin, fails>>
        /\ src' = [src EXCEPT !.ledger = @ + 1] /\ src.ledger < MaxLedger /\ pin[r] # None
    BY <1>9 DEF WriteMemory
  <2>2. src' \in Capture
    BY <1>0, <2>1 DEF Capture
  <2>3. Good(c') /\ SameRest(c, c') /\ c'.slot = c.slot
    BY <1>0, <2>1, <2>2, RequestRefreshGood
  <2>4. life = "serving"
    BY <2>1 DEF IInv
  <2> QED
    BY <1>0, <2>1, <2>2, <2>3, <2>4, QuietStep DEF SameRest
<1>10. ASSUME NEW r \in Request, End(r) PROVE IInv'
  <2>1. pin[r] # None /\ pin' = [pin EXCEPT ![r] = None] /\ c' = Release(c, src)
        /\ UNCHANGED <<src, life, fails>>
    BY <1>10 DEF End
  <2>2. r \in Pinned /\ IsFiniteSet(Pinned) /\ Pinned' = Pinned \ {r}
    BY <1>0, <2>1, FS_Subset DEF Pinned, TypeOK
  <2>3. Cardinality(Pinned') = Cardinality(Pinned) - 1 /\ IsFiniteSet(Pinned')
    BY <2>2, FS_RemoveElement
  <2>4. Cardinality(Pinned') \in Nat /\ c.inFlight >= 1
    BY <2>3, FS_CardinalityType DEF IInv, TypeOK, Coordinator
  <2>5. Good(c') /\ c'.inFlight = c.inFlight - 1 /\ c'.wired = c.wired
        /\ (c.inFlight # 1 => c'.slot = c.slot)
    BY <1>0, <2>1, <2>4, ReleaseGood
  <2>6. TypeOK'
    BY <1>0, <2>1, <2>5 DEF TypeOK, Good
  <2>7. NoTornRequest'
    <3> SUFFICES ASSUME NEW q \in Request, pin'[q] # None PROVE c'.slot = pin'[q]
      BY DEF NoTornRequest
    <3>1. q # r /\ pin'[q] = pin[q] /\ pin[q] # None
      BY <1>0, <2>1 DEF TypeOK
    <3>2. q \in Pinned'
      BY DEF Pinned
    <3>3. c'.inFlight # 0
      BY <2>3, <2>5, <3>2, FS_EmptySet DEF IInv
    <3>4. c.inFlight # 1
      BY <2>5, <3>3 DEF IInv, TypeOK, Coordinator
    <3> QED
      BY <2>5, <3>1, <3>4 DEF IInv, NoTornRequest
  <2>8. life = "serving" /\ life' = "serving"
    BY <2>1 DEF IInv
  <2> QED
    BY <2>3, <2>5, <2>6, <2>7, <2>8 DEF IInv
<1>11. ASSUME Parse PROVE IInv'
  <2>1. c.step = "parse" /\ c' = [c EXCEPT !.step = "graph", !.parsed = src.code]
        /\ UNCHANGED <<src, life, pin, fails>>
    BY <1>11 DEF Parse
  <2>2. Good(c') /\ c'.inFlight = c.inFlight /\ c'.wired = c.wired /\ c'.slot = c.slot
    BY <1>0, <2>1 DEF Good, Coordinator, Core, Hidden, Covered, Capture
  <2>3. life # "new"
    BY <2>1 DEF IInv
  <2> QED
    BY <1>0, <2>1, <2>2, <2>3, QuietStep
<1>12. ASSUME BuildGraph PROVE IInv'
  <2> DEFINE fresh == [capture |-> c.start,
                       content |-> [code |-> c.parsed, canon |-> c.start.canon,
                                    ledger |-> src.ledger]]
  <2>1. c.step = "graph" /\ UNCHANGED <<src, life, pin, fails>>
    BY <1>12 DEF BuildGraph
  <2>2. PICK b \in Bundle \ c.open :
          c' = [c EXCEPT !.step = "check", !.cand = b, !.open = @ \cup {b}, !.made[b] = fresh]
    BY <1>12 DEF BuildGraph
  <2>3. fresh \in [capture : Capture, content : Capture]
    BY <1>0 DEF Good, Coordinator, Capture
  <2> DEFINE m == [c.made EXCEPT ![b] = fresh]
  <2> HIDE DEF fresh
  <2>4. m \in [Bundle -> [capture : Capture, content : Capture]]
    BY <1>0, <2>3 DEF Good, Coordinator
  <2>5. c' = [c EXCEPT !.step = "check", !.cand = b, !.open = c.open \cup {b}, !.made = m]
    BY <1>0, <2>2 DEF Good, Coordinator
  <2> HIDE DEF m
  <2>6. /\ c' \in Coordinator /\ c'.open = c.open \cup {b} /\ c'.cand = b /\ c'.step = "check"
        /\ c'.current = c.current /\ c'.published = c.published /\ SameRest(c, c')
        /\ c'.slot = c.slot
    BY <1>0, <2>4, <2>5 DEF Good, Coordinator, SameRest
  <2>7. b # None /\ b \notin {c.current, c.published}
    BY <1>0 DEF Good, Core
  <2>8. Good(c')
    BY <1>0, <2>1, <2>6, <2>7 DEF Good, Core, Hidden, Covered, SameRest
  <2>9. life # "new"
    BY <2>1 DEF IInv
  <2> QED
    BY <1>0, <2>1, <2>6, <2>8, <2>9, QuietStep DEF SameRest
<1>13. ASSUME Fail PROVE IInv'
  <2> DEFINE t == [c EXCEPT !.failed = TRUE]
  <2>1. c.step # "idle" /\ fails' = fails + 1 /\ fails < MaxFails
        /\ c' = Settle(t, FALSE, FALSE, src) /\ UNCHANGED <<src, life, pin>>
    BY <1>13 DEF Fail, Busy
  <2>2. Good(t) /\ SameRest(c, t) /\ t.slot = c.slot
    <3>1. t \in Coordinator
      <4>1. c \in Coordinator
        BY <1>0 DEF Good
      <4> QED
        BY <4>1, FlagType
    <3>2. /\ t.open = c.open /\ t.current = c.current /\ t.published = c.published
          /\ t.step = c.step /\ t.cand = c.cand /\ t.slot = c.slot /\ SameRest(c, t)
      BY <1>0 DEF Good, Coordinator, SameRest
    <3> HIDE DEF t
    <3>3. Core(c) /\ Hidden(c) /\ Covered(c)
      BY <1>0 DEF Good
    <3>4. Core(t) /\ Hidden(t) /\ Covered(t)
      BY <3>2, <3>3 DEF Core, Hidden, Covered, SameRest
    <3> QED
      BY <3>1, <3>2, <3>4 DEF Good
  <2> HIDE DEF t
  <2>3. Good(c') /\ SameRest(t, c') /\ c'.slot = t.slot
    BY <1>0, <2>1, <2>2, SettleGood DEF Good
  <2>4. life # "new" /\ fails' \in 0 .. MaxFails
    BY <1>0, <2>1 DEF IInv
  <2> QED
    BY <1>0, <2>1, <2>2, <2>3, <2>4, QuietStep DEF SameRest
<1>14. ASSUME Finish PROVE IInv'
  <2> DEFINE p == Publish(c, c.cand)
             t == [p EXCEPT !.last = c.start, !.failed = FALSE]
  <2>1. c.step = "check" /\ UNCHANGED <<src, life, pin, fails>> /\ life # "new"
    BY <1>14 DEF Finish, IInv
  <2>2. CASE c' = Settle(c, FALSE, FALSE, src) \/ c' = Settle(c, FALSE, TRUE, src)
    <3>1. PICK again \in BOOLEAN : c' = Settle(c, FALSE, again, src)
      BY <2>2
    <3>2. Good(c') /\ SameRest(c, c') /\ c'.slot = c.slot
      BY <1>0, <3>1, SettleGood DEF Good
    <3> QED
      BY <1>0, <2>1, <3>2, QuietStep DEF SameRest
  <2>3. CASE ~c.closed /\ c' = Settle(t, TRUE, FALSE, src)
    <3>1. /\ p \in Coordinator /\ Core(p) /\ SameRest(c, p)
          /\ p.open \subseteq {p.current, p.published}
          /\ c.inFlight # 0 => p.slot = c.slot
      BY <1>0, <2>1, <2>3, PublishFacts
    <3>2. c.start \in Capture
      BY <1>0 DEF Good, Coordinator
    <3> HIDE DEF p
    <3>3. /\ t \in Coordinator /\ Core(t) /\ SameRest(p, t) /\ t.slot = p.slot
          /\ t.open \subseteq {t.current, t.published}
      BY <3>1, <3>2 DEF Coordinator, Core, SameRest
    <3> HIDE DEF t
    <3>4. Good(c') /\ SameRest(t, c') /\ c'.slot = t.slot
      BY <1>0, <2>3, <3>3, SettleGood
    <3> QED
      BY <1>0, <2>1, <3>1, <3>3, <3>4, QuietStep DEF SameRest
  <2> QED
    BY <1>14, <2>2, <2>3 DEF Finish
<1>15. ASSUME ObserverThrows PROVE IInv'
  <2> DEFINE p == Publish(c, c.cand)
             t == [p EXCEPT !.failed = TRUE]
  <2>1. /\ c.step = "check" /\ ~c.closed /\ c' = Settle(t, TRUE, FALSE, src)
        /\ fails' = fails + 1 /\ fails < MaxFails /\ UNCHANGED <<src, life, pin>>
    BY <1>15 DEF ObserverThrows
  <2>2. /\ p \in Coordinator /\ Core(p) /\ SameRest(c, p)
        /\ p.open \subseteq {p.current, p.published}
        /\ c.inFlight # 0 => p.slot = c.slot
    BY <1>0, <2>1, PublishFacts
  <2> HIDE DEF p
  <2>3. /\ t \in Coordinator /\ Core(t) /\ SameRest(p, t) /\ t.slot = p.slot
        /\ t.open \subseteq {t.current, t.published}
    BY <2>2 DEF Coordinator, Core, SameRest
  <2> HIDE DEF t
  <2>4. Good(c') /\ SameRest(t, c') /\ c'.slot = t.slot
    BY <1>0, <2>1, <2>3, SettleGood
  <2>5. life # "new" /\ fails' \in 0 .. MaxFails
    BY <1>0, <2>1 DEF IInv
  <2> QED
    BY <1>0, <2>1, <2>2, <2>3, <2>4, <2>5, QuietStep DEF SameRest
<1> QED
  BY <1>1, <1>2, <1>3, <1>4, <1>5, <1>6, <1>7, <1>8, <1>9, <1>10, <1>11, <1>12, <1>13, <1>14,
     <1>15
  DEF Next, Cycle

(* Every variable keeps its type: the registers hold bundles, captures and    *)
(* counts, however cycles, requests and shutdown overlap (lines 218-235).     *)
THEOREM TypeCorrect == Spec => []TypeOK
<1>1. IInv => TypeOK
  BY DEF IInv
<1> QED
  BY InitHolds, StepKeeps, <1>1, PTL DEF Spec

(* Whatever is served, or waits to be, is open (WP4.5, lines 444-449). *)
THEOREM ServedBundlesOpen == Spec => []ServingOpen
<1>1. IInv => ServingOpen
  BY DEF IInv, Good, Core, ServingOpen, Serving
<1> QED
  BY InitHolds, StepKeeps, <1>1, PTL DEF Spec

(* No bundle is leaked: each open one is served, waiting or the candidate     *)
(* (A08, lines 435-443).                                                      *)
THEOREM BundlesOwned == Spec => []EveryBundleOwned
<1>1. IInv => EveryBundleOwned
  BY DEF IInv, Good, Covered, EveryBundleOwned
<1> QED
  BY InitHolds, StepKeeps, <1>1, PTL DEF Spec

(* A request answers from one bundle, however many are in flight (mcp         *)
(* server.ts:151-155).                                                        *)
THEOREM RequestsNotTorn == Spec => []NoTornRequest
<1>1. IInv => NoTornRequest
  BY DEF IInv
<1> QED
  BY InitHolds, StepKeeps, <1>1, PTL DEF Spec
-----------------------------------------------------------------------------
(* Versions only grow as long as the working tree does not return to an old  *)
(* content: ok says that.  Once it has, nothing is claimed of their order, or *)
(* of contents.                                                              *)
Before(ok, x, y) ==
    ok => x.code <= y.code /\ x.canon <= y.canon /\ x.ledger <= y.ledger

(* What serves or waits is what its label says. *)
Faithful(ok, s) ==
    ok =>
      \A b \in {s.current, s.published} \ {None} : s.made[b].content = s.made[b].capture

(* The last capture is that of the newest publication, unless a cycle failed. *)
Latest(s) == s.published # None => s.failed \/ s.last = s.made[s.published].capture

(* A cycle reads its sources after its capture and before now. *)
Bracketed(ok, s, now) ==
    /\ s.step # "idle" => Before(ok, s.start, now)
    /\ s.step = "graph" /\ ok => s.start.code <= s.parsed /\ s.parsed <= now.code
    /\ s.step = "check" =>
         /\ s.made[s.cand].capture = s.start
         /\ Before(ok, s.start, s.made[s.cand].content)
         /\ Before(ok, s.made[s.cand].content, now)

Honest(ok, s, now) == Faithful(ok, s) /\ Latest(s) /\ Bracketed(ok, s, now)
HonestInv == Honest(reverts = 0, c, src)

(* What a method that leaves the bundles and the cycle alone hands on.        *)
SameStory(s, t) ==
    /\ t.current = s.current /\ t.published = s.published /\ t.last = s.last
    /\ t.step = s.step /\ t.cand = s.cand /\ t.start = s.start
    /\ t.parsed = s.parsed /\ t.made = s.made /\ t.failed = s.failed

\* Honesty is about that story only.
LEMMA SameStoryHonest ==
  ASSUME NEW ok \in BOOLEAN, NEW s, NEW t, NEW now, SameStory(s, t), Honest(ok, s, now)
  PROVE  Honest(ok, t, now)
BY DEF SameStory, Honest, Faithful, Latest, Bracketed

\* A later state of the sources brackets the same cycle.
LEMMA LaterHonest ==
  ASSUME NEW ok \in BOOLEAN, NEW s \in Coordinator, NEW now \in Capture,
         NEW later \in Capture,
         Before(ok, now, later), Honest(ok, s, now), s.step = "check" => s.cand \in Bundle
  PROVE  Honest(ok, s, later)
<1>1. \A x, y, z \in Capture : Before(ok, x, y) /\ Before(ok, y, z) => Before(ok, x, z)
  BY RefreshAssumption DEF Before, Capture
<1>2. s.start \in Capture /\ s.parsed \in Int
  BY RefreshAssumption DEF Coordinator
<1>3. s.step # "idle" => Before(ok, s.start, later)
  BY <1>1, <1>2 DEF Honest, Bracketed
<1>4. s.step = "graph" /\ ok => s.start.code <= s.parsed /\ s.parsed <= later.code
  BY <1>2, RefreshAssumption DEF Honest, Bracketed, Before, Capture
<1>5. s.step = "check" => Before(ok, s.made[s.cand].content, later)
  <2>1. s.step = "check" => s.made[s.cand].content \in Capture
    BY DEF Coordinator
  <2> QED
    BY <1>1, <2>1 DEF Honest, Bracketed
<1> QED
  BY <1>3, <1>4, <1>5 DEF Honest, Bracketed

\* Disposing of a bundle erases its record and no other.
LEMMA DisposeMade ==
  ASSUME NEW s \in Coordinator, NEW b
  PROVE  /\ \A x \in Bundle \ {b} : Dispose(s, b).made[x] = s.made[x]
         /\ Dispose(s, b).parsed = s.parsed /\ Dispose(s, b).failed = s.failed
BY DEF Dispose, Coordinator

\* A cycle that starts captures the sources as they are.
LEMMA RequestRefreshHonest ==
  ASSUME NEW ok \in BOOLEAN, NEW s \in Coordinator, NEW now \in Capture,
         Honest(ok, s, now)
  PROVE  Honest(ok, RequestRefresh(s, now), now)
<1>1. CASE Busy(s)
  <2>1. SameStory(s, RequestRefresh(s, now))
    BY <1>1 DEF RequestRefresh, SameStory, Coordinator
  <2> QED
    BY <2>1, SameStoryHonest
<1>2. CASE ~Busy(s) /\ (s.closed \/ s.last = now)
  BY <1>2 DEF RequestRefresh
<1>3. CASE ~Busy(s) /\ ~(s.closed \/ s.last = now)
  <2> DEFINE t == StartCycle(s, now)
  <2>1. RequestRefresh(s, now) = t
    BY <1>3 DEF RequestRefresh
  <2>2. /\ t.current = s.current /\ t.published = s.published /\ t.last = s.last
        /\ t.made = s.made /\ t.step = "parse" /\ t.start = now /\ t.failed = s.failed
    BY DEF StartCycle, Coordinator
  <2>3. Before(ok, now, now)
    BY RefreshAssumption DEF Before, Capture
  <2> HIDE DEF t
  <2>4. Honest(ok, t, now)
    BY <2>2, <2>3 DEF Honest, Faithful, Latest, Bracketed
  <2> QED
    BY <2>1, <2>4
<1> QED
  BY <1>1, <1>2, <1>3

\* An adoption retires a record nobody reads any more.
LEMMA SwappedHonest ==
  ASSUME NEW ok \in BOOLEAN, NEW s, Good(s), NEW now \in Capture,
         Swappable(s), Honest(ok, s, now)
  PROVE  Honest(ok, Swapped(s), now)
<1> DEFINE sl == IF s.wired THEN s.published ELSE s.slot
           t == [s EXCEPT !.current = s.published, !.slot = sl]
           u == Dispose(t, s.current)
<1>1. Swapped(s) = u
  BY DEF Swapped
<1>2. s \in Coordinator /\ sl \in Bundle \cup {None}
  BY DEF Good, Coordinator
<1>3. /\ t \in Coordinator
      /\ t.current = s.published /\ t.published = s.published /\ t.last = s.last
      /\ t.step = s.step /\ t.cand = s.cand /\ t.start = s.start /\ t.parsed = s.parsed
      /\ t.made = s.made /\ t.failed = s.failed
  BY <1>2 DEF Coordinator
<1> HIDE DEF t
<1>4. /\ u.current = s.published /\ u.published = s.published /\ u.last = s.last
      /\ u.step = s.step /\ u.cand = s.cand /\ u.start = s.start
  BY <1>3, DisposeFacts
<1>5. u.parsed = s.parsed /\ u.failed = s.failed
      /\ \A x \in Bundle \ {s.current} : u.made[x] = s.made[x]
  BY <1>3, DisposeMade
<1>6. s.published \in Bundle /\ s.published # s.current
  BY <1>2 DEF Swappable, Coordinator
<1>7. s.step = "check" => s.cand \in Bundle /\ s.cand # s.current
  BY <1>2 DEF Good, Hidden, Coordinator
<1> HIDE DEF u
<1>8. Faithful(ok, u) /\ Latest(u)
  BY <1>4, <1>5, <1>6 DEF Honest, Faithful, Latest
<1>9. Bracketed(ok, u, now)
  BY <1>4, <1>5, <1>7 DEF Honest, Bracketed
<1> QED
  BY <1>1, <1>8, <1>9 DEF Honest

\* The last pin lets a publication in whose record is untouched.
LEMMA ReleaseHonest ==
  ASSUME NEW ok \in BOOLEAN, NEW s, Good(s), NEW now \in Capture,
         Honest(ok, s, now), s.inFlight >= 1
  PROVE  Honest(ok, Release(s, now), now)
<1> DEFINE t == [s EXCEPT !.inFlight = IF @ <= 1 THEN 0 ELSE @ - 1]
<1>1. Release(s, now) = IF t.inFlight = 0 THEN MaybeSwapFromRelease(t, now) ELSE t
  BY DEF Release
<1>2. Good(t)
  BY DEF Good, Coordinator, Core, Hidden, Covered
<1>3. SameStory(s, t)
  BY DEF Good, Coordinator, SameStory
<1> HIDE DEF t
<1>4. Honest(ok, t, now)
  BY <1>3, SameStoryHonest
<1>5. CASE t.inFlight = 0 /\ Swappable(t)
  <2>1. Honest(ok, Swapped(t), now)
    BY <1>2, <1>4, <1>5, SwappedHonest
  <2>2. Swapped(t) \in Coordinator
    BY <1>2, <1>5, SwappedFacts DEF Good
  <2> QED
    BY <1>1, <1>5, <2>1, <2>2, RequestRefreshHonest DEF MaybeSwapFromRelease
<1>6. CASE ~(t.inFlight = 0 /\ Swappable(t))
  BY <1>1, <1>4, <1>6 DEF MaybeSwapFromRelease
<1> QED
  BY <1>5, <1>6

(* The re-check found the sources where the capture left them, so everything  *)
(* the build read in between is that capture: the candidate is what it says.  *)
LEMMA PublishHonest ==
  ASSUME NEW ok \in BOOLEAN, NEW s, Good(s), s.step = "check", ~s.closed,
         s.start \in Capture, Honest(ok, s, s.start)
  PROVE  LET p == Publish(s, s.cand) IN
         /\ Faithful(ok, p) /\ p.published = s.cand
         /\ p.made[s.cand].capture = s.start
<1> DEFINE b == s.cand
           superseded == s.published
           t == IF superseded # s.current /\ superseded # b THEN Dispose(s, superseded) ELSE s
           u == [t EXCEPT !.published = b]
           p == Publish(s, b)
<1> SUFFICES Faithful(ok, p) /\ p.published = b /\ p.made[b].capture = s.start
  OBVIOUS
<1>1. s \in Coordinator /\ b \in Bundle /\ b \notin {s.current, superseded}
  BY DEF Good, Hidden, Coordinator
<1>2. s.made[b].capture = s.start /\ (ok => s.made[b].content = s.start)
  <2>1. s.made[b].content \in Capture
    BY <1>1 DEF Coordinator
  <2>2. Before(ok, s.start, s.made[b].content) /\ Before(ok, s.made[b].content, s.start)
    BY DEF Honest, Bracketed
  <2>3. \A x, y \in Capture : ok /\ Before(ok, x, y) /\ Before(ok, y, x) => x = y
    BY RefreshAssumption DEF Before, Capture
  <2> QED
    BY <2>1, <2>2, <2>3 DEF Honest, Bracketed
<1>3. s.current \in Bundle \cup {None} /\ None \notin Bundle
  BY <1>1, RefreshAssumption DEF Coordinator
<1>4. /\ t \in Coordinator /\ t.current = s.current /\ t.made[b] = s.made[b]
      /\ s.current # None => t.made[s.current] = s.made[s.current]
  BY <1>1, <1>3, DisposeFacts, DisposeMade
<1>5. p = IF s.current = None THEN [u EXCEPT !.current = b] ELSE MaybeSwap(u)
  BY DEF Publish
<1> HIDE DEF t, p
<1>6. /\ u \in Coordinator /\ u.current = s.current /\ u.published = b
      /\ u.made = t.made
  BY <1>1, <1>4 DEF Coordinator
<1> HIDE DEF u
<1>7. CASE s.current = None
  <2>1. p.current = b /\ p.published = b /\ p.made = t.made
    BY <1>1, <1>5, <1>6, <1>7 DEF Coordinator
  <2> QED
    BY <1>2, <1>4, <2>1 DEF Faithful
<1>8. CASE s.current # None /\ Swappable(u)
  <2> DEFINE sl == IF u.wired THEN u.published ELSE u.slot
             v == [u EXCEPT !.current = u.published, !.slot = sl]
  <2>1. p = Dispose(v, u.current)
    BY <1>5, <1>8 DEF MaybeSwap, Swapped
  <2>2. sl \in Bundle \cup {None}
    BY <1>6 DEF Coordinator
  <2>3. v \in Coordinator /\ v.current = b /\ v.published = b /\ v.made = t.made
    BY <1>6, <2>2 DEF Coordinator
  <2> HIDE DEF v
  <2>4. p.current = b /\ p.published = b /\ p.made[b] = t.made[b]
    BY <1>1, <1>6, <2>1, <2>3, DisposeFacts, DisposeMade
  <2> QED
    BY <1>2, <1>4, <2>4 DEF Faithful
<1>9. CASE s.current # None /\ ~Swappable(u)
  <2>1. p = u
    BY <1>5, <1>9 DEF MaybeSwap
  <2>2. ok => s.made[s.current].content = s.made[s.current].capture
    BY <1>9 DEF Honest, Faithful
  <2> QED
    BY <1>2, <1>4, <1>6, <1>9, <2>1, <2>2 DEF Faithful
<1> QED
  BY <1>7, <1>8, <1>9

\* The end of a cycle drops the candidate's record, or nothing.
LEMMA SettleHonest ==
  ASSUME NEW ok \in BOOLEAN, NEW s \in Coordinator, NEW now \in Capture,
         Faithful(ok, s), Latest(s),
         NEW published \in BOOLEAN, NEW reschedule \in BOOLEAN,
         ~published => s.cand \notin {s.current, s.published} \ {None}
  PROVE  Honest(ok, Settle(s, published, reschedule, now), now)
<1> DEFINE t == IF published THEN s ELSE Dispose(s, s.cand)
           u == [t EXCEPT !.step = "idle", !.cand = None, !.parsed = 0, !.start = Blank,
                          !.pending = FALSE]
           q == Settle(s, published, reschedule, now)
<1>1. q = IF ~s.closed /\ (s.pending \/ reschedule) THEN RequestRefresh(u, now) ELSE u
  BY DEF Settle
<1>2. t \in Coordinator /\ t.current = s.current /\ t.published = s.published
      /\ t.last = s.last /\ t.failed = s.failed
  BY DisposeFacts, DisposeMade
<1>3. \A x \in {s.current, s.published} \ {None} : t.made[x] = s.made[x]
  <2>1. {s.current, s.published} \ {None} \subseteq Bundle
    BY DEF Coordinator
  <2> QED
    BY <2>1, DisposeMade
<1> HIDE DEF t, q
<1>4. 0 \in 0 .. MaxCode
  BY RefreshAssumption
<1>5. u \in Coordinator
  BY <1>2, <1>4, BlankType DEF Coordinator
<1>6. u.current = s.current /\ u.published = s.published /\ u.last = s.last
      /\ u.made = t.made /\ u.step = "idle" /\ u.failed = s.failed
  BY <1>2 DEF Coordinator
<1> HIDE DEF u
<1>7. Honest(ok, u, now)
  BY <1>3, <1>6 DEF Honest, Faithful, Latest, Bracketed
<1>8. Honest(ok, q, now)
  BY <1>1, <1>5, <1>7, RequestRefreshHonest
<1> QED
  BY <1>8 DEF q

\* Every step that returns to no old content keeps the labels honest.
LEMMA StepHonest ==
  ASSUME NEW ok \in BOOLEAN, IInv, Honest(ok, c, src), [Next]_vars,
         ok => reverts' = reverts
  PROVE  Honest(ok, c', src')
<1> USE RefreshAssumption
<1>0. Good(c) /\ c \in Coordinator /\ src \in Capture
      /\ (c.step = "check" => c.cand \in Bundle) /\ reverts \in Nat
  BY DEF IInv, TypeOK, Good, Hidden, Coordinator
<1>1. CASE UNCHANGED vars
  BY <1>1 DEF vars
<1>2. CASE Edit \/ UpdateCanon
  <2>1. src' \in Capture /\ Before(ok, src, src') /\ c' = c
    BY <1>0, <1>2 DEF Edit, UpdateCanon, Capture, Before
  <2> QED
    BY <1>0, <2>1, LaterHonest
<1>3. CASE Initialize
  <2>1. c' = StartCycle(c, src) /\ src' = src /\ c.step = "idle"
    BY <1>3 DEF Initialize, IInv
  <2> DEFINE t == StartCycle(c, src)
  <2>2. /\ t.current = c.current /\ t.published = c.published /\ t.last = c.last
        /\ t.made = c.made /\ t.step = "parse" /\ t.start = src /\ t.failed = c.failed
    BY <1>0 DEF StartCycle, Coordinator
  <2>3. Before(ok, src, src)
    BY <1>0 DEF Before, Capture
  <2> HIDE DEF t
  <2>4. Honest(ok, t, src)
    BY <2>2, <2>3 DEF Honest, Faithful, Latest, Bracketed
  <2> QED
    BY <2>1, <2>4 DEF t
<1>4. CASE InitializeFails
  BY <1>4 DEF InitializeFails
<1>5. CASE Wire
  <2>1. SameStory(c, c') /\ src' = src
    BY <1>0, <1>5 DEF Wire, SameStory, Coordinator
  <2> QED
    BY <2>1, SameStoryHonest
<1>6. CASE Trigger
  BY <1>0, <1>6, RequestRefreshHonest DEF Trigger
<1>7. CASE Shutdown
  <2> DEFINE t == Dispose(c, c.published)
             u == Dispose(t, c.current)
  <2>1. c' = [u EXCEPT !.closed = TRUE, !.current = None, !.published = None] /\ src' = src
    BY <1>7 DEF Shutdown, CloseAll
  <2>2. t \in Coordinator /\ t.cand = c.cand /\ t.step = c.step /\ t.start = c.start
        /\ t.parsed = c.parsed /\ \A x \in Bundle \ {c.published} : t.made[x] = c.made[x]
    BY <1>0, DisposeFacts, DisposeMade
  <2> HIDE DEF t
  <2>3. u \in Coordinator /\ u.cand = c.cand /\ u.step = c.step /\ u.start = c.start
        /\ u.parsed = c.parsed
        /\ \A x \in Bundle \ {c.published, c.current} : u.made[x] = c.made[x]
    BY <2>2, DisposeFacts, DisposeMade
  <2> HIDE DEF u
  <2>4. /\ c'.current = None /\ c'.published = None /\ c'.made = u.made
        /\ c'.cand = c.cand /\ c'.step = c.step /\ c'.start = c.start
        /\ c'.parsed = c.parsed
    BY <2>1, <2>3 DEF Coordinator
  <2>5. c.step = "check" => c.cand \in Bundle \ {c.published, c.current}
    BY <1>0 DEF Good, Hidden
  <2>6. Faithful(ok, c') /\ Latest(c')
    BY <2>4 DEF Faithful, Latest
  <2>7. Bracketed(ok, c', src)
    BY <2>3, <2>4, <2>5 DEF Honest, Bracketed
  <2> QED
    BY <2>1, <2>6, <2>7 DEF Honest
<1>8. ASSUME NEW r \in Request, Begin(r) PROVE Honest(ok, c', src')
  <2>1. SameStory(c, c') /\ src' = src
    BY <1>0, <1>8 DEF Begin, Retain, SameStory, Coordinator
  <2> QED
    BY <2>1, SameStoryHonest
<1>9. ASSUME NEW r \in Request, WriteMemory(r) PROVE Honest(ok, c', src')
  <2>1. src' \in Capture /\ Before(ok, src, src') /\ c' = RequestRefresh(c, src')
    BY <1>0, <1>9 DEF WriteMemory, Capture, Before
  <2>2. Honest(ok, c, src')
    BY <1>0, <2>1, LaterHonest
  <2> QED
    BY <1>0, <2>1, <2>2, RequestRefreshHonest
<1>10. ASSUME NEW r \in Request, End(r) PROVE Honest(ok, c', src')
  <2>1. c' = Release(c, src) /\ src' = src /\ r \in Pinned
    BY <1>10 DEF End, Pinned
  <2>2. IsFiniteSet(Pinned) /\ Cardinality(Pinned) # 0
    BY <2>1, FS_Subset, FS_EmptySet DEF Pinned
  <2>3. c.inFlight >= 1
    BY <1>0, <2>2, FS_CardinalityType DEF IInv
  <2> QED
    BY <1>0, <2>1, <2>3, ReleaseHonest
<1>11. CASE Parse
  <2>1. c.step = "parse" /\ c' = [c EXCEPT !.step = "graph", !.parsed = src.code] /\ src' = src
    BY <1>11 DEF Parse
  <2>2. /\ c'.current = c.current /\ c'.published = c.published /\ c'.last = c.last
        /\ c'.made = c.made /\ c'.step = "graph" /\ c'.start = c.start
        /\ c'.parsed = src.code /\ c'.failed = c.failed
    BY <1>0, <2>1 DEF Coordinator
  <2>3. Before(ok, c.start, src)
    BY <2>1 DEF Honest, Bracketed
  <2>4. src.code <= src.code
    BY <1>0 DEF Capture
  <2> QED
    BY <2>1, <2>2, <2>3, <2>4 DEF Honest, Faithful, Latest, Bracketed, Before
<1>12. CASE BuildGraph
  <2> DEFINE fresh == [capture |-> c.start,
                       content |-> [code |-> c.parsed, canon |-> c.start.canon,
                                    ledger |-> src.ledger]]
  <2>1. c.step = "graph" /\ src' = src
    BY <1>12 DEF BuildGraph
  <2>2. PICK b \in Bundle \ c.open :
          c' = [c EXCEPT !.step = "check", !.cand = b, !.open = @ \cup {b}, !.made[b] = fresh]
    BY <1>12, Zenon DEF BuildGraph
  <2>3. fresh.capture = c.start /\ Before(ok, c.start, fresh.content) /\ Before(ok, fresh.content, src)
    <3>1. /\ Before(ok, c.start, src)
          /\ ok => c.start.code <= c.parsed /\ c.parsed <= src.code
      BY <2>1 DEF Honest, Bracketed
    <3>2. c.start \in Capture
      BY <1>0 DEF Coordinator
    <3> QED
      BY <1>0, <3>1, <3>2 DEF Before, Capture
  <2> HIDE DEF fresh
  <2>4. /\ c'.current = c.current /\ c'.published = c.published /\ c'.last = c.last
        /\ c'.step = "check" /\ c'.start = c.start /\ c'.cand = b
        /\ c'.made[b] = fresh /\ c'.failed = c.failed
        /\ \A x \in Bundle \ {b} : c'.made[x] = c.made[x]
    BY <1>0, <2>2 DEF Coordinator
  <2>5. {c.current, c.published} \ {None} \subseteq Bundle \ {b}
    BY <1>0, <2>2 DEF Good, Core, Coordinator
  <2>6. Faithful(ok, c') /\ Latest(c')
    <3>1. c.published # None => c'.made[c.published] = c.made[c.published]
      BY <2>4, <2>5
    <3>2. c.current # None => c'.made[c.current] = c.made[c.current]
      BY <2>4, <2>5
    <3> QED
      BY <2>4, <3>1, <3>2 DEF Honest, Faithful, Latest
  <2>7. Bracketed(ok, c', src)
    <3>1. Before(ok, c.start, src)
      BY <2>1 DEF Honest, Bracketed
    <3> QED
      BY <2>3, <2>4, <3>1 DEF Bracketed
  <2> QED
    BY <2>1, <2>6, <2>7 DEF Honest
<1>13. CASE Fail
  <2> DEFINE t == [c EXCEPT !.failed = TRUE]
  <2>1. c' = Settle(t, FALSE, FALSE, src) /\ src' = src
    BY <1>13 DEF Fail
  <2>2. t \in Coordinator
    BY <1>0, FlagType
  <2>3. /\ t.current = c.current /\ t.published = c.published /\ t.made = c.made
        /\ t.cand = c.cand /\ t.failed
    BY <1>0 DEF Coordinator
  <2> HIDE DEF t
  <2>4. Faithful(ok, t) /\ Latest(t) /\ t.cand \notin {t.current, t.published} \ {None}
    BY <1>0, <2>3 DEF Honest, Faithful, Latest, Good, Hidden
  <2> QED
    BY <1>0, <2>1, <2>2, <2>4, SettleHonest
<1>14. CASE Finish
  <2> DEFINE p == Publish(c, c.cand)
             t == [p EXCEPT !.last = c.start, !.failed = FALSE]
  <2>1. c.step = "check" /\ src' = src /\ c.cand \notin {c.current, c.published} \ {None}
    BY <1>0, <1>14 DEF Finish, Good, Hidden
  <2>2. CASE c' = Settle(c, FALSE, FALSE, src) \/ c' = Settle(c, FALSE, TRUE, src)
    BY <1>0, <2>1, <2>2, SettleHonest DEF Honest
  <2>3. CASE ~c.closed /\ src = c.start /\ c' = Settle(t, TRUE, FALSE, src)
    <3>1. Faithful(ok, p) /\ p.published = c.cand /\ p.made[c.cand].capture = c.start
      BY <1>0, <2>1, <2>3, PublishHonest
    <3>2. p \in Coordinator
      BY <1>0, <2>1, <2>3, PublishFacts
    <3> HIDE DEF p
    <3>3. t \in Coordinator
      BY <1>0, <2>3, <3>2 DEF Coordinator
    <3>4. t.current = p.current /\ t.published = p.published /\ t.made = p.made
          /\ t.last = c.start
      BY <3>2 DEF Coordinator
    <3> HIDE DEF t
    <3>5. Faithful(ok, t) /\ Latest(t)
      BY <3>1, <3>4 DEF Faithful, Latest
    <3> QED
      BY <1>0, <2>1, <2>3, <3>3, <3>5, SettleHonest
  <2> QED
    BY <1>14, <2>2, <2>3 DEF Finish
<1>15. CASE ObserverThrows
  <2> DEFINE p == Publish(c, c.cand)
             t == [p EXCEPT !.failed = TRUE]
  <2>1. c.step = "check" /\ ~c.closed /\ src = c.start /\ c' = Settle(t, TRUE, FALSE, src)
        /\ src' = src
    BY <1>15 DEF ObserverThrows
  <2>2. Faithful(ok, p)
    BY <1>0, <2>1, PublishHonest
  <2>3. p \in Coordinator
    BY <1>0, <2>1, PublishFacts
  <2> HIDE DEF p
  <2>4. /\ t \in Coordinator /\ t.failed
        /\ t.current = p.current /\ t.published = p.published /\ t.made = p.made
    BY <2>3 DEF Coordinator
  <2> HIDE DEF t
  <2>5. Faithful(ok, t) /\ Latest(t)
    BY <2>2, <2>4 DEF Faithful, Latest
  <2> QED
    BY <1>0, <2>1, <2>4, <2>5, SettleHonest
<1> QED
  BY <1>1, <1>2, <1>3, <1>4, <1>5, <1>6, <1>7, <1>8, <1>9, <1>10, <1>11, <1>12, <1>13, <1>14,
     <1>15
  DEF Next, Cycle

\* What is claimed only shrinks when a step does return.
LEMMA HonestStep == IInv /\ HonestInv /\ [Next]_vars => HonestInv'
<1> SUFFICES ASSUME IInv, HonestInv, [Next]_vars PROVE HonestInv'
  OBVIOUS
<1> DEFINE ok == reverts' = 0
<1>1. reverts \in Nat
  BY DEF IInv, TypeOK
<1>2. ok => reverts = 0 /\ reverts' = reverts
  BY <1>1, RevertsCounted
<1>3. Honest(ok, c, src)
  BY <1>2 DEF HonestInv, Honest, Faithful, Bracketed, Before
<1>4. ok \in BOOLEAN
  OBVIOUS
<1> HIDE DEF ok
<1>5. Honest(ok, c', src')
  BY <1>2, <1>3, <1>4, StepHonest
<1> QED
  BY <1>5 DEF HonestInv, ok

\* Nothing is labelled at the start.
LEMMA InitHonest == Init => HonestInv
BY DEF Init, HonestInv, Honest, Faithful, Latest, Bracketed

(* As long as the working tree has not returned to an earlier content, a       *)
(* bundle in service holds exactly the sources it is labelled with (lines      *)
(* 98-101, 472-476): the one comparison at the end of the cycle covers every   *)
(* read the build made before it.                                              *)
THEOREM PublicationsFaithful == Spec => []PublishedFaithful
<1>1. HonestInv => PublishedFaithful
  BY DEF HonestInv, Honest, Faithful, PublishedFaithful
<1> QED
  BY InitHolds, StepKeeps, InitHonest, HonestStep, <1>1, PTL DEF Spec

(* Whether or not sources have returned to an old content: unless an error is  *)
(* reported, a server that is not stale compares the sources with what it      *)
(* serves, and nothing newer waits for its pins (lines 377-390).               *)
THEOREM NewestAlwaysReported == Spec => []NewestReported
<1>1. IInv /\ HonestInv => NewestReported
  <2> SUFFICES ASSUME IInv, HonestInv, Serving, ~Stale
               PROVE  c.failed \/ c.last = c.made[c.slot].capture
    BY DEF NewestReported
  <2>1. c.slot = c.current /\ c.current # None /\ c.published = c.current
    BY DEF IInv, Good, Core, Serving, Stale
  <2> QED
    BY <2>1 DEF HonestInv, Honest, Latest
<1> QED
  BY InitHolds, StepKeeps, InitHonest, HonestStep, <1>1, PTL DEF Spec

(* A server that does not report itself stale has nothing newer waiting, and,  *)
(* as long as sources have not returned to an old content, answers from the    *)
(* live tree and the live canonical graph (freshness(), lines 342-394).        *)
THEOREM FreshnessHonest == Spec => []HonestFreshness
<1>1. IInv /\ HonestInv /\ NewestReported => HonestFreshness
  <2> SUFFICES ASSUME IInv, HonestInv, reverts = 0, Serving, ~Stale
               PROVE  /\ c.made[c.slot].content.code = src.code
                      /\ c.made[c.slot].content.canon = src.canon
    BY DEF HonestFreshness
  <2>1. c.slot = c.current /\ c.current # None
    BY DEF IInv, Good, Core, Serving
  <2>2. c.made[c.slot].content = c.made[c.slot].capture
    BY <2>1 DEF HonestInv, Honest, Faithful
  <2> QED
    BY <2>1, <2>2 DEF Stale
<1> QED
  BY InitHolds, StepKeeps, InitHonest, HonestStep, NewestAlwaysReported, <1>1, PTL DEF Spec
=============================================================================
