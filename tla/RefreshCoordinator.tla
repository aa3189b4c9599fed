------------------------- MODULE RefreshCoordinator -------------------------
(***************************************************************************)
(* The serialized refresh loop of a watch-mode server                      *)
(* (packages/cli/src/refresh-coordinator.ts), with what surrounds it:      *)
(* cmdServe's wiring (cli.ts), the watcher and fallback timer (watch.ts),  *)
(* the request pins (mcp/src/server.ts) and the slot of Verbs a bundle is  *)
(* adopted into (mcp/src/verbs.ts).                                        *)
(*                                                                         *)
(* The server is one JavaScript thread: what runs between two awaits is    *)
(* one step, so the nested calls are operators from the coordinator's      *)
(* state (a record s) and the live source (now) to its next state.         *)
(* Sources are version numbers; a capture is the versions read at once.    *)
(***************************************************************************)
EXTENDS Integers, FiniteSets

CONSTANTS
    Request,    \* tools/call requests the server may answer at the same time
    Bundle,     \* identities of reader bundles; those of disposed ones are reused
    None,
    MaxCode,    \* versions of the working tree and HEAD
    MaxCanon,   \* versions of the on-disk canonical graph (`crib update`)
    MaxLedger,  \* versions of the memory journal
    MaxFails,   \* builds, re-checks and observers that throw
    MaxReverts  \* returns of the working tree to an earlier content

ASSUME RefreshAssumption ==
    /\ IsFiniteSet(Request) /\ None \notin Bundle
    /\ MaxCode \in Nat /\ MaxCanon \in Nat /\ MaxLedger \in Nat /\ MaxFails \in Nat
    /\ MaxReverts \in Nat

Capture == [code : 0 .. MaxCode, canon : 0 .. MaxCanon, ledger : 0 .. MaxLedger]
Blank == [code |-> 0, canon |-> 0, ledger |-> 0]

VARIABLES
    src,    \* what is live: working tree, canonical graph, memory journal
    c,      \* the coordinator and the slots of Verbs
    life,   \* cmdServe: where the server is in its life
    pin,    \* the bundle in Verbs' slot when a request in flight began
    fails,  \* cycles that threw so far
    reverts \* times the working tree has returned to an earlier content

vars == <<src, c, life, pin, fails, reverts>>

Coordinator ==
    [current : Bundle \cup {None}, published : Bundle \cup {None},
     cand : Bundle \cup {None},             \* refresh()'s local candidate
     step : {"idle", "parse", "graph", "check"},
     start : Capture,                       \* refresh()'s local capture
     parsed : 0 .. MaxCode,                 \* the tree the overlay was parsed from
     pending : BOOLEAN,                     \* pendingReason
     last : Capture \cup {None},            \* lastCapture
     failed : BOOLEAN,                      \* lastRefreshError
     inFlight : Nat, closed : BOOLEAN,
     loaded : 0 .. MaxCanon,                \* the in-memory canonical store, `soul`
     wired : BOOLEAN, slot : Bundle \cup {None},   \* adopter set; Verbs' overlay and index
     open : SUBSET Bundle,                  \* bundles whose native index is open
     made : [Bundle -> [capture : Capture, content : Capture]]]

TypeOK ==
    /\ src \in Capture
    /\ c \in Coordinator
    /\ life \in {"new", "starting", "serving", "failed"}
    /\ pin \in [Request -> Bundle \cup {None}]
    /\ fails \in 0 .. MaxFails
    /\ reverts \in 0 .. MaxReverts

Init ==
    /\ src = Blank
    /\ c = [current |-> None, published |-> None, cand |-> None, step |-> "idle",
            start |-> Blank, parsed |-> 0, pending |-> FALSE, last |-> None,
            failed |-> FALSE, inFlight |-> 0, closed |-> FALSE, loaded |-> 0,
            wired |-> FALSE, slot |-> None, open |-> {},
            made |-> [b \in Bundle |-> [capture |-> Blank, content |-> Blank]]]
    /\ life = "new"
    /\ pin = [r \in Request |-> None]
    /\ fails = 0
    /\ reverts = 0
-----------------------------------------------------------------------------
(* The coordinator's methods. *)

Busy(s) == s.step # "idle"

(* dispose(): at most once per bundle. *)
Dispose(s, b) ==
    IF b \in s.open
    THEN [s EXCEPT !.open = @ \ {b}, !.made[b] = [capture |-> Blank, content |-> Blank]]
    ELSE s

(* Mutants of StartCycle: the cycle reuses the capture of the last publication; *)
(* its capture is remembered before it is published.                            *)
StartCycle_LastCapture(s, now) ==
    [s EXCEPT !.step = "parse", !.start = s.last, !.loaded = now.canon]
StartCycle_RememberedEarly(s, now) ==
    [s EXCEPT !.step = "parse", !.start = now, !.loaded = now.canon, !.last = now]

(* refresh() up to its first await: buildBundle() reloads the canonical store *)
(* and seeds the overlay from it.                                             *)
StartCycle(s, now) == [s EXCEPT !.step = "parse", !.start = now, !.loaded = now.canon]

RequestRefresh(s, now) ==
    IF Busy(s) THEN [s EXCEPT !.pending = TRUE]
    ELSE IF s.closed \/ s.last = now THEN s
    ELSE StartCycle(s, now)

(* Mutant of Swappable: the pins are not looked at. *)
Swappable_IgnoringPins(s) == s.published # None /\ s.published # s.current

Swappable(s) == s.published # None /\ s.published # s.current /\ s.inFlight = 0

Swapped(s) ==
    Dispose([s EXCEPT !.current = s.published,
                      !.slot = IF s.wired THEN s.published ELSE @],
            s.current)

(* maybeSwap(), and the scan that follows an adoption a pin had deferred. *)
MaybeSwap(s) == IF Swappable(s) THEN Swapped(s) ELSE s
MaybeSwapFromRelease(s, now) ==
    IF ~Swappable(s) THEN s
    ELSE IF s.closed THEN Swapped(s) ELSE RequestRefresh(Swapped(s), now)

(* Mutants of Publish: the superseded bundle is disposed even if it serves; it *)
(* is overwritten without being disposed.                                      *)
Publish_DisposingServing(s, b) ==
    LET u == [Dispose(s, s.published) EXCEPT !.published = b]
    IN  IF s.current = None THEN [u EXCEPT !.current = b] ELSE MaybeSwap(u)
Publish_Overwriting(s, b) ==
    LET u == [s EXCEPT !.published = b]
    IN  IF s.current = None THEN [u EXCEPT !.current = b] ELSE MaybeSwap(u)

(* publish(): a superseded publication leaves service unless it is serving. *)
Publish(s, b) ==
    LET superseded == s.published
        t == IF superseded # s.current /\ superseded # b THEN Dispose(s, superseded) ELSE s
        u == [t EXCEPT !.published = b]
    IN  IF s.current = None THEN [u EXCEPT !.current = b] ELSE MaybeSwap(u)

(* refresh()'s finally: drop an unpublished candidate, replay what was latched. *)
Settle(s, published, reschedule, now) ==
    LET t == IF published THEN s ELSE Dispose(s, s.cand)
        u == [t EXCEPT !.step = "idle", !.cand = None, !.parsed = 0, !.start = Blank,
                       !.pending = FALSE]
    IN  IF ~s.closed /\ (s.pending \/ reschedule) THEN RequestRefresh(u, now) ELSE u

Retain(s) == [s EXCEPT !.inFlight = @ + 1]
(* A pin is returned; the last one lets a waiting publication in. *)
Release(s, now) ==
    LET t == [s EXCEPT !.inFlight = IF @ <= 1 THEN 0 ELSE @ - 1]
    IN  IF t.inFlight = 0 THEN MaybeSwapFromRelease(t, now) ELSE t

CloseAll(s) ==
    [Dispose(Dispose(s, s.published), s.current) EXCEPT
        !.closed = TRUE, !.current = None, !.published = None]
-----------------------------------------------------------------------------
(* The sources. *)

Edit ==
    /\ \/ src.code < MaxCode /\ src' = [src EXCEPT !.code = @ + 1] /\ UNCHANGED reverts
       \/ /\ reverts < MaxReverts
          /\ \E v \in 0 .. src.code - 1 : src' = [src EXCEPT !.code = v]
          /\ reverts' = reverts + 1
    /\ UNCHANGED <<c, life, pin, fails>>

UpdateCanon ==
    /\ src.canon < MaxCanon
    /\ src' = [src EXCEPT !.canon = @ + 1]
    /\ UNCHANGED <<c, life, pin, fails, reverts>>
-----------------------------------------------------------------------------
(* cmdServe. *)

Initialize ==
    /\ life = "new"
    /\ life' = "starting"
    /\ c' = StartCycle(c, src)
    /\ UNCHANGED <<src, pin, fails, reverts>>

(* The chain of initial cycles settled without a publication. *)
InitializeFails ==
    /\ life = "starting" /\ ~Busy(c) /\ c.current = None
    /\ life' = "failed"
    /\ UNCHANGED <<src, c, pin, fails, reverts>>

(* Verbs is constructed over the current bundle and the adopter is set. *)
Wire ==
    /\ life = "starting" /\ c.current # None
    /\ life' = "serving"
    /\ c' = [c EXCEPT !.wired = TRUE, !.slot = c.current]
    /\ UNCHANGED <<src, pin, fails, reverts>>

(* A watcher event or the fallback interval. *)
Trigger ==
    /\ life = "serving" /\ ~c.closed
    /\ c' = RequestRefresh(c, src)
    /\ UNCHANGED <<src, life, pin, fails, reverts>>

Shutdown ==
    /\ life = "serving" /\ ~c.closed
    /\ c' = CloseAll(c)
    /\ UNCHANGED <<src, life, pin, fails, reverts>>
-----------------------------------------------------------------------------
(* Requests: the pin router around tools/call. *)

Begin(r) ==
    /\ life = "serving" /\ ~c.closed /\ pin[r] = None
    /\ pin' = [pin EXCEPT ![r] = c.slot]
    /\ c' = Retain(c)
    /\ UNCHANGED <<src, life, fails, reverts>>

(* A verb that writes memory: the store's listener asks for a refresh. *)
WriteMemory(r) ==
    /\ pin[r] # None /\ ~c.closed
    /\ src.ledger < MaxLedger
    /\ src' = [src EXCEPT !.ledger = @ + 1]
    /\ c' = RequestRefresh(c, src')
    /\ UNCHANGED <<life, pin, fails, reverts>>

End(r) ==
    /\ pin[r] # None
    /\ pin' = [pin EXCEPT ![r] = None]
    /\ c' = Release(c, src)
    /\ UNCHANGED <<src, life, fails, reverts>>
-----------------------------------------------------------------------------
(* A cycle, from one await to the next. *)

(* The dirty files are read and parsed into the overlay. *)
Parse ==
    /\ c.step = "parse"
    /\ c' = [c EXCEPT !.step = "graph", !.parsed = src.code]
    /\ UNCHANGED <<src, life, pin, fails, reverts>>

(* The index and the memory graph are built: the candidate exists. *)
BuildGraph ==
    /\ c.step = "graph"
    /\ \E b \in Bundle \ c.open :
         c' = [c EXCEPT !.step = "check", !.cand = b, !.open = @ \cup {b},
                        !.made[b] = [capture |-> c.start,
                                     content |-> [code |-> c.parsed, canon |-> c.start.canon,
                                                  ledger |-> src.ledger]]]
    /\ UNCHANGED <<src, life, pin, fails, reverts>>

(* The build, or the re-check, throws: last-good keeps serving. *)
Fail ==
    /\ Busy(c)
    /\ fails < MaxFails
    /\ fails' = fails + 1
    /\ c' = Settle([c EXCEPT !.failed = TRUE], FALSE, FALSE, src)
    /\ UNCHANGED <<src, life, pin, reverts>>

(* Mutant of Finish: there is no re-check. *)
Finish_Unchecked ==
    /\ c.step = "check"
    /\ c' = IF c.closed THEN Settle(c, FALSE, FALSE, src)
            ELSE Settle([Publish(c, c.cand) EXCEPT !.last = c.start, !.failed = FALSE],
                        TRUE, FALSE, src)
    /\ UNCHANGED <<src, life, pin, fails, reverts>>

(* The source re-check: publish, or discard and reschedule. *)
Finish ==
    /\ c.step = "check"
    /\ \/ /\ c.closed
          /\ c' = Settle(c, FALSE, FALSE, src)
       \/ /\ ~c.closed /\ src # c.start
          /\ c' = Settle(c, FALSE, TRUE, src)
       \/ /\ ~c.closed /\ src = c.start
          /\ c' = Settle([Publish(c, c.cand) EXCEPT !.last = c.start, !.failed = FALSE],
                         TRUE, FALSE, src)
    /\ UNCHANGED <<src, life, pin, fails, reverts>>

(* The re-check holds and the bundle serves, but its observer throws: the       *)
(* cycle counts as failed and does not remember its capture.                   *)
ObserverThrows ==
    /\ c.step = "check" /\ ~c.closed /\ src = c.start
    /\ Publish(c, c.cand).current = c.cand
    /\ fails < MaxFails
    /\ fails' = fails + 1
    /\ c' = Settle([Publish(c, c.cand) EXCEPT !.failed = TRUE], TRUE, FALSE, src)
    /\ UNCHANGED <<src, life, pin, reverts>>
-----------------------------------------------------------------------------
Cycle == Parse \/ BuildGraph \/ Finish

Next ==
    \/ Edit \/ UpdateCanon
    \/ Initialize \/ InitializeFails \/ Wire \/ Trigger \/ Shutdown
    \/ Cycle \/ Fail \/ ObserverThrows
    \/ \E r \in Request : Begin(r) \/ WriteMemory(r) \/ End(r)

Spec == Init /\ [][Next]_vars

(* Awaits resolve, the fallback interval keeps firing, requests are answered. *)
LiveSpec ==
    /\ Spec
    /\ WF_vars(Initialize) /\ WF_vars(InitializeFails) /\ WF_vars(Wire)
    /\ WF_vars(Trigger) /\ WF_vars(Cycle)
    /\ \A r \in Request : WF_vars(End(r))
-----------------------------------------------------------------------------
Serving == life = "serving" /\ ~c.closed

(* No bundle in service is ever disposed (WP4.5; refresh-coordinator.ts:     *)
(* 444-449, 562-567, 587-590), whatever supersedes what while requests are   *)
(* pinned: what Verbs reads through is the current bundle, and it is open.   *)
ServingOpen ==
    /\ \A b \in {c.current, c.published} : b \in c.open \cup {None}
    /\ Serving => c.slot = c.current /\ c.current # None

(* Every open bundle has an owner that will dispose of it (A08, lines        *)
(* 435-443): it serves, it waits for adoption, or it is the cycle's          *)
(* candidate.  A closed, idle coordinator has none.                          *)
EveryBundleOwned ==
    c.open \subseteq {c.current, c.published} \cup (IF c.step = "check" THEN {c.cand} ELSE {})

(* A request answers from one bundle for its whole lifetime (mcp/server.ts:  *)
(* 151-155): nothing is adopted, by any path, while it is in flight.         *)
NoTornRequest == \A r \in Request : pin[r] # None => c.slot = pin[r]

(* A published bundle describes the capture it is labelled with (lines       *)
(* 98-101, 472-476), however the sources moved while it was built, unless    *)
(* they came back to an earlier content: what the build read in between is   *)
(* then in neither capture the re-check compares.                            *)
PublishedFaithful ==
    reverts = 0 =>
      \A b \in {c.current, c.published} \ {None} : c.made[b].content = c.made[b].capture

(* Mutant of Stale: only the contents are compared, not the two bundles. *)
Stale_ByContent ==
    LET served == c.made[c.current].capture
    IN  served.code # src.code \/ served.canon # src.canon

(* freshness(): the staleness verdict of the status verb. *)
Stale ==
    LET served == c.made[c.current].capture
    IN  served.code # src.code \/ served.canon # src.canon \/ c.published # c.current

(* Unless an error is reported, the sources whose return would go unnoticed  *)
(* are those of what the reader serves (A05, lines 377-390): a publication   *)
(* that waits for the pins is reported, even when the sources have meanwhile *)
(* returned to the reader's own state and every content agrees again.        *)
NewestReported ==
    Serving /\ ~Stale => c.failed \/ c.last = c.made[c.slot].capture

(* A reader that is not reported stale has nothing newer waiting for it, and *)
(* serves the live code and the live canonical graph (lines 342-394) unless  *)
(* sources came back to an earlier content.                                  *)
HonestFreshness ==
    /\ reverts = 0 /\ Serving /\ ~Stale =>
         /\ c.made[c.slot].content.code = src.code
         /\ c.made[c.slot].content.canon = src.canon
    /\ NewestReported

(* Once the sources are left alone the reader catches up with them, provided *)
(* the requests drain now and then (lines 500-514, 591-595): no discarded    *)
(* cycle, failed cycle or deferred adoption leaves it behind for ever.  One  *)
(* thing does: a cycle that fails in its observer does not remember what it  *)
(* published (483-498), and sources that return to the capture before it are *)
(* taken for unchanged.                                                      *)
CaughtUp == c.published = c.current /\ c.made[c.current].capture = src
Converges ==
    []<>(c.inFlight = 0) =>
      <>[](\/ life = "failed" \/ c.closed
           \/ c.current # None /\ CaughtUp
           \/ reverts > 0 /\ c.failed)

(* The in-memory canonical store and the bundle in Verbs' slot describe the  *)
(* same on-disk graph (lines 520-521) while a request reads both.  A cycle   *)
(* that reloads the store ahead of its bundle refutes it: README.md, Known   *)
(* divergences.                                                              *)
OneGraphPerRequest ==
    \A r \in Request :
      pin[r] # None /\ ~c.closed => c.loaded = c.made[c.slot].content.canon
=============================================================================
