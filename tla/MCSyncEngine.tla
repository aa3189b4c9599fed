---------------------------- MODULE MCSyncEngine ----------------------------
(* Small instances of SyncEngine: two devices and two versions of one      *)
(* entry; the .cfg files choose the runners, the commands and the faults.  *)
EXTENDS SyncEngine, TLC

CONSTANTS d1, d2, r1, r2, r3

P1 == [id |-> "p", bytes |-> 1]
P2 == [id |-> "p", bytes |-> 2]
Versions2 == {P1, P2}
FirstVersion == {P1}
Order == [e \in Versions2 |-> e.bytes]

OnePerDevice == (r1 :> d1) @@ (r2 :> d2)
TwoOnTheFirst == OnePerDevice @@ (r3 :> d1)
SameHome == Permutations({r1, r3})   \* of TwoOnTheFirst, with neither of them Mortal

Nobody == [d \in {d1, d2} |-> {}]
OneEach == (d1 :> {P1}) @@ (d2 :> {P2})
OnlyTheFirst == (d1 :> {P1}) @@ (d2 :> {})
SecondRefuses == (d1 :> {}) @@ (d2 :> {P2})
=============================================================================
