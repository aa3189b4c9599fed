----------------------------- MODULE ReplicaSet -----------------------------
(***************************************************************************)
(* What memory sync promises of the entries of a set of devices, whatever  *)
(* the order, the repetition or the loss of deliveries                     *)
(* (packages/memory/src/sync/engine.ts:16-18): a version the device holds  *)
(* when a delivery is decided is not changed by it; what arrives was       *)
(* written by some device and offered to the others; a conflict on record  *)
(* is about a version some device wrote.  Between the decision and the     *)
(* insertion the device may write a version of its own, which then is      *)
(* replaced (engine.ts:884, 915).  SyncEngine implements this.             *)
(***************************************************************************)

CONSTANTS
    Device,
    Entry       \* versions of entries: records with an id

VARIABLES
    store,      \* the entries each device holds
    written,    \* every version some device wrote
    offered,    \* the versions that can be fetched
    inserting,  \* the versions each device has decided to insert
    conflicts   \* the conflict ledger of each device

vars == <<store, written, offered, inserting, conflicts>>

Holds(d, id) == \E e \in store[d] : e.id = id

Init ==
    /\ store \in [Device -> SUBSET Entry]
    /\ written = UNION {store[d] : d \in Device}
    /\ offered = {}
    /\ inserting = [d \in Device |-> {}]
    /\ conflicts = [d \in Device |-> {}]

Put(d, e) == store' = [store EXCEPT ![d] = {f \in @ : f.id # e.id} \cup {e}]

\* A device writes an entry, in the place of its own version if it has one.
Write(d, e) ==
    /\ Put(d, e)
    /\ written' = written \cup {e}
    /\ UNCHANGED <<offered, inserting, conflicts>>

Offer(e) ==
    /\ e \in written
    /\ offered' = offered \cup {e}
    /\ UNCHANGED <<store, written, inserting, conflicts>>

\* Objects of an old key are deleted from the remote.
Withdraw(gone) ==
    /\ offered' = offered \ gone
    /\ UNCHANGED <<store, written, inserting, conflicts>>

\* A version is to be inserted where there is none of its id.
Decide(d, e) ==
    /\ e \in offered
    /\ ~Holds(d, e.id)
    /\ inserting' = [inserting EXCEPT ![d] = @ \cup {e}]
    /\ UNCHANGED <<store, written, offered, conflicts>>

\* Decisions are carried out, or given up.
Settle(d) == \E kept \in SUBSET inserting[d] : inserting' = [inserting EXCEPT ![d] = kept]

Deliver(d, e) ==
    /\ e \in inserting[d]
    /\ Put(d, e)
    /\ Settle(d)
    /\ UNCHANGED <<written, offered, conflicts>>

Forget(d) ==
    /\ Settle(d)
    /\ UNCHANGED <<store, written, offered, conflicts>>

\* Versions that arrived where there was another one are put on record.
Record(d, rows) ==
    /\ rows \subseteq written
    /\ conflicts' = [conflicts EXCEPT ![d] = @ \cup rows]
    /\ UNCHANGED <<store, written, offered, inserting>>

Next ==
    \/ \E d \in Device, e \in Entry : Write(d, e) \/ Decide(d, e) \/ Deliver(d, e)
    \/ \E d \in Device : Forget(d)
    \/ \E e \in Entry : Offer(e)
    \/ \E gone \in SUBSET Entry : Withdraw(gone)
    \/ \E d \in Device, rows \in SUBSET Entry : Record(d, rows)

Spec == Init /\ [][Next]_vars

=============================================================================
