---------------------------- MODULE MCMemoryStore ----------------------------
(* Small instances of MemoryStore. *)
EXTENDS MemoryStore, TLC

CONSTANTS p1, p2, i1, i2, i3, s1, s2, m1, m2

\* Two entries share a shard, the third is in the graph.
Places == (i1 :> s1) @@ (i2 :> s1) @@ (i3 :> s2)

\* Each call carries one mark.
Singles == {{m1}, {m2}}

Symmetry == Permutations({p1, p2}) \cup Permutations({m1, m2})
=============================================================================
