---------------------------- MODULE MCSoulUpdate ----------------------------
(* Small instances of SoulUpdate. *)
EXTENDS SoulUpdate, TLC

CONSTANTS a, b, sa, sb, u1, u2, r1

\* b refers to a, then no more, then again; a is deleted and comes back.
TwoFiles == (a :> (0 :> {} @@ 1 :> {} @@ 2 :> {b})) @@ (b :> (0 :> {a} @@ 1 :> {} @@ 2 :> {}))

OnceGone == (a :> {1}) @@ (b :> {})

Twice == (a :> 2) @@ (b :> 1)

Apart == (a :> sa) @@ (b :> sb)

Whole == {{a, b}}
Each == {{a, b}, {b}}
=============================================================================
