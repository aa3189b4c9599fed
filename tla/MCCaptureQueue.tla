--------------------------- MODULE MCCaptureQueue ---------------------------
(* Small instances of CaptureQueue: two captures, the first of which fails. *)
EXTENDS CaptureQueue, TLC

CONSTANTS c1, c2, w1, w2

ById == (c1 :> 1) @@ (c2 :> 2)
=============================================================================
