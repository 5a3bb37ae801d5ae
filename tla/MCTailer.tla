------------------------------ MODULE MCTailer ------------------------------
(***************************************************************************)
(* Instances of the tailer: what the container writes to its two streams,  *)
(* as full (F), partial (P) and blank (B) lines.                           *)
(***************************************************************************)
EXTENDS Tailer

CONSTANTS out, err

L(s, k) == [stream |-> s, kind |-> k]

RotateScript == <<L(out, "P"), L(err, "F"), L(out, "P")>>
SkipScript   == <<L(out, "F"), L(err, "B"), L(err, "F"), L(out, "B")>>
=============================================================================
