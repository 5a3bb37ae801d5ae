------------------------------ MODULE MCEvents ------------------------------
(***************************************************************************)
(* Instances of the events reader: one process, three events, batches of   *)
(* one or two entries.                                                     *)
(***************************************************************************)
EXTENDS Events

CONSTANT a

\* Events further apart than the slack; as timestamps, honest clocks.
Sparse == <<1, 3, 5>>
\* The last reporter's clock is fast.
SkewedTs == <<1, 3, 9>>
=============================================================================
