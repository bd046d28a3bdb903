--------------------------- MODULE MCMetricsPoll ---------------------------
(***************************************************************************)
(* MetricsPoll with one polling client and a small pool.                   *)
(***************************************************************************)
EXTENDS MetricsPoll, TLC

Symmetry == Permutations(Workers)
=============================================================================
