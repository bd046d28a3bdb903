---------------------------- MODULE MCCollector ----------------------------
(***************************************************************************)
(* Collector with interchangeable recorders and a short window.            *)
(***************************************************************************)
EXTENDS Collector, TLC

Symmetry == Permutations(Recorders)
=============================================================================
