----------------------------- MODULE MCLimiter -----------------------------
(***************************************************************************)
(* Limiter with interchangeable handlers.                                  *)
(***************************************************************************)
EXTENDS Limiter, TLC

Symmetry == Permutations(Handlers)
=============================================================================
