---------------------------- MODULE Percentiles ----------------------------
(***************************************************************************)
(* Which sample the collector reports as a percentile                      *)
(* (backend/internal/experiment/metrics.go, percentile), for every number  *)
(* of samples a run passes through.                                        *)
(***************************************************************************)
EXTENDS Integers

CONSTANT MaxSamples   \* maxSamples (8192): the reservoir stops growing

ASSUME PercentilesAssumption == MaxSamples \in Nat \ {0}

VARIABLE size   \* len(m.samples)

Init == size = 0

\* Record adds a sample until the reservoir is full.
Grow == size' = IF size < MaxSamples THEN size + 1 ELSE size

BugRank(p, n) ==
  LET rank == (p * n) \div 100 + 1
  IN  IF rank < 1 THEN 1 ELSE IF rank > n THEN n ELSE rank

\* percentile: int(p/100*n + 0.5), kept in 1..n, of n sorted samples.
Rank(p, n) ==
  LET rank == (p * n + 50) \div 100
  IN  IF rank < 1 THEN 1 ELSE IF rank > n THEN n ELSE rank

Reported == {50, 95, 99}

\* The smallest rank with at least p percent of n samples at or below it.
NearestRank(p, n) == (p * n + 99) \div 100

(***************************************************************************)
(* The three reported ranks exist, are in order, and none is further than  *)
(* one sample below the nearest rank (metrics.go:107-109, 115-127).        *)
(***************************************************************************)
RanksSound ==
  size > 0 =>
    /\ Rank(50, size) <= Rank(95, size) /\ Rank(95, size) <= Rank(99, size)
    /\ \A p \in Reported :
         /\ Rank(p, size) \in 1..size
         /\ NearestRank(p, size) - Rank(p, size) \in {0, 1}
=============================================================================
