---------------------------- MODULE PacerProofs ----------------------------
(***************************************************************************)
(* Proofs about Pacer, and with it Percentiles, for every environment, all *)
(* caps, every posted number and every size of the reservoir.              *)
(***************************************************************************)
EXTENDS Pacer, TLAPS

(* The arithmetic of the three ranks. *)
LEMMA RankArithmetic ==
  ASSUME NEW n \in Nat \ {0}
  PROVE  /\ Rank(50, n) <= Rank(95, n) /\ Rank(95, n) <= Rank(99, n)
         /\ \A p \in Reported :
              /\ Rank(p, n) \in 1..n
              /\ NearestRank(p, n) - Rank(p, n) \in {0, 1}
<1>1. ASSUME NEW p \in Reported
      PROVE  /\ Rank(p, n) \in 1..n
             /\ NearestRank(p, n) - Rank(p, n) \in {0, 1}
  BY <1>1 DEF Rank, NearestRank, Reported
<1>2. Rank(50, n) <= Rank(95, n) /\ Rank(95, n) <= Rank(99, n)
  BY DEF Rank
<1> QED
  BY <1>1, <1>2

(* What Go's integer division loses is less than the divisor. *)
LEMMA Division ==
  ASSUME NEW s \in Nat \ {0}, NEW r \in Nat \ {0}
  PROVE  /\ s \div r \in Nat
         /\ s - r * (s \div r) \in 0..(r - 1)
<1>1. s \div r \in Nat
  OBVIOUS
<1>2. r * (s \div r) <= s /\ s < r * (s \div r) + r
  OBVIOUS
<1>3. r * (s \div r) \in Nat
  BY <1>1
<1> QED
  BY <1>1, <1>2, <1>3

(* Products of smaller naturals are smaller. *)
LEMMA Smaller ==
  ASSUME NEW a \in Nat, NEW b \in Nat, NEW c \in Nat, NEW d \in Nat,
         a <= c, b <= d
  PROVE  a * b <= c * d
<1>1. a * b <= c * b
  BY SMT
<1>2. c * b <= c * d
  BY SMT
<1> QED
  BY <1>1, <1>2

(***************************************************************************)
(* The arithmetic of the interval q of rate r: over d seconds the lost     *)
(* remainders add up to less than one interval.                            *)
(***************************************************************************)
LEMMA Remainders ==
  ASSUME NEW s \in Nat \ {0}, NEW r \in Nat \ {0}, NEW d \in Nat \ {0},
         NEW q \in Nat, NEW e \in 0..(r - 1),
         s = r * q + e, d * (r * r) <= s
  PROVE  q > 0 /\ d * e < q
<1>1. d * r \in Nat /\ d * r >= 1
  BY SMT
<1>2. d * (r * r) = (d * r) * r
  BY SMT
<1>3. r * q + e >= (d * r) * r
  BY <1>2
<1>4. d * e <= d * r - d
  <2>1. d * e <= d * (r - 1)
    BY SMT
  <2>2. d * (r - 1) = d * r - d
    BY SMT
  <2> QED
    BY <2>1, <2>2
<1>5. q >= d * r
  <2>1. SUFFICES ASSUME q <= d * r - 1
                 PROVE  FALSE
    BY <1>1
  <2>2. r * q <= r * (d * r - 1)
    BY <1>1, <2>1, SMT
  <2>3. r * (d * r - 1) = (d * r) * r - r
    BY <1>1, SMT
  <2>4. r * q \in Nat /\ (d * r) * r \in Nat
    BY <1>1
  <2> QED
    BY <1>3, <2>2, <2>3, <2>4
<1>6. d * e \in Nat
  OBVIOUS
<1> QED
  BY <1>1, <1>4, <1>5, <1>6

(* t intervals fit in d seconds: then t is at most the planned number. *)
LEMMA NoTickTooMany ==
  ASSUME NEW s \in Nat \ {0}, NEW r \in Nat \ {0}, NEW d \in Nat \ {0},
         NEW q \in Nat \ {0}, NEW e \in 0..(r - 1), NEW t \in Nat,
         s = r * q + e, d * e < q, t * q <= d * s
  PROVE  t <= d * r
<1>1. SUFFICES ASSUME t >= d * r + 1
               PROVE  FALSE
  <2>1. d * r \in Nat
    OBVIOUS
  <2> QED
    BY <2>1
<1>2. d * r \in Nat /\ (d * r) * q \in Nat /\ d * e \in Nat
  BY SMT
<1>3. (d * r + 1) * q <= t * q
  BY <1>1, <1>2, Smaller
<1>4. (d * r + 1) * q = (d * r) * q + q
  BY <1>2, SMT
<1>5. d * s = (d * r) * q + d * e
  <2>1. d * (r * q + e) = d * (r * q) + d * e
    BY SMT
  <2>2. d * (r * q) = (d * r) * q
    BY SMT
  <2> QED
    BY <2>1, <2>2
<1>6. t * q \in Nat
  OBVIOUS
<1> QED
  BY <1>2, <1>3, <1>4, <1>5, <1>6

(* One interval more reaches d seconds: then t is the number less one. *)
LEMMA NoTickTooFew ==
  ASSUME NEW s \in Nat \ {0}, NEW r \in Nat \ {0}, NEW d \in Nat \ {0},
         NEW q \in Nat \ {0}, NEW e \in 0..(r - 1), NEW t \in Nat,
         s = r * q + e, d * s <= t * q + q
  PROVE  d * r - 1 <= t
<1>1. SUFFICES ASSUME t + 1 <= d * r - 1
               PROVE  FALSE
  <2>1. d * r \in Nat
    OBVIOUS
  <2> QED
    BY <2>1
<1>2. d * r \in Nat /\ (d * r) * q \in Nat /\ d * e \in Nat /\ t * q \in Nat
  BY SMT
<1>3. (t + 2) * q <= (d * r) * q
  BY <1>1, <1>2, Smaller
<1>4. (t + 2) * q = t * q + q + q
  BY SMT
<1>5. d * s = (d * r) * q + d * e
  <2>1. d * (r * q + e) = d * (r * q) + d * e
    BY SMT
  <2>2. d * (r * q) = (d * r) * q
    BY SMT
  <2> QED
    BY <2>1, <2>2
<1> QED
  BY <1>2, <1>3, <1>4, <1>5

(* At the time of a planned tick the ticks are less than one ahead. *)
LEMMA NotAhead ==
  ASSUME NEW s \in Nat \ {0}, NEW r \in Nat \ {0}, NEW d \in Nat \ {0},
         NEW q \in Nat, NEW e \in 0..(r - 1), NEW t \in Nat,
         s = r * q + e, d * (r * r) <= s, t <= d * r
  PROVE  t * s < r * (t * q) + s
<1>1. t * s = r * (t * q) + t * e
  <2>1. t * (r * q + e) = t * (r * q) + t * e
    BY SMT
  <2>2. t * (r * q) = r * (t * q)
    BY SMT
  <2> QED
    BY <2>1, <2>2
<1>2. t * e < s
  <2>1. d * r \in Nat /\ d * r >= 1
    BY SMT
  <2>2. t * e <= (d * r) * (r - 1)
    BY <2>1, Smaller
  <2>3. (d * r) * (r - 1) = d * (r * r) - d * r
    BY SMT
  <2>4. d * (r * r) \in Nat /\ t * e \in Nat
    BY SMT
  <2> QED
    BY <2>1, <2>2, <2>3, <2>4
<1>3. r * (t * q) \in Nat /\ t * e \in Nat
  BY SMT
<1> QED
  BY <1>1, <1>2, <1>3

-----------------------------------------------------------------------------

(* Where the ticker stands. *)
OnTime ==
  /\ phase \in {"idle", "refused"} => elapsed = 0 /\ ticks = 0 /\ size = 0
  /\ phase \in {"running", "ended"} =>
       Valid(cfg) /\ ticks * Interval(cfg.rate) <= End
  /\ phase = "running" => elapsed = ticks * Interval(cfg.rate)
  /\ phase = "ended" => End <= ticks * Interval(cfg.rate) + Interval(cfg.rate)

(* The configuration before the first is none of the valid ones. *)
LEMMA NothingPosted == ~Valid(NoConfig)
<1>1. NoConfig.seconds = 0
  BY DEF NoConfig
<1> QED
  BY <1>1 DEF Valid

(* A valid configuration's interval. *)
LEMMA ValidInterval ==
  ASSUME cfg \in Configs, Valid(cfg)
  PROVE  /\ cfg.rate \in Nat \ {0} /\ cfg.seconds \in Nat \ {0}
         /\ cfg.seconds * (cfg.rate * cfg.rate) <= Second
         /\ Interval(cfg.rate) \in Nat \ {0}
         /\ Second - cfg.rate * Interval(cfg.rate) \in 0..(cfg.rate - 1)
         /\ cfg.seconds * (Second - cfg.rate * Interval(cfg.rate))
              < Interval(cfg.rate)
<1> DEFINE r == cfg.rate
           d == cfg.seconds
           q == Interval(r)
           e == Second - r * q
<1>1. r \in Nat \ {0} /\ d \in Nat \ {0}
      /\ r <= MaxRequestsPerSec /\ d <= MaxDurationSeconds
  BY PacerAssumption DEF Valid
<1>2. d * (r * r) <= Second
  <2>1. r * r <= MaxRequestsPerSec * MaxRequestsPerSec
        /\ r * r \in Nat /\ MaxRequestsPerSec * MaxRequestsPerSec \in Nat
    BY <1>1, Smaller, PacerAssumption
  <2>2. d * (r * r)
          <= MaxDurationSeconds * (MaxRequestsPerSec * MaxRequestsPerSec)
    BY <1>1, <2>1, Smaller, PacerAssumption
  <2>3. /\ MaxDurationSeconds * (MaxRequestsPerSec * MaxRequestsPerSec) \in Nat
        /\ d * (r * r) \in Nat
    BY <1>1, <2>1, PacerAssumption
  <2> QED
    BY <2>2, <2>3, PacerAssumption
<1>3. q \in Nat /\ e \in 0..(r - 1)
  BY <1>1, Division, PacerAssumption DEF Interval
<1> HIDE DEF q
<1>4. Second = r * q + e
  <2>1. r * q \in Nat
    BY <1>1, <1>3
  <2> QED
    BY <2>1, PacerAssumption
<1> HIDE DEF e, r, d
<1>5. q > 0 /\ d * e < q
  BY <1>1, <1>2, <1>3, <1>4, Remainders, PacerAssumption
<1>6. q \in Nat \ {0}
  BY <1>3, <1>5
<1> QED
  BY <1>1, <1>2, <1>3, <1>5, <1>6 DEF e, r, d, q

(***************************************************************************)
(* Cutting, lowering and dropping blanks compare the names, no more.       *)
(***************************************************************************)
LEMMA AllowlistMeaning ==
  ASSUME TypeOK
  PROVE  AllowedTarget(base, AllowedHosts)
         <=> /\ base.parses /\ base.scheme = "http" /\ ~base.user
             /\ base.host.name \in NamedHosts
<1>a. list \in SUBSET Entries /\ base \in Bases
  BY PacerAssumption DEF TypeOK
<1> DEFINE named == {h.name : h \in list} \ {Blank}
           cleaned == {Lowered(Trimmed(h)) : h \in {e \in list : e.name # Blank}}
<1>0. ASSUME NEW h \in Entries
      PROVE  /\ Lowered(Trimmed(h)) = Plain(h.name)
             /\ ~h.blanks => Lowered(h) = Plain(h.name)
  <2>1. ASSUME NEW g \in Entries, NEW k \in Entries, g.name = k.name,
               g.capitals = k.capitals, g.blanks = k.blanks
        PROVE  g = k
    BY <2>1 DEF Entries
  <2>2. /\ Lowered(Trimmed(h)) \in Entries /\ Lowered(h) \in Entries
        /\ Plain(h.name) \in Entries
    BY DEF Entries, Lowered, Trimmed, Plain
  <2>3. /\ Lowered(Trimmed(h)).name = h.name
        /\ Lowered(Trimmed(h)).capitals = FALSE
        /\ Lowered(Trimmed(h)).blanks = FALSE
        /\ Lowered(h).name = h.name
        /\ Lowered(h).capitals = FALSE
        /\ Lowered(h).blanks = h.blanks
    BY DEF Entries, Lowered, Trimmed
  <2>4. /\ Plain(h.name).name = h.name /\ Plain(h.name).capitals = FALSE
        /\ Plain(h.name).blanks = FALSE
    BY DEF Plain
  <2>5. h.blanks \in BOOLEAN
    BY DEF Entries
  <2> QED
    BY <2>1, <2>2, <2>3, <2>4, <2>5
<1>1. Lowered(base.host) = Plain(base.host.name)
  <2>1. base.host \in Entries /\ base.host.blanks = FALSE
    BY <1>a DEF Bases, Entries
  <2> QED
    BY <1>0, <2>1
<1>2. cleaned = {Plain(n) : n \in named}
  <2>1. \A h \in list : Lowered(Trimmed(h)) = Plain(h.name)
    BY <1>0, <1>a
  <2>2. cleaned \subseteq {Plain(n) : n \in named}
    BY <2>1
  <2>3. {Plain(n) : n \in named} \subseteq cleaned
    BY <2>1
  <2> QED
    BY <2>2, <2>3
<1>3. AllowedHosts = {Plain(n) : n \in NamedHosts}
  <2>1. cleaned = {} <=> named = {}
    BY <1>2
  <2> QED
    BY <1>2, <2>1 DEF AllowedHosts, DefaultAllowedHosts, NamedHosts
<1>4. ASSUME NEW n PROVE Plain(n) \in AllowedHosts <=> n \in NamedHosts
  <2>1. ASSUME NEW k, Plain(k) = Plain(n) PROVE k = n
    BY <2>1 DEF Plain
  <2> QED
    BY <1>3, <2>1
<1>5. Blank \notin NamedHosts
  BY PacerAssumption DEF NamedHosts
<1> QED
  BY <1>1, <1>4, <1>5 DEF AllowedTarget

(* One step keeps the types, the ticker's place and the allowlist. *)
LEMMA StepKeeps ==
  ASSUME TypeOK, OnTime, ListHonoured, PacerNext
  PROVE  TypeOK' /\ OnTime' /\ ListHonoured'
<1> USE DEF run, env
<1>1. CASE Create
  <2>1. /\ cfg' \in Configs /\ phase' \in {"running", "refused"}
        /\ phase' = "running" <=> Valid(cfg') /\ AllowedTarget(base, AllowedHosts)
        /\ UNCHANGED <<list, base, elapsed, ticks, size>>
    BY <1>1 DEF Create
  <2>2. TypeOK'
    BY <2>1 DEF TypeOK
  <2>3. elapsed = 0 /\ ticks = 0 /\ size = 0
    BY <1>1 DEF Create, OnTime
  <2>4. OnTime'
    <3>1. CASE phase' = "refused"
      BY <2>1, <2>3, <3>1 DEF OnTime
    <3>2. CASE phase' = "running"
      <4>1. Valid(cfg)'
        BY <2>1, <3>2 DEF Valid
      <4>2. Interval(cfg'.rate) \in Nat /\ cfg'.seconds \in Nat
        BY <4>1, Division, PacerAssumption DEF Valid, Interval
      <4>3. 0 * Interval(cfg'.rate) = 0 /\ 0 <= cfg'.seconds * Second
        BY <4>2, PacerAssumption, SMT
      <4> QED
        BY <2>1, <2>3, <3>2, <4>1, <4>3 DEF OnTime, End
    <3> QED
      BY <2>1, <3>1, <3>2
  <2>5. ListHonoured'
    <3>1. AllowedTarget(base, AllowedHosts)
          <=> /\ base.parses /\ base.scheme = "http" /\ ~base.user
              /\ base.host.name \in NamedHosts
      BY AllowlistMeaning
    <3>2. NamedHosts' = NamedHosts /\ base' = base
      BY <2>1 DEF NamedHosts
    <3> QED
      BY <2>1, <3>1, <3>2 DEF ListHonoured, Valid
  <2> QED
    BY <2>2, <2>4, <2>5
<1>2. CASE Tick
  <2>1. /\ phase = "running" /\ phase' = "running" /\ cfg' = cfg
        /\ elapsed + Interval(cfg.rate) <= End
        /\ elapsed' = elapsed + Interval(cfg.rate) /\ ticks' = ticks + 1
        /\ UNCHANGED <<list, base, size>>
    BY <1>2 DEF Tick
  <2>2. Valid(cfg) /\ elapsed = ticks * Interval(cfg.rate)
    BY <2>1 DEF OnTime
  <2>3. cfg \in Configs
    BY <2>2, NothingPosted DEF TypeOK
  <2>4. Interval(cfg.rate) \in Nat \ {0}
    BY <2>2, <2>3, ValidInterval
  <2>5. ticks \in Nat /\ elapsed \in Nat
    BY DEF TypeOK
  <2>6. ticks' * Interval(cfg.rate) = elapsed'
    BY <2>1, <2>2, <2>4, <2>5, SMT
  <2>7. TypeOK'
    BY <2>1, <2>4, <2>5 DEF TypeOK
  <2>8. OnTime'
    BY <2>1, <2>2, <2>6 DEF OnTime, Valid, End, Interval
  <2>9. ListHonoured'
    BY <2>1 DEF ListHonoured, NamedHosts, Valid
  <2> QED
    BY <2>7, <2>8, <2>9
<1>3. CASE Timer
  <2>1. /\ phase = "running" /\ phase' = "ended" /\ elapsed' = End
        /\ elapsed + Interval(cfg.rate) >= End
        /\ UNCHANGED <<list, base, cfg, ticks, size>>
    BY <1>3 DEF Timer
  <2>2. /\ Valid(cfg) /\ elapsed = ticks * Interval(cfg.rate)
        /\ ticks * Interval(cfg.rate) <= End
    BY <2>1 DEF OnTime
  <2>3. End \in Nat
    BY <2>2, PacerAssumption DEF Valid, End
  <2>4. TypeOK'
    BY <2>1, <2>3 DEF TypeOK
  <2>5. OnTime'
    BY <2>1, <2>2 DEF OnTime, Valid, End, Interval
  <2>6. ListHonoured'
    BY <2>1 DEF ListHonoured, NamedHosts, Valid
  <2> QED
    BY <2>4, <2>5, <2>6
<1>4. CASE Outcome
  <2>1. /\ UNCHANGED <<list, base, cfg, phase, elapsed, ticks>>
        /\ size < ticks /\ Grow
    BY <1>4 DEF Outcome
  <2>2. TypeOK'
    BY <2>1, PercentilesAssumption DEF TypeOK, Grow
  <2>3. phase \in {"running", "ended"}
    BY <2>1 DEF TypeOK, OnTime
  <2>4. OnTime'
    BY <2>1, <2>3 DEF OnTime, Valid, End, Interval
  <2>5. ListHonoured'
    BY <2>1 DEF ListHonoured, NamedHosts, Valid
  <2> QED
    BY <2>2, <2>4, <2>5
<1>5. CASE Finished
  BY <1>5 DEF Finished, all, TypeOK, OnTime, ListHonoured, NamedHosts, Valid,
     End, Interval
<1> QED
  BY <1>1, <1>2, <1>3, <1>4, <1>5 DEF PacerNext

(* The invariants hold in every behaviour. *)
THEOREM PacerInductive == PacerSpec => [](TypeOK /\ OnTime /\ ListHonoured)
<1>1. PacerInit => TypeOK /\ OnTime /\ ListHonoured
  BY PercentilesAssumption DEF PacerInit, Init, TypeOK, OnTime, ListHonoured
<1>2. TypeOK /\ OnTime /\ ListHonoured /\ [PacerNext]_all
      => (TypeOK /\ OnTime /\ ListHonoured)'
  <2>1. CASE UNCHANGED all
    BY <2>1 DEF all, env, run, TypeOK, OnTime, ListHonoured, NamedHosts, Valid,
       End, Interval
  <2> QED
    BY <2>1, StepKeeps
<1> QED
  BY <1>1, <1>2, PTL DEF PacerSpec

(* Every variable keeps its type, the reservoir its limit. *)
THEOREM PacerTypeCorrect == PacerSpec => []TypeOK
BY PacerInductive, PTL

(***************************************************************************)
(* Whatever the environment says and however it spells it, runs start      *)
(* exactly for the hosts it names.                                         *)
(***************************************************************************)
THEOREM ListHonouredCorrect == PacerSpec => []ListHonoured
BY PacerInductive, PTL

(***************************************************************************)
(* For every admitted rate and duration the truncated interval adds no     *)
(* request: the caps keep the lost remainders below one interval.          *)
(***************************************************************************)
THEOREM LoadPlannedCorrect == PacerSpec => []LoadPlanned
<1>1. TypeOK /\ OnTime => LoadPlanned
  <2> SUFFICES ASSUME TypeOK, OnTime, phase \in {"running", "ended"}
               PROVE  LoadPlanned
    BY DEF LoadPlanned
  <2> DEFINE r == cfg.rate
             d == cfg.seconds
             q == Interval(r)
             e == Second - r * q
  <2>1. Valid(cfg) /\ ticks * q <= d * Second
    BY DEF OnTime, End
  <2>2. cfg \in Configs /\ ticks \in Nat
    BY <2>1, NothingPosted DEF TypeOK
  <2>3. /\ r \in Nat \ {0} /\ d \in Nat \ {0} /\ q \in Nat \ {0}
        /\ e \in 0..(r - 1) /\ d * (r * r) <= Second /\ d * e < q
    BY <2>1, <2>2, ValidInterval
  <2>4. phase = "running" => elapsed = ticks * q
    BY DEF OnTime
  <2>5. phase = "ended" => d * Second <= ticks * q + q
    BY DEF OnTime, End
  <2> HIDE DEF q
  <2>6. Second = r * q + e
    <3>1. r * q \in Nat
      BY <2>3
    <3> QED
      BY <3>1, PacerAssumption
  <2> HIDE DEF e, r, d
  <2>7. ticks <= d * r
    BY <2>1, <2>2, <2>3, <2>6, NoTickTooMany, PacerAssumption
  <2>8. phase = "ended" => d * r - 1 <= ticks
    BY <2>2, <2>3, <2>5, <2>6, NoTickTooFew, PacerAssumption
  <2>9. ticks * Second < r * (ticks * q) + Second
    BY <2>2, <2>3, <2>6, <2>7, NotAhead, PacerAssumption
  <2>10. q > 0
    BY <2>3
  <2> QED
    BY <2>4, <2>7, <2>8, <2>9, <2>10 DEF LoadPlanned, Planned, r, d, q
<1> QED
  BY <1>1, PacerInductive, PTL

(***************************************************************************)
(* Whatever the reservoir's capacity, the reported percentiles exist, are  *)
(* ordered, and are at most one sample below the nearest rank.             *)
(***************************************************************************)
THEOREM RanksSoundCorrect == PacerSpec => []RanksSound
<1>1. TypeOK => RanksSound
  BY RankArithmetic, PercentilesAssumption DEF TypeOK, RanksSound
<1> QED
  BY <1>1, PacerTypeCorrect, PTL
=============================================================================
