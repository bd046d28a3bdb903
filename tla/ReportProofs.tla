---------------------------- MODULE ReportProofs ----------------------------
(***************************************************************************)
(* Proofs about Report for every pool, every number of requests and every  *)
(* capacity of the reservoir.                                              *)
(***************************************************************************)
EXTENDS Report, TLAPS

(* When each sentence is said. *)
LEMMA Sentences ==
  ASSUME NEW i \in Inputs
  PROVE  /\ "rejected" \in Observations(i)
              <=> i.defense /\ i.codes["limited"] > 0
         /\ "serverErrors" \in Observations(i) <=> i.codes["server"] > 0
         /\ "clientErrors" \in Observations(i) <=> i.codes["client"] > 0
         /\ "noFailures" \in Observations(i) <=> i.failed = 0
         /\ "errorRate" \in Observations(i)
              <=> i.failed # 0 /\ (~i.defense \/ i.codes["limited"] < i.failed)
         /\ "noRequests" \in Observations(i) <=> i.total = 0
<1>1. i.codes \in [Classes -> Nat]
  BY DEF Inputs, Codes
<1>2. i.codes["limited"] \in Nat /\ i.codes["client"] \in Nat
  BY <1>1 DEF Classes
<1>3. i.codes["limited"] + i.codes["client"] - i.codes["limited"]
        = i.codes["client"]
  BY <1>2
<1> QED
  BY <1>3 DEF Observations

(* A larger part has no smaller share, and none is above 100%. *)
LEMMA Shares ==
  ASSUME NEW a \in Nat, NEW b \in Nat, NEW t \in Nat, a <= b, b <= t
  PROVE  Percent(a, t) <= Percent(b, t) /\ Percent(b, t) <= 100
<1>1. CASE t = 0
  BY <1>1 DEF Percent
<1>2. CASE t > 0
  <2> DEFINE p == (a * 100) \div t
             q == (b * 100) \div t
  <2>1. /\ p \in Int /\ q \in Int
        /\ t * p <= a * 100 /\ a * 100 < t * p + t
        /\ t * q <= b * 100 /\ b * 100 < t * q + t
    BY <1>2
  <2> HIDE DEF p, q
  <2>2. p <= q
    <3>1. SUFFICES ASSUME p >= q + 1
                   PROVE  FALSE
      BY <2>1
    <3>2. t * p >= t * (q + 1)
      BY <2>1, <3>1, SMT
    <3>3. t * (q + 1) = t * q + t
      BY <2>1, SMT
    <3>4. t * p \in Int /\ t * q \in Int
      BY <2>1
    <3> QED
      BY <2>1, <3>2, <3>3, <3>4
  <2>3. q <= 100
    <3>1. SUFFICES ASSUME q >= 101
                   PROVE  FALSE
      BY <2>1
    <3>2. t * q >= t * 101
      BY <2>1, <3>1, SMT
    <3>3. t * q \in Int
      BY <2>1
    <3> QED
      BY <1>2, <2>1, <3>2, <3>3
  <2> QED
    BY <1>2, <2>2, <2>3 DEF Percent, p, q
<1> QED
  BY <1>1, <1>2

-----------------------------------------------------------------------------

(* The two tallies differ by what the workers hold. *)
Balance ==
  /\ exp.ok = codes["ok"] + held["ok"]
  /\ exp.failed = FailedIn(codes) + FailedIn(held)
  /\ SumOf(held) <= Pool
  /\ ~defense => held["limited"] = 0 /\ codes["limited"] = 0

(* The captured result is the record, and the documents are copies of it. *)
Copies ==
  /\ captured # Nil =>
       /\ SumOf(held) = 0
       /\ captured = Input(defense, exp, codes, captured.rate,
                           Smaller(SumOf(codes), MaxSamples))
  /\ expDoc # Nil =>
       /\ captured # Nil
       /\ expDoc = [ok |-> captured.ok, failed |-> captured.failed,
                    total |-> exp.ok + exp.failed, codes |-> captured.codes]
  /\ metDoc # Nil =>
       /\ expDoc # Nil
       /\ metDoc = [total |-> captured.total, codes |-> captured.codes,
                    rate |-> captured.rate]

(* What was read of a run that goes on is not ahead of it. *)
Within(i) ==
  /\ i.defense = defense
  /\ i.ok <= exp.ok /\ i.failed <= exp.failed
  /\ i.total <= SumOf(codes) /\ \A c \in Classes : i.codes[c] <= codes[c]

Reading ==
  /\ copy # Nil => copy.ok <= exp.ok /\ copy.failed <= exp.failed
  /\ live # Nil => Within(live)

RInv == TypeOK /\ Balance /\ Copies /\ Reading

(* The sums of natural numbers. *)
LEMMA Sums ==
  ASSUME NEW f \in Codes
  PROVE  /\ f["ok"] \in Nat /\ f["limited"] \in Nat /\ f["client"] \in Nat
         /\ f["server"] \in Nat /\ f["other"] \in Nat
         /\ FailedIn(f) \in Nat /\ SumOf(f) \in Nat
<1>1. \A c \in Classes : f[c] \in Nat
  BY DEF Codes
<1> QED
  BY <1>1 DEF Classes, FailedIn, SumOf

(* One outcome more moves one of the two sums. *)
LEMMA Added ==
  ASSUME NEW f \in Codes, NEW c \in Classes, NEW g,
         g = [f EXCEPT ![c] = @ + 1]
  PROVE  /\ g \in Codes
         /\ g["ok"] = IF c = "ok" THEN f["ok"] + 1 ELSE f["ok"]
         /\ FailedIn(g) = IF c = "ok" THEN FailedIn(f) ELSE FailedIn(f) + 1
         /\ SumOf(g) = SumOf(f) + 1
         /\ g["limited"] = IF c = "limited" THEN f["limited"] + 1
                                            ELSE f["limited"]
<1>1. g \in Codes
  BY DEF Codes
<1>2. \A x \in Classes : g[x] = IF x = c THEN f[c] + 1 ELSE f[x]
  BY DEF Codes
<1>3. {"ok", "limited", "client", "server", "other"} = Classes
  BY DEF Classes
<1>4. /\ g["ok"] = IF c = "ok" THEN f["ok"] + 1 ELSE f["ok"]
      /\ g["limited"] = IF c = "limited" THEN f["limited"] + 1 ELSE f["limited"]
      /\ g["client"] = IF c = "client" THEN f["client"] + 1 ELSE f["client"]
      /\ g["server"] = IF c = "server" THEN f["server"] + 1 ELSE f["server"]
      /\ g["other"] = IF c = "other" THEN f["other"] + 1 ELSE f["other"]
  BY <1>2, <1>3
<1>5. FailedIn(g) = IF c = "ok" THEN FailedIn(f) ELSE FailedIn(f) + 1
  BY <1>3, <1>4, Sums DEF FailedIn
<1>6. SumOf(g) = SumOf(f) + 1
  BY <1>3, <1>4, <1>5, Sums DEF SumOf
<1> QED
  BY <1>1, <1>4, <1>5, <1>6

(* One outcome less does, too. *)
LEMMA Taken ==
  ASSUME NEW f \in Codes, NEW c \in Classes, f[c] > 0, NEW g,
         g = [f EXCEPT ![c] = @ - 1]
  PROVE  /\ g \in Codes
         /\ g["ok"] = IF c = "ok" THEN f["ok"] - 1 ELSE f["ok"]
         /\ FailedIn(g) = IF c = "ok" THEN FailedIn(f) ELSE FailedIn(f) - 1
         /\ SumOf(g) = SumOf(f) - 1
         /\ g["limited"] = IF c = "limited" THEN f["limited"] - 1
                                            ELSE f["limited"]
<1>1. g \in Codes
  BY DEF Codes
<1>2. \A x \in Classes : g[x] = IF x = c THEN f[c] - 1 ELSE f[x]
  BY DEF Codes
<1>3. {"ok", "limited", "client", "server", "other"} = Classes
  BY DEF Classes
<1>4. /\ g["ok"] = IF c = "ok" THEN f["ok"] - 1 ELSE f["ok"]
      /\ g["limited"] = IF c = "limited" THEN f["limited"] - 1 ELSE f["limited"]
      /\ g["client"] = IF c = "client" THEN f["client"] - 1 ELSE f["client"]
      /\ g["server"] = IF c = "server" THEN f["server"] - 1 ELSE f["server"]
      /\ g["other"] = IF c = "other" THEN f["other"] - 1 ELSE f["other"]
  BY <1>2, <1>3
<1>5. FailedIn(g) = IF c = "ok" THEN FailedIn(f) ELSE FailedIn(f) - 1
  BY <1>3, <1>4, Sums DEF FailedIn
<1>6. SumOf(g) = SumOf(f) - 1
  BY <1>3, <1>4, <1>5, Sums DEF SumOf
<1> QED
  BY <1>1, <1>4, <1>5, <1>6

(* Four natural numbers that add up to nothing. *)
LEMMA Nothing ==
  ASSUME NEW a \in Nat, NEW b \in Nat, NEW c \in Nat, NEW d \in Nat,
         a + b + c + d = 0
  PROVE  a = 0 /\ b = 0 /\ c = 0
OBVIOUS

(* A worker takes an outcome in hand. *)
LEMMA TallyKeeps ==
  ASSUME RInv, NEW c \in Classes, Tally(c)
  PROVE  RInv'
<1>a. /\ exp \in Counters /\ held \in Codes /\ codes \in Codes
      /\ UNCHANGED <<defense, codes, captured, memory, expDoc, metDoc, copy, live>>
      /\ captured = Nil /\ SumOf(held) < Pool
      /\ c = "limited" => defense
  BY DEF RInv, TypeOK, Tally, docs
<1>b. /\ held["ok"] \in Nat /\ held["limited"] \in Nat
      /\ FailedIn(held) \in Nat /\ SumOf(held) \in Nat
      /\ codes["ok"] \in Nat /\ FailedIn(codes) \in Nat /\ SumOf(codes) \in Nat
  BY <1>a, Sums
<1>c. held[c] \in Nat
  BY <1>a DEF Codes
<1>1. held' = [held EXCEPT ![c] = @ + 1]
  BY DEF Tally
<1>2. /\ held' \in Codes
      /\ held'["ok"] = IF c = "ok" THEN held["ok"] + 1 ELSE held["ok"]
      /\ FailedIn(held') = IF c = "ok" THEN FailedIn(held) ELSE FailedIn(held) + 1
      /\ SumOf(held') = SumOf(held) + 1
      /\ held'["limited"] = IF c = "limited" THEN held["limited"] + 1
                                             ELSE held["limited"]
  BY <1>a, <1>1, Added
<1>3. /\ exp' \in Counters
      /\ exp'.ok = IF c = "ok" THEN exp.ok + 1 ELSE exp.ok
      /\ exp'.failed = IF c = "ok" THEN exp.failed ELSE exp.failed + 1
  BY <1>a DEF Tally, Counters
<1>4. TypeOK'
  BY <1>a, <1>2, <1>3 DEF RInv, TypeOK
<1>5. Balance'
  BY <1>a, <1>b, <1>2, <1>3, ReportAssumption DEF RInv, Balance, Counters
<1>6. Copies'
  BY <1>a DEF RInv, Copies
<1>7. Reading'
  BY <1>a, <1>3 DEF RInv, Reading, Within, TypeOK, Counters, Inputs
<1> QED
  BY <1>4, <1>5, <1>6, <1>7 DEF RInv

(* The outcome goes from the hand into the collector. *)
LEMMA RecordKeeps ==
  ASSUME RInv, NEW c \in Classes, Record(c)
  PROVE  RInv'
<1>a. /\ exp \in Counters /\ held \in Codes /\ codes \in Codes
      /\ UNCHANGED <<defense, exp, captured, memory, expDoc, metDoc, copy, live>>
      /\ held[c] > 0
  BY DEF RInv, TypeOK, Record, docs
<1>b. /\ held["ok"] \in Nat /\ held["limited"] \in Nat /\ held["client"] \in Nat
      /\ held["server"] \in Nat /\ held["other"] \in Nat
      /\ FailedIn(held) \in Nat /\ SumOf(held) \in Nat
      /\ codes["ok"] \in Nat /\ FailedIn(codes) \in Nat /\ SumOf(codes) \in Nat
      /\ codes["limited"] \in Nat
  BY <1>a, Sums
<1>c. held[c] \in Nat /\ codes[c] \in Nat
  BY <1>a DEF Codes
<1>1. /\ held' = [held EXCEPT ![c] = @ - 1]
      /\ codes' = [codes EXCEPT ![c] = @ + 1]
  BY <1>c DEF Record
<1>2. /\ held' \in Codes
      /\ held'["ok"] = IF c = "ok" THEN held["ok"] - 1 ELSE held["ok"]
      /\ FailedIn(held') = IF c = "ok" THEN FailedIn(held)
                                       ELSE FailedIn(held) - 1
      /\ SumOf(held') = SumOf(held) - 1
      /\ held'["limited"] = IF c = "limited" THEN held["limited"] - 1
                                             ELSE held["limited"]
  BY <1>a, <1>1, Taken
<1>3. /\ codes' \in Codes
      /\ codes'["ok"] = IF c = "ok" THEN codes["ok"] + 1 ELSE codes["ok"]
      /\ FailedIn(codes') = IF c = "ok" THEN FailedIn(codes)
                                        ELSE FailedIn(codes) + 1
      /\ SumOf(codes') = SumOf(codes) + 1
      /\ codes'["limited"] = IF c = "limited" THEN codes["limited"] + 1
                                              ELSE codes["limited"]
  BY <1>a, <1>1, Added
<1>4. TypeOK'
  BY <1>a, <1>2, <1>3 DEF RInv, TypeOK
<1>5. Balance'
  BY <1>a, <1>b, <1>2, <1>3, ReportAssumption DEF RInv, Balance, Counters
<1>6. captured = Nil
  <2>1. c \in {"ok", "limited", "client", "server", "other"}
    BY DEF Classes
  <2>2. held["ok"] > 0 \/ held["limited"] > 0 \/ held["client"] > 0
        \/ held["server"] > 0 \/ held["other"] > 0
    BY <1>a, <2>1
  <2>3. SumOf(held) > 0
    BY <1>b, <2>2 DEF SumOf, FailedIn
  <2> QED
    BY <2>3 DEF RInv, Copies
<1>7. Copies'
  BY <1>a, <1>6 DEF RInv, Copies
<1>8. Reading'
  <2>1. \A x \in Classes : codes[x] \in Nat /\ codes'[x] \in Nat /\ codes[x] <= codes'[x]
    BY <1>a, <1>1, <1>3 DEF Codes
  <2>2. live # Nil => live.total \in Nat /\ \A x \in Classes : live.codes[x] \in Nat
    BY DEF RInv, TypeOK, Inputs, Codes
  <2>3. live # Nil => Within(live)
    BY DEF RInv, Reading
  <2>4. live # Nil => \A x \in Classes : live.codes[x] <= codes'[x]
    BY <2>1, <2>2, <2>3 DEF Within
  <2>5. live # Nil => live.total <= SumOf(codes')
    BY <1>b, <1>3, <2>2, <2>3 DEF Within
  <2> QED
    BY <1>a, <2>3, <2>4, <2>5 DEF RInv, Reading, Within
<1> QED
  BY <1>4, <1>5, <1>7, <1>8 DEF RInv

(* The result is captured when the hands are empty. *)
LEMMA CaptureKeeps ==
  ASSUME RInv, Capture
  PROVE  RInv'
<1>a. /\ UNCHANGED <<defense, exp, held, codes, memory, expDoc, metDoc, copy, live>>
      /\ captured = Nil /\ SumOf(held) = 0
  BY DEF Capture, run, docs
<1>b. /\ exp \in Counters /\ codes \in Codes /\ defense \in BOOLEAN
      /\ SumOf(codes) \in Nat
  BY Sums DEF RInv, TypeOK
<1>1. PICK rate \in 0..SumOf(codes) :
        captured' = Input(defense, exp, codes, rate,
                          Smaller(SumOf(codes), MaxSamples))
  BY DEF Capture
<1>2. captured' \in Inputs
  BY <1>b, <1>1, ReportAssumption DEF Inputs, Input, Smaller, Counters
<1>3. captured'.rate = rate
  BY <1>1 DEF Input
<1>4. TypeOK'
  BY <1>a, <1>2 DEF RInv, TypeOK
<1>5. Balance'
  BY <1>a DEF RInv, Balance, SumOf, FailedIn
<1>6. Copies'
  <2>1. expDoc = Nil /\ metDoc = Nil
    BY <1>a DEF RInv, Copies
  <2> QED
    BY <1>a, <1>1, <1>3, <2>1 DEF Copies, SumOf, FailedIn, Input
<1>7. Reading'
  BY <1>a DEF RInv, Reading, Within, SumOf, FailedIn
<1> QED
  BY <1>4, <1>5, <1>6, <1>7 DEF RInv

(* The two writes copy the captured result. *)
LEMMA SaveKeeps ==
  ASSUME RInv, SaveExp \/ SaveMetrics
  PROVE  RInv'
<1>a. /\ UNCHANGED <<defense, exp, held, codes, captured, memory, copy, live>>
      /\ captured # Nil
  BY DEF SaveExp, SaveMetrics, run, RInv, Copies
<1>b. captured \in Inputs /\ exp \in Counters
  BY <1>a DEF RInv, TypeOK
<1>1. Balance' /\ Reading'
  BY <1>a DEF RInv, Balance, SumOf, FailedIn, Reading, Within
<1>2. CASE SaveExp
  <2>1. /\ expDoc' = [ok |-> captured.ok, failed |-> captured.failed,
                      total |-> exp.ok + exp.failed, codes |-> captured.codes]
        /\ metDoc' = metDoc /\ expDoc = Nil
    BY <1>2 DEF SaveExp
  <2>2. TypeOK'
    BY <1>a, <1>b, <2>1 DEF RInv, TypeOK, Inputs, Counters
  <2>3. Copies'
    BY <1>a, <2>1 DEF RInv, Copies, SumOf, FailedIn, Input
  <2> QED
    BY <1>1, <2>2, <2>3 DEF RInv
<1>3. CASE SaveMetrics
  <2>1. /\ metDoc' = [total |-> captured.total, codes |-> captured.codes,
                      rate |-> captured.rate]
        /\ expDoc' = expDoc /\ expDoc # Nil
    BY <1>3 DEF SaveMetrics
  <2>2. TypeOK'
    BY <1>a, <1>b, <2>1 DEF RInv, TypeOK, Inputs
  <2>3. Copies'
    BY <1>a, <2>1 DEF RInv, Copies, SumOf, FailedIn, Input
  <2> QED
    BY <1>1, <2>2, <2>3 DEF RInv
<1> QED
  BY <1>2, <1>3

(* A reader copies the record, then renders with the view it takes later. *)
LEMMA ReaderKeeps ==
  ASSUME RInv, CopyRecord \/ Render
  PROVE  RInv'
<1>a. UNCHANGED <<defense, exp, held, codes, captured, memory, expDoc, metDoc>>
  BY DEF CopyRecord, Render, run, docs
<1>b. exp \in Counters /\ codes \in Codes /\ held \in Codes
      /\ defense \in BOOLEAN
  BY DEF RInv, TypeOK
<1>c. /\ SumOf(codes) \in Nat /\ SumOf(held) \in Nat
      /\ codes["ok"] \in Nat /\ held["ok"] \in Nat
      /\ FailedIn(codes) \in Nat /\ FailedIn(held) \in Nat
  BY <1>b, Sums
<1>1. Balance' /\ Copies'
  BY <1>a DEF RInv, Balance, SumOf, FailedIn, Copies, Input
<1>2. CASE CopyRecord
  <2>1. copy' = exp /\ live' = live
    BY <1>2 DEF CopyRecord
  <2>2. TypeOK'
    BY <1>a, <1>b, <2>1 DEF RInv, TypeOK
  <2>3. Reading'
    BY <1>a, <1>b, <2>1 DEF RInv, Reading, Within, Counters, SumOf, FailedIn
  <2> QED
    BY <1>1, <2>2, <2>3 DEF RInv
<1>3. CASE Render
  <2>1. PICK rate \in 0..SumOf(codes) :
          live' = Input(defense, copy, codes, rate,
                        Smaller(SumOf(codes), MaxSamples))
    BY <1>3 DEF Render
  <2>2. copy' = Nil /\ copy \in Counters
        /\ copy.ok <= exp.ok /\ copy.failed <= exp.failed
    BY <1>3 DEF Render, RInv, TypeOK, Reading
  <2>3. live' \in Inputs
    BY <1>b, <1>c, <2>1, <2>2, ReportAssumption DEF Inputs, Input, Smaller, Counters
  <2>4. TypeOK'
    BY <1>a, <2>2, <2>3 DEF RInv, TypeOK
  <2>5. /\ live'.defense = defense /\ live'.ok = copy.ok /\ live'.failed = copy.failed
        /\ live'.total = SumOf(codes) /\ live'.codes = codes
    BY <2>1 DEF Input
  <2>6. \A c \in Classes : codes[c] <= codes[c]
    BY <1>b DEF Codes
  <2>7. live' # Nil => Within(live')
    BY <1>c, <2>2, <2>5, <2>6 DEF Within
  <2>8. Reading'
    BY <1>a, <2>2, <2>7 DEF Reading, Within, SumOf, FailedIn
  <2> QED
    BY <1>1, <2>4, <2>8 DEF RInv
<1> QED
  BY <1>2, <1>3

(* The inductive invariant holds for any pool and run. *)
THEOREM ReportInductive == Spec => []RInv
<1>1. Init => RInv
  <2> SUFFICES ASSUME Init
               PROVE  RInv
    OBVIOUS
  <2>1. held \in Codes /\ codes \in Codes /\ \A c \in Classes : held[c] = 0 /\ codes[c] = 0
    BY DEF Init, Codes
  <2>2. /\ FailedIn(held) = 0 /\ FailedIn(codes) = 0 /\ SumOf(held) = 0
        /\ held["ok"] = 0 /\ codes["ok"] = 0
        /\ held["limited"] = 0 /\ codes["limited"] = 0
    BY <2>1 DEF Classes, FailedIn, SumOf
  <2> QED
    BY <2>1, <2>2, ReportAssumption DEF Init, RInv, TypeOK, Counters, Balance,
       Copies, Reading, Within
<1>2. RInv /\ [Next]_vars => RInv'
  <2> SUFFICES ASSUME RInv, [Next]_vars
               PROVE  RInv'
    OBVIOUS
  <2>1. CASE UNCHANGED vars \/ Dead \/ Restart
    <3>1. /\ UNCHANGED <<defense, exp, held, codes, captured, expDoc, metDoc,
                         copy, live>>
          /\ memory' \in BOOLEAN
      BY <2>1 DEF vars, run, docs, Dead, Restart, RInv, TypeOK
    <3> QED
      BY <3>1 DEF RInv, TypeOK, Balance, Copies, Reading, Within,
         SumOf, FailedIn, Input
  <2> QED
    BY <2>1, TallyKeeps, RecordKeeps, CaptureKeeps, SaveKeeps, ReaderKeeps
       DEF Next
<1> QED
  BY <1>1, <1>2, PTL DEF Spec

(* Every variable keeps its type. *)
THEOREM ReportTypeCorrect == Spec => []TypeOK
<1>1. RInv => TypeOK
  BY DEF RInv
<1> QED
  BY <1>1, ReportInductive, PTL

(***************************************************************************)
(* What a report about a running experiment finds stands in the final one, *)
(* for any pool and any interleaving of its two readings with the run.     *)
(***************************************************************************)
THEOREM LiveReportStandsCorrect == Spec => []LiveReportStands
<1>1. RInv => LiveReportStands
  <2> SUFFICES ASSUME RInv, live # Nil, captured # Nil
               PROVE  LiveReportStands
    BY DEF LiveReportStands
  <2> DEFINE i == live
             j == captured
  <2>a. i \in Inputs /\ j \in Inputs /\ defense \in BOOLEAN
    BY DEF RInv, TypeOK
  <2>b. /\ i.defense = defense /\ j.defense = defense
        /\ i.failed <= j.failed /\ i.total <= j.total
        /\ \A c \in Classes : i.codes[c] <= j.codes[c]
    BY DEF RInv, Reading, Within, Copies, Input
  <2>c. "baseline" \in Observations(i) => "baseline" \in Observations(j)
    BY <2>b DEF Observations
  <2> HIDE DEF i, j
  <2>d. /\ i.failed \in Nat /\ j.failed \in Nat
        /\ i.total \in Nat /\ j.total \in Nat
        /\ \A c \in Classes : i.codes[c] \in Nat /\ j.codes[c] \in Nat
    BY <2>a DEF Inputs, Codes
  <2>e. /\ i.codes["limited"] > 0 => j.codes["limited"] > 0
        /\ i.codes["server"] > 0 => j.codes["server"] > 0
        /\ i.codes["client"] > 0 => j.codes["client"] > 0
        /\ j.failed = 0 => i.failed = 0
        /\ j.total = 0 => i.total = 0
    BY <2>b, <2>d DEF Classes
  <2>1. /\ "rejected" \in Observations(i) => "rejected" \in Observations(j)
        /\ "serverErrors" \in Observations(i) => "serverErrors" \in Observations(j)
        /\ "clientErrors" \in Observations(i) => "clientErrors" \in Observations(j)
    BY <2>a, <2>b, <2>e, Sentences
  <2>2. /\ "noFailures" \in Observations(j) => "noFailures" \in Observations(i)
        /\ "noRequests" \in Observations(j) => "noRequests" \in Observations(i)
    BY <2>a, <2>e, Sentences
  <2>3. ~defense /\ "errorRate" \in Observations(i) => "errorRate" \in Observations(j)
    BY <2>a, <2>b, <2>e, Sentences
  <2> QED
    BY <2>c, <2>1, <2>2, <2>3 DEF LiveReportStands, i, j
<1> QED
  BY <1>1, ReportInductive, PTL

(***************************************************************************)
(* A finished report never contradicts itself, whatever the workers did.   *)
(***************************************************************************)
THEOREM FinalReportAgreesCorrect == Spec => []FinalReportAgrees
<1>1. RInv => FinalReportAgrees
  <2> SUFFICES ASSUME RInv, captured # Nil
               PROVE  Consistent(captured)
    BY DEF FinalReportAgrees
  <2> DEFINE i == captured
  <2>a. /\ i \in Inputs /\ exp \in Counters /\ held \in Codes /\ codes \in Codes
        /\ SumOf(held) = 0
    BY DEF RInv, TypeOK, Copies
  <2>b. i.ok = exp.ok /\ i.failed = exp.failed /\ i.total = SumOf(codes)
        /\ i.codes = codes /\ i.defense = defense
    BY DEF RInv, Copies, Input
  <2> HIDE DEF i
  <2>c. /\ codes["ok"] \in Nat /\ codes["limited"] \in Nat
        /\ codes["client"] \in Nat /\ codes["server"] \in Nat
        /\ codes["other"] \in Nat /\ FailedIn(codes) \in Nat
        /\ SumOf(codes) \in Nat
    BY <2>a, Sums
  <2>d. held["ok"] \in Nat /\ FailedIn(held) \in Nat
    BY <2>a, Sums
  <2>1. held["ok"] = 0 /\ FailedIn(held) = 0
    BY <2>a, <2>d DEF SumOf
  <2>2. i.ok = i.codes["ok"] /\ i.failed = FailedIn(i.codes)
    BY <2>b, <2>c, <2>1 DEF RInv, Balance
  <2>3. /\ i.failed = codes["limited"] + codes["client"] + codes["server"]
                        + codes["other"]
        /\ i.total = i.ok + i.failed
    BY <2>b, <2>2 DEF FailedIn, SumOf
  <2>4. i.ok \in Nat /\ i.failed \in Nat /\ i.total \in Nat
    BY <2>a DEF Inputs, i
  <2>5. /\ Percent(i.failed, i.total) <= 100
        /\ Percent(i.codes["limited"], i.total) <= Percent(i.failed, i.total)
    BY <2>b, <2>c, <2>3, <2>4, Shares
  <2>6. ~i.defense => codes["limited"] = 0
    BY <2>b DEF RInv, Balance
  <2>s. /\ "rejected" \in Observations(i) <=> i.defense /\ codes["limited"] > 0
        /\ "serverErrors" \in Observations(i) <=> codes["server"] > 0
        /\ "clientErrors" \in Observations(i) <=> codes["client"] > 0
        /\ "noFailures" \in Observations(i) <=> i.failed = 0
        /\ "errorRate" \in Observations(i)
             <=> i.failed # 0 /\ (~i.defense \/ codes["limited"] < i.failed)
        /\ "noRequests" \in Observations(i) <=> i.total = 0
    BY <2>a, <2>b, Sentences DEF i
  <2> DEFINE said == Observations(i)
  <2> HIDE DEF said
  <2>7. "noFailures" \in said
          => said \cap {"rejected", "serverErrors", "clientErrors", "errorRate"} = {}
    <3>1. i.failed = 0 => /\ codes["limited"] = 0 /\ codes["client"] = 0
                          /\ codes["server"] = 0
      <4>1. SUFFICES ASSUME i.failed = 0
                     PROVE  /\ codes["limited"] = 0 /\ codes["client"] = 0
                            /\ codes["server"] = 0
        OBVIOUS
      <4>2. codes["limited"] + codes["client"] + codes["server"]
              + codes["other"] = 0
        BY <2>3, <4>1
      <4>3. /\ codes["limited"] \in Nat /\ codes["client"] \in Nat
            /\ codes["server"] \in Nat /\ codes["other"] \in Nat
        BY <2>c
      <4> QED
        BY <4>2, <4>3, Nothing
    <3> QED
      BY <2>s, <3>1 DEF said
  <2>8. i.failed > 0 => "rejected" \in said \/ "errorRate" \in said
    BY <2>c, <2>s, <2>4, <2>6 DEF said
  <2>9. i.codes["limited"] > 0 <=> "rejected" \in said
    BY <2>b, <2>c, <2>s, <2>6 DEF said
  <2>10. "noRequests" \in said <=> i.ok + i.failed = 0
    BY <2>s, <2>3, <2>4 DEF said
  <2> QED
    BY <2>2, <2>5, <2>7, <2>8, <2>9, <2>10 DEF Consistent, said, i
<1> QED
  BY <1>1, ReportInductive, PTL

(***************************************************************************)
(* After a restart the numbers of the report are the final ones, whichever *)
(* documents were written, but for the rate, which is 0 without the        *)
(* metrics document; an undefended run's sentences are the same.           *)
(***************************************************************************)
THEOREM RestoredReportSameCorrect == Spec => []RestoredReportSame
<1>1. RInv => RestoredReportSame
  <2> SUFFICES ASSUME RInv, ~memory, expDoc # Nil
               PROVE  RestoredReportSame
    BY DEF RestoredReportSame
  <2> DEFINE now == Restored
  <2>a. /\ captured # Nil /\ captured \in Inputs /\ exp \in Counters
        /\ held \in Codes /\ codes \in Codes /\ SumOf(held) = 0
        /\ SumOf(codes) \in Nat
    BY Sums DEF RInv, TypeOK, Copies
  <2>b. /\ captured.ok = exp.ok /\ captured.failed = exp.failed
        /\ captured.total = SumOf(codes) /\ captured.defense = defense
        /\ captured.samples = Smaller(SumOf(codes), MaxSamples)
    BY DEF RInv, Copies, Input
  <2>c. exp.ok + exp.failed = captured.total
    <3>1. /\ held["ok"] \in Nat /\ FailedIn(held) \in Nat
          /\ codes["ok"] \in Nat /\ FailedIn(codes) \in Nat
      BY <2>a, Sums
    <3>2. held["ok"] = 0 /\ FailedIn(held) = 0
      BY <2>a, <3>1 DEF SumOf
    <3> QED
      BY <2>b, <3>1, <3>2 DEF RInv, Balance, SumOf
  <2>d. /\ expDoc.ok = captured.ok /\ expDoc.failed = captured.failed
        /\ expDoc.total = captured.total /\ expDoc.codes = captured.codes
    BY <2>c DEF RInv, Copies
  <2>e. metDoc # Nil => /\ metDoc.total = captured.total
                        /\ metDoc.codes = captured.codes
                        /\ metDoc.rate = captured.rate
    BY DEF RInv, Copies
  <2>1. /\ now.ok = captured.ok /\ now.failed = captured.failed
        /\ now.total = captured.total /\ now.codes = captured.codes
        /\ now.defense = FALSE /\ now.samples = captured.total
        /\ now.rate = IF metDoc = Nil THEN 0 ELSE captured.rate
    BY <2>d, <2>e DEF Restored, Input
  <2> HIDE DEF now
  <2>2. ~defense => Observations(now) = Observations(captured)
    BY <2>b, <2>1 DEF Observations
  <2>3. /\ now.samples >= captured.samples
        /\ now.total <= MaxSamples => now.samples = captured.samples
    BY <2>a, <2>b, <2>1, ReportAssumption DEF Smaller
  <2> QED
    BY <2>1, <2>2, <2>3 DEF RestoredReportSame, now
<1> QED
  BY <1>1, ReportInductive, PTL
=============================================================================
